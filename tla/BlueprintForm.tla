---------------------------- MODULE BlueprintForm ----------------------------
(***************************************************************************)
(* The form of a blueprint: rows as they are typed, the definition they    *)
(* are sent as, the rows a stored definition opens as, what blocks a       *)
(* submit and what is unfolded then.  A text is its spelling; a value of   *)
(* a definition is a pair of its kind and its spelling.  Descriptions and  *)
(* icons of rows other than a property's, which are only trimmed, are left *)
(* out, and so are the lengths the inputs themselves limit.                *)
(***************************************************************************)
EXTENDS Integers, Sequences, FiniteSets, SequencesExt, Functions

CONSTANTS TrimmedText,  \* each text without the blanks around it
          NumberOf,     \* the number of each numeral, which is spelled as the client spells numbers
          ParsedText,   \* the value of each text that is JSON
          SchemaTexts,  \* the texts of objects that have a part of a schema
          Identifiers,  \* the texts of the grammar of identifiers
          Patterns      \* the texts that are regular expressions

Undefined == <<"none", "">>
Trim(s) == TrimmedText[s]
isNumber(s) == Trim(s) \in DOMAIN NumberOf

\* A field nothing was chosen for need not be in the domain of a row's fields.
Text(row, f) == IF f \in DOMAIN row.at THEN row.at[f] ELSE ""
Blank(row, f) == Trim(Text(row, f)) = ""
ListOf(row, f) == IF f \in DOMAIN row.at THEN row.at[f] ELSE <<>>

toNumberOrUndefined(s) == IF isNumber(s) THEN <<"number", Trim(s)>> ELSE Undefined
safeJsonParse(s) == IF Trim(s) \in DOMAIN ParsedText THEN ParsedText[Trim(s)] ELSE Undefined
orUndefined(s) == IF Trim(s) = "" THEN Undefined ELSE <<"string", Trim(s)>>
Spelled(v) == v[2]
\* The text of an array's item, which an object does not have.
Stringified(v) == IF v[1] = "object" THEN "[object Object]" ELSE v[2]

-----------------------------------------------------------------------------
(* Fields of a property *)

PROPERTY_TYPES == {"string", "number", "boolean", "array", "object"}
Common == {"title", "description", "icon"}
SignIn == {"specAuthorizationUrl", "specTokenUrl", "specClientId", "specAuthorizationScope"}
TYPE_FIELDS ==
  [string |-> {"format", "dateFormat", "pattern", "minLength", "maxLength", "spec", "enumValues", "enumColors", "defaultText"} \cup SignIn,
   number |-> {"minimum", "maximum", "exclusiveMinimum", "exclusiveMaximum", "enumValues", "enumColors", "defaultText"},
   boolean |-> {"defaultBool"},
   array |-> {"itemsType", "itemsFormat", "minItems", "maxItems", "uniqueItems", "defaultList"},
   object |-> {"objectFormat", "objectSpec", "objectSchemaJson", "defaultText"}]
NumberFields == {"minLength", "maxLength", "minimum", "maximum", "exclusiveMinimum", "exclusiveMaximum", "minItems", "maxItems"}
Lists == {"enumValues", "defaultList", "specAuthorizationScope"}

\* The key of a definition a field is sent under.
WireKey(f) ==
  CASE f = "objectFormat" -> "format" [] f = "objectSpec" -> "spec" [] f = "dateFormat" -> "date_format"
    [] f = "enumValues" -> "enum" [] f \in {"defaultText", "defaultBool", "defaultList"} -> "default"
    [] f = "objectSchemaJson" -> "schema" [] OTHER -> f

enumFor(draft) ==
  LET listed == ListOf(draft, "enumValues")
      numbers == SelectSeq(listed, isNumber) IN
  IF draft.type = "number" THEN [i \in DOMAIN numbers |-> <<"number", Trim(numbers[i])>>]
    ELSE [i \in DOMAIN listed |-> <<"string", listed[i]>>]
enumColorsFor(draft) == Restrict(draft.at.enumColors, DOMAIN draft.at.enumColors \cap ToSet(ListOf(draft, "enumValues")))
\* What is no number is sent as null.
coerceArrayItem(s, itemsType) ==
  CASE itemsType = "number" -> IF isNumber(s) THEN <<"number", Trim(s)>> ELSE <<"null", "null">>
    [] itemsType = "boolean" -> <<"boolean", IF s = "true" THEN "true" ELSE "false">>
    [] OTHER -> <<"string", s>>
defaultFor(draft) ==
  CASE draft.type = "boolean" -> IF Text(draft, "defaultBool") = "" THEN Undefined ELSE <<"boolean", draft.at.defaultBool>>
    [] draft.type = "number" -> toNumberOrUndefined(draft.at.defaultText)
    [] draft.type = "object" -> safeJsonParse(draft.at.defaultText)
    [] draft.type = "array" -> [i \in DOMAIN draft.at.defaultList |-> coerceArrayItem(draft.at.defaultList[i], Text(draft, "itemsType"))]
    [] OTHER -> orUndefined(draft.at.defaultText)
\* Of a schema as text only the parts an object has are taken.
objectSchema(draft) == IF Trim(draft.at.objectSchemaJson) \in SchemaTexts THEN safeJsonParse(draft.at.objectSchemaJson) ELSE Undefined

\* The fields of a row its type, its format and its spec let through.
specAuthenticationFor(draft) == IF Text(draft, "spec") = "embedded-url" THEN SignIn ELSE {}
itemsFor(draft) == IF Text(draft, "itemsType") = "string" THEN {"itemsFormat"} ELSE {}
Reaching(draft) ==
  ((Common \cup TYPE_FIELDS[draft.type]) \ (SignIn \cup {"dateFormat", "itemsFormat"}))
    \cup (IF draft.type = "string" THEN specAuthenticationFor(draft) ELSE {})
    \cup (IF draft.type = "string" /\ Text(draft, "format") = "date-time" THEN {"dateFormat"} ELSE {})
    \cup (IF draft.type = "array" THEN itemsFor(draft) ELSE {})

Sent(draft, f) ==
  CASE f \in NumberFields -> toNumberOrUndefined(draft.at[f])
    [] f = "enumValues" -> enumFor(draft)
    [] f = "enumColors" -> enumColorsFor(draft)
    [] f \in {"defaultText", "defaultBool", "defaultList"} -> defaultFor(draft)
    [] f = "objectSchemaJson" -> objectSchema(draft)
    [] f = "specAuthorizationScope" -> [i \in DOMAIN draft.at[f] |-> <<"string", draft.at[f][i]>>]
    [] OTHER -> orUndefined(draft.at[f])
\* An empty list of values and an empty map of colours are not sent either.
Unfilled(f, value) == IF f \in Lists \cup {"enumColors"} THEN DOMAIN value = {} ELSE value = Undefined
propertyDefinitionFor(draft) ==
  LET sent == {f \in Reaching(draft) \cap DOMAIN draft.at : ~Unfilled(f, Sent(draft, f))} IN
  [type |-> draft.type,
   at |-> [k \in {WireKey(f) : f \in sent} |-> Sent(draft, CHOOSE f \in sent : WireKey(f) = k)]]

\* The field a stored key opens in, where the form has one.
FieldOf(type, k) ==
  CASE k = "format" -> CASE type = "string" -> "format" [] type = "object" -> "objectFormat" [] OTHER -> "none"
    [] k = "spec" -> CASE type = "string" -> "spec" [] type = "object" -> "objectSpec" [] OTHER -> "none"
    [] k = "default" -> CASE type = "boolean" -> "defaultBool" [] type = "array" -> "defaultList" [] OTHER -> "defaultText"
    [] k = "date_format" -> "dateFormat" [] k = "enum" -> "enumValues" [] k = "schema" -> "objectSchemaJson"
    [] k \in {"itemsEnum"} -> "none" [] OTHER -> k
Opened(f, value) ==
  CASE f \in Lists -> [i \in DOMAIN value |-> Stringified(value[i])] [] f = "enumColors" -> value [] OTHER -> Spelled(value)
propertyDraftFrom(id, def, required, tier) ==
  LET keys == {k \in DOMAIN def.at : FieldOf(def.type, k) # "none"} IN
  [id |-> id, type |-> def.type, required |-> id \in required, tier |-> tier,
   at |-> [f \in {FieldOf(def.type, k) : k \in keys} |-> Opened(f, def.at[CHOOSE k \in keys : FieldOf(def.type, k) = f])]]

\* The inputs a property's row shows.
Optional(shown, f) == IF shown THEN {f} ELSE {}
StringPropertyFields(draft) ==
  {"format", "pattern", "minLength", "maxLength", "spec", "enumValues", "defaultText"}
    \cup Optional(Text(draft, "format") = "date-time", "dateFormat") \cup (IF Text(draft, "spec") = "embedded-url" THEN SignIn ELSE {})
NumberPropertyFields == {"minimum", "maximum", "exclusiveMinimum", "exclusiveMaximum", "enumValues", "defaultText"}
ArrayPropertyFields(draft) ==
  {"itemsType", "minItems", "maxItems", "uniqueItems", "defaultList"} \cup Optional(Text(draft, "itemsType") = "string", "itemsFormat")
ObjectPropertyFields == {"objectFormat", "objectSpec", "objectSchemaJson", "defaultText"}
EnumEditor(draft) == Optional(draft.type \in {"string", "number"} /\ ListOf(draft, "enumValues") # <<>>, "enumColors")
TypeSpecificFields(draft) ==
  CASE draft.type = "string" -> StringPropertyFields(draft)
    [] draft.type = "number" -> NumberPropertyFields
    [] draft.type = "boolean" -> {"defaultBool"}
    [] draft.type = "array" -> ArrayPropertyFields(draft)
    [] OTHER -> ObjectPropertyFields
AdvancedFields == {"description", "icon"}
BlueprintPropertyRow(draft) == {"title"} \cup TypeSpecificFields(draft) \cup EnumEditor(draft) \cup AdvancedFields

-----------------------------------------------------------------------------
(* The other rows and the whole *)

ROW_FAMILIES == <<"properties", "relations", "mirrorProperties", "calculationProperties", "aggregationProperties">>
PropertyFamilies == {"properties", "mirrorProperties", "calculationProperties", "aggregationProperties"}
AGGREGATION_FUNCS == [entities |-> {"count", "average"}, property |-> {"average", "sum", "min", "max", "median"}]

relationDefinitionFor(draft) == [title |-> Trim(draft.title), target |-> Trim(draft.target), required |-> draft.required, many |-> draft.many]
relationDraftFrom(id, def, tier) ==
  [id |-> id, title |-> def.title, target |-> def.target, required |-> def.required, many |-> def.many, tier |-> tier]
mirrorDefinitionFor(draft) == [title |-> Trim(draft.title), path |-> Trim(draft.path)]
mirrorDraftFrom(id, def) == [id |-> id, title |-> def.title, path |-> def.path]
\* Colours are sent whether the property is colorized or not.
calculationDefinitionFor(draft) ==
  [title |-> Trim(draft.title), type |-> draft.type, format |-> IF draft.type = "string" THEN orUndefined(draft.format) ELSE Undefined,
   spec |-> IF draft.type \in {"string", "object"} THEN orUndefined(draft.spec) ELSE Undefined,
   calculation |-> Trim(draft.calculation), colorized |-> draft.colorized, colors |-> safeJsonParse(draft.colorsJson)]
calculationDraftFrom(id, def) ==
  [id |-> id, title |-> def.title, type |-> def.type, format |-> Spelled(def.format), spec |-> Spelled(def.spec),
   calculation |-> def.calculation, colorized |-> def.colorized, colorsJson |-> IF Spelled(def.colors) = "{}" THEN "" ELSE Spelled(def.colors)]
aggregationDefinitionFor(draft) ==
  LET ofAverage(s) == IF draft.func = "average" THEN orUndefined(s) ELSE Undefined IN
  [title |-> Trim(draft.title), target |-> Trim(draft.target), calculationBy |-> draft.calculationBy, func |-> draft.func,
   property |-> IF draft.calculationBy = "property" THEN orUndefined(draft.property) ELSE Undefined,
   averageOf |-> ofAverage(draft.averageOf), measureTimeBy |-> ofAverage(draft.measureTimeBy),
   query |-> safeJsonParse(draft.queryJson), pathFilter |-> safeJsonParse(draft.pathFilterJson)]
aggregationDraftFrom(id, def) ==
  [id |-> id, title |-> def.title, target |-> def.target, calculationBy |-> def.calculationBy, func |-> def.func,
   property |-> Spelled(def.property), averageOf |-> Spelled(def.averageOf), measureTimeBy |-> Spelled(def.measureTimeBy),
   queryJson |-> Spelled(def.query), pathFilterJson |-> Spelled(def.pathFilter)]
ownershipFor(values) ==
  IF values.ownershipType = "" THEN Undefined
    ELSE <<values.ownershipType, orUndefined(values.ownershipTitle),
           IF values.ownershipType = "Inherited" THEN orUndefined(values.ownershipPath) ELSE Undefined>>

Id(row) == Trim(row.id)
Every(row) == TRUE
IdsOf(rows, Keep(_)) == {Id(rows[i]) : i \in {j \in DOMAIN rows : Keep(rows[j])}} \ {""}
\* A map keyed by the identifiers of rows: of two rows with one identifier the later stays.
Keyed(rows, Keep(_), For(_)) ==
  LET last(id) == CHOOSE i \in DOMAIN rows : /\ Keep(rows[i]) /\ Id(rows[i]) = id
                                            /\ \A j \in DOMAIN rows : Keep(rows[j]) /\ Id(rows[j]) = id => j <= i IN
  [id \in IdsOf(rows, Keep) |-> For(rows[last(id)])]
Single(row) == ~row.many
singleRelationIds(relations) == IdsOf(relations, Single)
Tiered(row) == row.tier # 0
tiersFor(values) ==
  LET rowTiers(rows) == Keyed(rows, Tiered, LAMBDA r : r.tier) IN
  [blueprint |-> values.tier, properties |-> rowTiers(values.properties), relations |-> rowTiers(values.relations)]
hierarchyRelationsFor(values) ==
  LET named == {h \in DOMAIN values.hierarchyRelations : Trim(values.hierarchyRelations[h]) \in singleRelationIds(values.relations)} IN
  [h \in named |-> Trim(values.hierarchyRelations[h])]

toBlueprintRequest(values) ==
  [identifier |-> Trim(values.identifier), title |-> Trim(values.title),
   properties |-> Keyed(values.properties, Every, propertyDefinitionFor), required |-> IdsOf(values.properties, LAMBDA r : r.required),
   relations |-> Keyed(values.relations, Every, relationDefinitionFor),
   mirrorProperties |-> Keyed(values.mirrorProperties, Every, mirrorDefinitionFor),
   calculationProperties |-> Keyed(values.calculationProperties, Every, calculationDefinitionFor),
   aggregationProperties |-> Keyed(values.aggregationProperties, Every, aggregationDefinitionFor),
   ownership |-> ownershipFor(values), hierarchyRelations |-> hierarchyRelationsFor(values), tiers |-> tiersFor(values)]

Rows(map, From(_, _)) == LET ids == SetToSeq(DOMAIN map) IN [i \in DOMAIN ids |-> From(ids[i], map[ids[i]])]
TierOf(tiers, id) == IF id \in DOMAIN tiers THEN tiers[id] ELSE 0
fromBlueprintResponse(b) ==
  [identifier |-> b.identifier, title |-> b.title,
   properties |-> Rows(b.properties, LAMBDA id, def : propertyDraftFrom(id, def, b.required, TierOf(b.tiers.properties, id))),
   relations |-> Rows(b.relations, LAMBDA id, def : relationDraftFrom(id, def, TierOf(b.tiers.relations, id))),
   mirrorProperties |-> Rows(b.mirrorProperties, mirrorDraftFrom),
   calculationProperties |-> Rows(b.calculationProperties, calculationDraftFrom),
   aggregationProperties |-> Rows(b.aggregationProperties, aggregationDraftFrom),
   ownershipType |-> IF b.ownership = Undefined THEN "" ELSE b.ownership[1],
   ownershipTitle |-> IF b.ownership = Undefined THEN "" ELSE Spelled(b.ownership[2]),
   ownershipPath |-> IF b.ownership = Undefined THEN "" ELSE Spelled(b.ownership[3]),
   hierarchyRelations |-> b.hierarchyRelations, tier |-> b.tiers.blueprint]

\* The selects of the hierarchies: one an active hierarchy, one a stored key that is none any more.
HierarchyFieldset(values, active) == active \cup DOMAIN values.hierarchyRelations
HierarchyRow(values, h) ==
  IF h \in DOMAIN values.hierarchyRelations /\ values.hierarchyRelations[h] \in singleRelationIds(values.relations)
    THEN values.hierarchyRelations[h] ELSE ""
OwnershipFieldset(values) == Optional(values.ownershipType # "", "ownershipTitle") \cup Optional(values.ownershipType = "Inherited", "ownershipPath")

-----------------------------------------------------------------------------
(* What blocks a submit.  A row is a pair of the position of its family and its own. *)

RowsOf(values) == UNION {{k} \X DOMAIN values[ROW_FAMILIES[k]] : k \in DOMAIN ROW_FAMILIES}
Family(r) == ROW_FAMILIES[r[1]]
Draft(values, r) == values[Family(r)][r[2]]
Before(r, s) == r[1] < s[1] \/ (r[1] = s[1] /\ r[2] < s[2])

combinedPropertyIds(values) == {r \in RowsOf(values) : Family(r) \in PropertyFamilies}
Repeats(values, rows, r) ==
  Id(Draft(values, r)) # "" /\ \E s \in rows : Before(s, r) /\ Id(Draft(values, s)) = Id(Draft(values, r))
isDuplicatePropertyId(values, r) == Repeats(values, combinedPropertyIds(values), r)
isDuplicateRelationId(values, r) == Repeats(values, {s \in RowsOf(values) : Family(s) = "relations"}, r)

\* Read whatever the type of the row.
minMaxRule(draft, min, max) ==
  /\ isNumber(Text(draft, min)) /\ isNumber(Text(draft, max))
  /\ NumberOf[Trim(Text(draft, min))] > NumberOf[Trim(Text(draft, max))]
\* A path is told by its first segment.
pathRule(path, relations) == Trim(path) \notin IdsOf(relations, Every)
jsonFieldRule(s) == Trim(s) # "" /\ safeJsonParse(s) = Undefined
identityRules(values) == Optional(Trim(values.identifier) \notin Identifiers, "identifier") \cup Optional(Trim(values.title) = "", "title")
enumIssue(draft) ==
  LET listed == ListOf(draft, "enumValues") IN
  /\ draft.type \in {"string", "number"}
  /\ \/ draft.type = "number" /\ \E v \in ToSet(listed) : ~isNumber(v)
     \/ ~IsInjective([i \in DOMAIN listed |-> Trim(listed[i])])
defaultIssue(draft) ==
  ~Blank(draft, "defaultText") /\
    CASE draft.type = "number" /\ ~isNumber(draft.at.defaultText) -> TRUE
      [] draft.type = "object" -> jsonFieldRule(draft.at.defaultText)
      [] OTHER -> ListOf(draft, "enumValues") # <<>> /\ Trim(draft.at.defaultText) \notin ToSet(draft.at.enumValues)
\* A bound and its exclusive form at once.
exclusiveIssue(draft, bound, exclusive) == draft.type = "number" /\ ~Blank(draft, bound) /\ ~Blank(draft, exclusive)
propertyRules(draft) ==
  {f \in {"title", "pattern", "minLength", "minimum", "minItems", "exclusiveMinimum", "exclusiveMaximum", "enumValues", "defaultText", "objectSchemaJson"} :
     CASE f = "title" -> Blank(draft, "title")
       [] f = "pattern" -> draft.type = "string" /\ ~Blank(draft, "pattern") /\ draft.at.pattern \notin Patterns
       [] f = "minLength" -> minMaxRule(draft, "minLength", "maxLength")
       [] f = "minimum" -> minMaxRule(draft, "minimum", "maximum")
       [] f = "minItems" -> minMaxRule(draft, "minItems", "maxItems")
       [] f = "exclusiveMinimum" -> exclusiveIssue(draft, "minimum", f) \/ (draft.type = "number" /\ minMaxRule(draft, f, "exclusiveMaximum"))
       [] f = "exclusiveMaximum" -> exclusiveIssue(draft, "maximum", f)
       [] f = "enumValues" -> enumIssue(draft)
       [] f = "defaultText" -> defaultIssue(draft)
       [] OTHER -> draft.type = "object" /\ jsonFieldRule(Text(draft, "objectSchemaJson"))}
relationRules(draft) ==
  Optional(Trim(draft.title) = "", "title") \cup Optional(Trim(draft.target) = "", "target") \cup Optional(draft.required /\ draft.many, "many")
computedRules(family, draft, values) ==
  Optional(Trim(draft.title) = "", "title")
  \cup (CASE family = "mirrorProperties" -> Optional(pathRule(draft.path, values.relations), "path")
          [] family = "calculationProperties" -> Optional(Trim(draft.calculation) = "", "calculation") \cup Optional(jsonFieldRule(draft.colorsJson), "colorsJson")
          [] OTHER -> Optional(Trim(draft.target) = "", "target")
                        \cup Optional((draft.calculationBy = "property") = (Trim(draft.property) = ""), "property")
                        \cup Optional(draft.func \notin AGGREGATION_FUNCS[draft.calculationBy], "func")
                        \cup Optional(jsonFieldRule(draft.queryJson), "queryJson") \cup Optional(jsonFieldRule(draft.pathFilterJson), "pathFilterJson"))
ownershipRules(values) == values.ownershipType = "Inherited" /\ pathRule(values.ownershipPath, values.relations)

RowIssues(values, r) ==
  LET draft == Draft(values, r)
      repeated == IF Family(r) = "relations" THEN isDuplicateRelationId(values, r) ELSE isDuplicatePropertyId(values, r) IN
  Optional(Id(draft) \notin Identifiers \/ repeated, "id")
    \cup (CASE Family(r) = "properties" -> propertyRules(draft)
            [] Family(r) = "relations" -> relationRules(draft)
            [] OTHER -> computedRules(Family(r), draft, values))
rowsWithErrors(values) == {r \in RowsOf(values) : RowIssues(values, r) # {}}
Submits(values) == identityRules(values) = {} /\ rowsWithErrors(values) = {} /\ ~ownershipRules(values)

-----------------------------------------------------------------------------
(* Folding the rows: fold is the set of rows unfolded and the one to be focused *)

firstRowIds(values) == {<<k, 1>> : k \in {j \in DOMAIN ROW_FAMILIES : values[ROW_FAMILIES[j]] # <<>>}}
reveal(fold, row) == [expanded |-> fold.expanded \cup {row}, focus |-> <<row>>]
\* The first of the rows, family by family.
revealErrors(fold, values) ==
  LET rows == rowsWithErrors(values) IN
  IF rows = {} THEN fold
    ELSE [expanded |-> fold.expanded \cup rows, focus |-> <<CHOOSE r \in rows : \A s \in rows \ {r} : Before(r, s)>>]
ErrorDots(fold, values) == rowsWithErrors(values) \ fold.expanded

-----------------------------------------------------------------------------
(* Laws *)

\* The keys of a property definition a type may have.
Applicable(type) ==
  Common \cup {"default"} \cup
  (CASE type = "string" -> {"format", "date_format", "pattern", "minLength", "maxLength", "enum", "enumColors", "spec"} \cup SignIn
     [] type = "number" -> {"enum", "enumColors", "minimum", "maximum", "exclusiveMinimum", "exclusiveMaximum"}
     [] type = "array" -> {"itemsType", "itemsFormat", "itemsEnum", "minItems", "maxItems", "uniqueItems"}
     [] type = "object" -> {"format", "spec", "schema"}
     [] OTHER -> {})

\* What a row sends its type may have, and every value of it is one the row shows, whatever
\* was typed into the row while it had another type.
SendsWhatItShows(draft) ==
  /\ DOMAIN propertyDefinitionFor(draft).at \subseteq Applicable(draft.type)
  /\ \A k \in DOMAIN propertyDefinitionFor(draft).at :
       \E f \in BlueprintPropertyRow(draft) \cap DOMAIN draft.at : WireKey(f) = k

\* A stored property opens as a row that sends it again, but for what the form has no input for:
\* the values of an array's items, and how to sign in for a spec that is not embedded.
Kept(def) ==
  DOMAIN def.at \ ({"itemsEnum"} \cup IF "spec" \in DOMAIN def.at /\ def.at["spec"] = <<"string", "embedded-url">> THEN {} ELSE SignIn)
\* The default of an array of objects opens as no text that would bring it back.
OfObjects(def) == def.type = "array" /\ "default" \in DOMAIN def.at /\ \E v \in ToSet(def.at["default"]) : v[1] = "object"
OpensAsStored(def) ==
  ~OfObjects(def) => propertyDefinitionFor(propertyDraftFrom("p", def, {}, 0)) = [def EXCEPT !.at = Restrict(@, Kept(def))]

\* A form that may be submitted sends every row, the properties of all families under identifiers
\* of their own.
NoRowIsLost(values) ==
  Submits(values) =>
    LET request == toBlueprintRequest(values) IN
    /\ \A k \in DOMAIN ROW_FAMILIES : Cardinality(DOMAIN request[ROW_FAMILIES[k]]) = Len(values[ROW_FAMILIES[k]])
    /\ \A f, g \in PropertyFamilies : f # g => DOMAIN request[f] \cap DOMAIN request[g] = {}
    /\ request.required \subseteq DOMAIN request.properties /\ DOMAIN request.tiers.relations \subseteq DOMAIN request.relations
\* A blueprint as it was sent opens as the form that sends it; of no colours nothing is left.
OpensAsSent(values) ==
  Submits(values) /\ (\A i \in DOMAIN values.calculationProperties : Trim(values.calculationProperties[i].colorsJson) # "{}")
    => toBlueprintRequest(fromBlueprintResponse(toBlueprintRequest(values))) = toBlueprintRequest(values)

\* A hierarchy sent is one the form shows with its relation, and of a form that may be submitted
\* names a relation to one entity.
HierarchiesAreShown(values, active) ==
  LET sent == toBlueprintRequest(values).hierarchyRelations IN
  /\ \A h \in HierarchyFieldset(values, active) : h \in DOMAIN sent <=> HierarchyRow(values, h) # ""
  /\ Submits(values) => \A h \in DOMAIN sent : ~toBlueprintRequest(values).relations[sent[h]].many

\* A blocked submit leaves no error within a folded row, and goes to the first of them.
ErrorsAreRevealed(values) ==
  LET fold == revealErrors([expanded |-> firstRowIds(values), focus |-> <<>>], values) IN
  /\ ErrorDots(fold, values) = {}
  /\ rowsWithErrors(values) # {} => /\ fold.focus[1] \in rowsWithErrors(values) \cap fold.expanded
                                    /\ \A r \in rowsWithErrors(values) : r = fold.focus[1] \/ Before(fold.focus[1], r)
===============================================================================
