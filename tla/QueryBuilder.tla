----------------------------- MODULE QueryBuilder -----------------------------
(***************************************************************************)
(* Queries over entities.  The visual builder: a model of one query that   *)
(* the user fills in field by field, and the query built from it over the  *)
(* schema the page has read, which may be read anew while it is open.  A   *)
(* query is the record of its clauses; a text typed into a field is told   *)
(* by what it is worth as a literal.  The texts: names and values written  *)
(* into a query and read back by the lexer that colours it, completions at *)
(* the cursor, and the places of diagnostics; quoting is looked at by      *)
(* classes of characters, completion by tokens.                            *)
(***************************************************************************)
EXTENDS Integers, Sequences, FiniteSets, SequencesExt

CONSTANTS Schemas,        \* schemas the page can have read
          Values,         \* texts of a value field: of {"", "word", "true", "integer", "huge"}
          Limits,         \* texts of the limit field, as numbers, 0 for the empty field
          Hops,           \* texts of the hops field, likewise
          MaxParts,       \* bound on the parts of a model filled in or touched
          Unset

VARIABLES schema,         \* the schema of the page
          builder,        \* the model, the fields the user has touched, and whether a removal moved conditions up
          worked          \* the model, as it stands, has once made a query

builderVars == <<schema, builder, worked>>

\* Blueprints and hierarchies compare without regard to case; relations do not.
Folded(name) == CASE name = "SVC" -> "svc" [] name = "Owns" -> "owns" [] OTHER -> name

-----------------------------------------------------------------------------
(* The query of a model *)

META_PROPERTIES == [id \in {"$identifier", "$tier"} |-> [type |-> IF id = "$tier" THEN "number" ELSE "string", enum |-> {}]]

NULL_OPERATORS == {"isNull", "isNotNull"}
getQueryBuilderOperators(type) ==
  {"eq"} \cup NULL_OPERATORS \cup (CASE type = "number" -> {"lt"} [] type = "boolean" -> {} [] OTHER -> {"contains"})

MAX_LIMIT == 10000
MAX_HOPS == 10
QUERY_BUILDER_MAX_CONDITIONS == 8

createQueryBuilderModel == [blueprint |-> Unset, conditions |-> <<>>, connection |-> Unset, returns |-> "start", limit |-> 0]

findBlueprint(s, name) ==
  LET found == {b \in DOMAIN s.blueprints : Folded(b) = Folded(name)} IN
  IF name = Unset \/ found = {} THEN Unset ELSE CHOOSE b \in found : TRUE

\* Stored properties of the scalar types, then the meta properties, which they shadow.
getQueryBuilderProperties(s, blueprint) ==
  LET found == findBlueprint(s, blueprint) IN
  IF found = Unset THEN [p \in {} |-> Unset]
  ELSE LET own == s.blueprints[found].properties
           stored == {p \in DOMAIN own : own[p].type \in {"string", "number", "boolean"}} IN
       [p \in stored \cup DOMAIN META_PROPERTIES |-> IF p \in stored THEN own[p] ELSE META_PROPERTIES[p]]

\* A name with a backtick is beyond the builder.
hasUnsupportedBacktick(name) == name = "ticked"

conditionLiteral(type, value) ==
  CASE type = "string" -> TRUE
    [] type = "boolean" -> value = "true"
    [] OTHER -> value = "integer"

conditionIssue(c, properties) ==
  IF c.property = Unset THEN {<<"property", "propertyRequired">>}
  ELSE IF c.property \notin DOMAIN properties THEN {<<"property", "unknownProperty">>}
  ELSE LET p == properties[c.property] IN
       (IF hasUnsupportedBacktick(c.property) THEN {<<"property", "unsupportedName">>} ELSE {})
       \cup
       (IF c.operator \notin getQueryBuilderOperators(p.type) THEN {<<"operator", "operatorUnsupported">>}
        ELSE IF c.operator \in NULL_OPERATORS THEN {}
        ELSE IF c.value = "" THEN {<<"value", "valueRequired">>}
        ELSE IF ~conditionLiteral(p.type, c.value) \/ (p.enum # {} /\ c.value \notin p.enum) THEN {<<"value", "valueInvalid">>}
        ELSE {})

\* Issues at their paths: of condition i, or of the rest of the model, with 0.
At(i, issues) == {<<<<i, e[1]>>, e[2]>> : e \in issues}

buildConditions(conditions, properties) ==
  UNION {At(i, conditionIssue(conditions[i], properties)) : i \in DOMAIN conditions}
    \cup (IF Len(conditions) > QUERY_BUILDER_MAX_CONDITIONS THEN At(0, {<<"conditions", "tooManyConditions">>}) ELSE {})

validateTarget(c, s, expected) ==
  LET target == findBlueprint(s, c.target) IN
  (IF c.identifier /\ c.target = Unset THEN {<<"targetIdentifier", "targetIdentifierRequiresBlueprint">>} ELSE {})
  \cup
  (IF c.target = Unset THEN IF expected # Unset THEN {<<"targetBlueprint", "targetBlueprintUnknown">>} ELSE {}
   ELSE IF target = Unset THEN {<<"targetBlueprint", "targetBlueprintUnknown">>}
   ELSE IF expected # Unset /\ Folded(target) # Folded(expected) THEN {<<"targetBlueprint", "connectionUnsupported">>}
   ELSE {})
  \cup (IF hasUnsupportedBacktick(c.target) THEN {<<"targetBlueprint", "unsupportedName">>} ELSE {})

hasEdgeCollision(s, name, sources) == \E b \in sources : name \in DOMAIN s.blueprints[b].relations

\* Blueprints an edge of the path can leave from.
hierarchySources(c, source, s) ==
  IF c.maxHops > 1 THEN DOMAIN s.blueprints
  ELSE IF c.direction = "out" THEN {source}
  ELSE IF c.target = Unset THEN DOMAIN s.blueprints
  ELSE DOMAIN s.blueprints \cap {findBlueprint(s, c.target)}

SameFolded(names, name) == {h \in names : Folded(h) = Folded(name)}

validateConnection(c, source, s) ==
  LET relations == s.blueprints[source].relations
      named == SameFolded(s.hierarchies, c.name)
      oneHop == IF c.maxHops # 1 THEN {<<"maxHops", "maxHopsInvalid">>} ELSE {}
      expected == CASE c.kind = "relation" /\ c.name \in DOMAIN relations -> relations[c.name]
                    [] c.kind = "ownership" /\ c.direction = "out" -> "_team"
                    [] OTHER -> Unset IN
  (IF c.name = Unset THEN {<<"name", "connectionNameRequired">>}
   ELSE IF hasUnsupportedBacktick(c.name) THEN {<<"name", "unsupportedName">>} ELSE {})
  \cup validateTarget(c, s, expected)
  \cup
  CASE c.kind = "relation" ->
         oneHop
         \cup (IF c.name \notin DOMAIN relations \/ named # {} THEN {<<"name", "connectionUnsupported">>} ELSE {})
         \cup (IF c.direction # "out" THEN {<<"direction", "directionUnsupported">>} ELSE {})
    [] c.kind = "ownership" ->
         oneHop
         \cup (IF c.name # "$team" THEN {<<"name", "connectionUnsupported">>} ELSE {})
         \cup (IF c.direction = "in" /\ Folded(source) # "_team" THEN {<<"direction", "directionUnsupported">>} ELSE {})
    [] OTHER ->
         (IF c.maxHops \notin 1 .. MAX_HOPS THEN {<<"maxHops", "maxHopsInvalid">>} ELSE {})
         \cup (IF named = {} THEN {<<"name", "connectionUnsupported">>}
               ELSE IF \E h \in named : hasEdgeCollision(s, h, hierarchySources(c, source, s)) THEN {<<"name", "connectionUnsupported">>}
               ELSE {})

\* (n)-[:edge*1..hops]->(m:label {$identifier: ...}), or its reverse.
connectionPattern(c, s) ==
  [edge |-> CASE c.kind = "ownership" -> "$team"
              [] c.kind = "hierarchy" /\ SameFolded(s.hierarchies, c.name) # {} -> CHOOSE h \in SameFolded(s.hierarchies, c.name) : TRUE
              [] OTHER -> c.name,
   hops |-> IF c.kind = "hierarchy" THEN c.maxHops ELSE 1, direction |-> c.direction,
   label |-> findBlueprint(s, c.target), identifier |-> c.identifier]

validateLimit(limit) == IF limit \notin 0 .. MAX_LIMIT THEN {<<"limit", "limitInvalid">>} ELSE {}

buildQuery(m, s) ==
  LET source == findBlueprint(s, m.blueprint)
      errors ==
        At(0, IF m.blueprint = Unset THEN {<<"blueprint", "blueprintRequired">>} ELSE {})
        \cup At(0, IF m.blueprint # Unset /\ source = Unset THEN {<<"blueprint", "unknownBlueprint">>} ELSE {})
        \cup At(0, IF hasUnsupportedBacktick(m.blueprint) THEN {<<"blueprint", "unsupportedName">>} ELSE {})
        \cup buildConditions(m.conditions, getQueryBuilderProperties(s, source))
        \cup At(0, validateLimit(m.limit))
        \cup At(0, IF m.connection = Unset /\ m.returns # "start" THEN {<<"returns", "returnUnsupported">>} ELSE {})
        \cup At(0, IF m.connection # Unset /\ source # Unset THEN validateConnection(m.connection, source, s) ELSE {}) IN
  [errors |-> errors,
   query |-> IF source = Unset \/ errors # {} THEN Unset
             ELSE [label |-> source, where |-> m.conditions, returns |-> m.returns, limit |-> m.limit,
                   path |-> IF m.connection = Unset THEN Unset ELSE connectionPattern(m.connection, s)]]

-----------------------------------------------------------------------------
(* The dialog *)

blankCondition == [property |-> Unset, operator |-> "eq", value |-> ""]
connectionFor(kind) ==
  [kind |-> kind, name |-> IF kind = "ownership" THEN "$team" ELSE Unset, direction |-> "out",
   target |-> IF kind = "ownership" THEN "_team" ELSE Unset, identifier |-> FALSE, maxHops |-> 1]

BuilderInit ==
  /\ schema \in Schemas
  /\ builder = [model |-> createQueryBuilderModel, touched |-> {}, moved |-> FALSE]
  /\ worked = FALSE

\* The query on offer goes to the page's draft; the dialog closes over its model and
\* opens again with it.
Result == buildQuery(builder.model, schema)
Usable == Result.errors = {} /\ Result.query # Unset

\* Parts filled in or touched since the blueprint was picked; a connection counts for two.
Parts(m, touched) ==
  LET at == DOMAIN m.conditions \cup {path[1] : path \in {x \in touched : x[1] # 0}} IN
  Cardinality(at)
    + (IF m.connection # Unset \/ touched \cap ({0} \X {"name", "targetBlueprint", "targetIdentifier", "maxHops"}) # {} THEN 2 ELSE 0)
    + (IF m.limit # 0 \/ <<0, "limit">> \in touched THEN 1 ELSE 0)

MaxTouched == 2 * MaxParts + 1

\* Every edit of the model.
Becomes(m, touched, moved) ==
  /\ Parts(m, touched) <= MaxParts /\ Cardinality(touched) <= MaxTouched
  /\ builder' = [model |-> m, touched |-> touched, moved |-> moved]
  /\ worked' = (buildQuery(m, schema).query # Unset)
  /\ UNCHANGED schema

\* An edit that touches fields.
Edited(m, fields) == Becomes(m, builder.touched \cup fields, builder.moved)

\* Choosing again what is chosen empties a choice.
PickBlueprint ==
  \E b \in DOMAIN schema.blueprints \cup {Unset} :
    Becomes([createQueryBuilderModel EXCEPT !.blueprint = b], {<<0, "blueprint">>}, FALSE)

AddCondition ==
  /\ builder.model.blueprint # Unset
  /\ Len(builder.model.conditions) < QUERY_BUILDER_MAX_CONDITIONS
  /\ Edited([builder.model EXCEPT !.conditions = Append(@, blankCondition)], {})

\* A property takes its first operator and an empty value with it.
EditCondition ==
  LET properties == getQueryBuilderProperties(schema, builder.model.blueprint) IN
  \E i \in DOMAIN builder.model.conditions :
    LET c == builder.model.conditions[i]
        known == c.property \in DOMAIN properties
        to(new, field) == Edited([builder.model EXCEPT !.conditions[i] = new], {<<i, field>>}) IN
    \/ \E p \in DOMAIN properties \cup {Unset} : to([property |-> p, operator |-> "eq", value |-> ""], "property")
    \/ known /\ \E o \in getQueryBuilderOperators(properties[c.property].type) : to([c EXCEPT !.operator = o, !.value = ""], "operator")
    \/ /\ c.operator \notin NULL_OPERATORS
       /\ \E v \in IF known /\ properties[c.property].enum # {} THEN properties[c.property].enum \cup {""}
                   ELSE IF known /\ properties[c.property].type = "boolean" THEN {"true"} ELSE Values \cup {""} :
            to([c EXCEPT !.value = v], "value")

\* The conditions behind the one that goes move up; the touched paths keep their numbers.
RemoveCondition ==
  LET conditions == builder.model.conditions IN
  \E i \in DOMAIN conditions :
    Becomes([builder.model EXCEPT !.conditions = RemoveAt(@, i)], builder.touched, builder.moved \/ i # Len(conditions))

ToggleConnection ==
  /\ builder.model.blueprint # Unset
  /\ IF builder.model.connection = Unset
       THEN Edited([builder.model EXCEPT !.connection = connectionFor("relation")], {})
       ELSE Edited([builder.model EXCEPT !.connection = Unset, !.returns = "start"], {})

\* The fields of a connection, as each kind offers them.
EditConnection ==
  LET m == builder.model
      c == m.connection
      relations == IF m.blueprint \in DOMAIN schema.blueprints THEN schema.blueprints[m.blueprint].relations ELSE [r \in {} |-> Unset]
      to(new, fields) == Edited([m EXCEPT !.connection = new], {0} \X fields)
      fixed == c.kind = "relation" \/ (c.kind = "ownership" /\ c.direction = "out") IN
  /\ c # Unset
  /\ \/ \E kind \in {"relation", "ownership", "hierarchy"} : kind # c.kind /\ to(connectionFor(kind), {"name", "targetBlueprint"})
     \/ /\ c.kind = "relation"
        /\ \E r \in DOMAIN relations \cup {Unset} :
             to([c EXCEPT !.name = r, !.target = IF r = Unset THEN Unset ELSE relations[r], !.direction = "out", !.maxHops = 1],
                {"name", "targetBlueprint"})
     \/ /\ c.kind = "ownership"
        /\ \E d \in {"out"} \cup (IF m.blueprint = "_team" THEN {"in"} ELSE {}) :
             to([c EXCEPT !.direction = d, !.target = IF d = "in" THEN Unset ELSE "_team", !.identifier = FALSE], {})
     \/ /\ c.kind = "hierarchy"
        /\ \/ \E h \in schema.hierarchies \cup {Unset} : to([c EXCEPT !.name = h], {"name"})
           \/ \E d \in {"out", "in"} : to([c EXCEPT !.direction = d], {})
           \/ \E n \in Hops : to([c EXCEPT !.maxHops = n], {"maxHops"})
     \/ /\ ~fixed
        /\ \E b \in DOMAIN schema.blueprints \cup {Unset} :
             to([c EXCEPT !.target = b, !.identifier = @ /\ b # Unset], {"targetBlueprint"})
     \/ \E typed \in BOOLEAN : to([c EXCEPT !.identifier = typed], {"targetIdentifier"})

EditResults ==
  \/ /\ builder.model.connection # Unset
     /\ \E r \in {"start", "target", "both"} : Edited([builder.model EXCEPT !.returns = r], {})
  \/ \E n \in Limits : Edited([builder.model EXCEPT !.limit = n], {<<0, "limit">>})

\* The registry behind the page is read anew while the dialog is open.
SchemaChanges ==
  \E s \in Schemas :
    /\ s # schema /\ schema' = s
    /\ worked' = (worked \/ buildQuery(builder.model, s).query # Unset)
    /\ UNCHANGED builder

BuilderNext ==
  \/ PickBlueprint
  \/ AddCondition
  \/ EditCondition
  \/ RemoveCondition
  \/ ToggleConnection
  \/ EditConnection
  \/ EditResults
  \/ SchemaChanges

BuilderSpec == BuilderInit /\ [][BuilderNext]_builderVars

-----------------------------------------------------------------------------
(* What the dialog shows *)

STALE_SCHEMA_ISSUES == {"unknownBlueprint", "unknownProperty", "operatorUnsupported", "targetBlueprintUnknown",
                        "connectionUnsupported", "unsupportedName"}

\* Which of two issues at one path comes first.
Ahead(field, code, other) ==
  \/ code \in {"connectionNameRequired", "targetBlueprintUnknown"}
  \/ IF field = "name" THEN code = "unsupportedName" /\ other = "connectionUnsupported" ELSE other = "unsupportedName"

\* What is shown at a path: the first issue there, once the path is touched or if the
\* schema has moved on; a set of one code, or none.
issueAt(path) ==
  LET codes == {e[2] : e \in {x \in Result.errors : x[1] = path}}
      first == {code \in codes : \A other \in codes : other = code \/ Ahead(path[2], code, other)} IN
  IF path \in builder.touched THEN first ELSE first \cap STALE_SCHEMA_ISSUES

\* Paths with a field on the screen: each kind of connection has its own.
Fields ==
  LET conditions == builder.model.conditions
      valued == {i \in DOMAIN conditions : conditions[i].operator \notin NULL_OPERATORS} IN
  ({0} \X {"blueprint", "limit"})
    \cup ((DOMAIN conditions) \X {"property", "operator"})
    \cup (valued \X {"value"})
    \cup (IF builder.model.connection = Unset THEN {}
          ELSE {0} \X ({"targetBlueprint", "targetIdentifier"}
                          \cup (CASE builder.model.connection.kind = "relation" -> {"name"}
                                  [] builder.model.connection.kind = "ownership" -> {"direction"}
                                  [] OTHER -> {"name", "direction", "maxHops"})))

Explained ==
  \/ \E path \in Fields : issueAt(path) # {}
  \/ \E e \in Result.errors : e[1] = <<0, "conditions">> /\ builder.model.blueprint # Unset

-----------------------------------------------------------------------------
(* Names and values, character by character *)

Doubled(s, c, with) == FlattenSeq([i \in 1 .. Len(s) |-> IF s[i] = c THEN <<with, c>> ELSE <<s[i]>>])

PlainName(name) == Len(name) > 0 /\ name[1] = "letter" /\ \A i \in 1 .. Len(name) : name[i] \in {"letter", "digit"}
quoteIfNeeded(name, reserved) ==
  IF PlainName(name) /\ ~reserved THEN name ELSE <<"tick">> \o Doubled(name, "tick", "tick") \o <<"tick">>

stringLiteral(value) == <<"quote">> \o Doubled(Doubled(value, "slash", "slash"), "quote", "slash") \o <<"quote">>

\* The first token of a text that goes on after it: its class, length, and what it reads as.
Step(t, c) ==
  CASE t.in = "done" -> t
    [] t.in = "start" ->
         [t EXCEPT !.in = CASE c = "tick" -> "ticked" [] c = "quote" -> "quoted" [] c = "letter" -> "word" [] OTHER -> "done",
                   !.class = CASE c = "tick" -> "variableName" [] c = "quote" -> "string" [] c = "letter" -> "variableName" [] OTHER -> "invalid",
                   !.value = IF c = "letter" THEN <<c>> ELSE <<>>]
    [] t.in = "word" -> IF c \in {"letter", "digit"} THEN [t EXCEPT !.value = Append(@, c)] ELSE [t EXCEPT !.in = "done"]
    [] t.in = "ticked" -> IF c = "tick" THEN [t EXCEPT !.in = "tick"] ELSE [t EXCEPT !.value = Append(@, c)]
    [] t.in = "tick" -> IF c = "tick" THEN [t EXCEPT !.in = "ticked", !.value = Append(@, c)] ELSE [t EXCEPT !.in = "done"]
    [] t.in = "quoted" -> IF c = "quote" THEN [t EXCEPT !.in = "close"]
                          ELSE IF c = "slash" THEN [t EXCEPT !.in = "escape"] ELSE [t EXCEPT !.value = Append(@, c)]
    [] t.in = "escape" -> [t EXCEPT !.in = "quoted", !.value = Append(@, c)]
    [] OTHER -> [t EXCEPT !.in = "done"]
token(text) == FoldLeft(Step, [in |-> "start", class |-> "none", value |-> <<>>], text)

-----------------------------------------------------------------------------
(* Completion at the end of a text of tokens *)

Punctuation == {"(", ")", "[", "]", ":", "|", ".", "{", "}", "-", "<", ">", "*", "=", "IN", "WHERE"}
IsName(x) == x \notin Punctuation
Last1(text) == IF text = <<>> THEN "" ELSE Last(text)
Before(text, n) == SubSeq(text, 1, Len(text) - n)
LastOf(text, xs) == LET at == {i \in DOMAIN text : text[i] \in xs} IN IF at = {} THEN 0 ELSE CHOOSE i \in at : \A j \in at : j <= i
FirstOf(at) == IF at = {} THEN 0 ELSE CHOOSE i \in at : \A j \in at : i <= j

NoCompletion == [offers |-> FALSE, options |-> {}]
Offer(options) == [offers |-> TRUE, options |-> options]

\* Brackets within quoted runs are no structure: a quoted run is one token.
lastUnmatchedBracket(text) ==
  LET open == FoldLeft(LAMBDA stack, i : CASE text[i] \in {"(", "["} -> Append(stack, i)
                                           [] text[i] \in {")", "]"} /\ stack # <<>> -> Front(stack)
                                           [] OTHER -> stack,
                       <<>>, [i \in DOMAIN text |-> i]) IN
  IF open = <<>> THEN 0 ELSE Last(open)

\* The label of the node right before an edge that opens at the bracket.
labelOfPrecedingNode(text, bracket) ==
  LET close == LastOf(SubSeq(text, 1, bracket - 1), {")"})
      opening == LastOf(SubSeq(text, 1, close - 1), {"("}) IN
  IF /\ close # 0 /\ opening # 0 /\ opening + 3 < close + 1
     /\ \A i \in close + 1 .. bracket - 1 : text[i] \in {"-", "<", ">"}
     /\ IsName(text[opening + 1]) /\ text[opening + 2] = ":" /\ IsName(text[opening + 3])
    THEN text[opening + 3] ELSE "none"

labelOfVariable(text, v) ==
  LET at == FirstOf({i \in 1 .. Len(text) - 3 : /\ text[i] = "(" /\ text[i + 1] = v /\ text[i + 2] = ":" /\ IsName(text[i + 3])}) IN
  IF at = 0 THEN "none" ELSE text[at + 3]

\* "single", "variable" with a star, or "none" when v is no edge variable.
edgeVariableDeclaration(text, v) ==
  LET opens == FirstOf({i \in 1 .. Len(text) - 2 : text[i] = "[" /\ text[i + 1] = v /\ text[i + 2] \in {":", "*", "]"}
                                                  /\ \E j \in i .. Len(text) : text[j] = "]"})
      closes == FirstOf({j \in opens .. Len(text) : j > 0 /\ text[j] = "]"}) IN
  IF opens = 0 THEN "none" ELSE IF "*" \in {text[j] : j \in opens .. closes} THEN "variable" ELSE "single"

\* Ends the text in object.partial?
splitTrailingDotAccess(text) ==
  LET dot == LastOf(text, {"."}) IN
  [found |-> /\ dot > 1 /\ Len(text) - dot <= 1 /\ IsName(text[dot - 1])
             /\ (Len(text) > dot => IsName(text[Len(text)])),
   object |-> IF dot > 1 THEN text[dot - 1] ELSE "", partial |-> IF Len(text) > dot THEN Last1(text) ELSE ""]

stripTrailingEnumOperator(text) ==
  IF Last1(text) = "=" THEN Before(text, 1)
  ELSE IF Last1(text) = "[" /\ Last1(Before(text, 1)) = "IN" THEN Before(text, 2) ELSE <<>>

PropertiesOf(registry, label) == IF label \in DOMAIN registry.blueprints THEN DOMAIN registry.blueprints[label].properties ELSE {}
METAS == {"$identifier", "$tier"}
EDGE_METAS == {"$tier"}

\* What is typed of a name keeps the options that begin with it; here, those equal to it.
Narrowed(options, partial) == IF partial = "" THEN options ELSE options \cap {partial}

enumLiteralCompletions(text, registry) ==
  LET access == splitTrailingDotAccess(stripTrailingEnumOperator(text))
      label == labelOfVariable(text, access.object) IN
  IF /\ stripTrailingEnumOperator(text) # <<>> /\ access.found
     /\ access.partial \in PropertiesOf(registry, label)
    THEN LET enum == registry.blueprints[label].properties[access.partial] IN
         IF enum = {} THEN NoCompletion ELSE Offer(enum)
    ELSE NoCompletion

propertyCompletions(text, registry) ==
  LET access == splitTrailingDotAccess(text)
      edge == edgeVariableDeclaration(text, access.object)
      metas == CASE edge = "none" -> METAS [] edge = "single" -> EDGE_METAS [] OTHER -> {}
      own == IF edge = "none" THEN PropertiesOf(registry, labelOfVariable(text, access.object)) ELSE {} IN
  IF access.found THEN Offer(Narrowed(own \cup metas, access.partial)) ELSE NoCompletion

bracketCompletions(text, registry) ==
  LET bracket == lastUnmatchedBracket(text)
      inner == SubSeq(text, bracket + 1, Len(text))
      separator == LastOf(inner, {":", "|"})
      rest == SubSeq(inner, separator + 1, Len(inner))
      partial == IF rest = <<>> THEN "" ELSE rest[1]
      label == labelOfPrecedingNode(text, bracket)
      relations == IF label \in DOMAIN registry.blueprints THEN registry.blueprints[label].relations
                   ELSE UNION {registry.blueprints[b].relations : b \in DOMAIN registry.blueprints} IN
  IF bracket = 0 \/ "{" \in ToSet(inner) \/ separator = 0 \/ Len(rest) > 1 \/ (rest # <<>> /\ ~IsName(partial)) THEN NoCompletion
  ELSE IF text[bracket] = "(" THEN Offer(Narrowed(DOMAIN registry.blueprints, partial))
  ELSE Offer(Narrowed(relations \cup registry.hierarchies \cup {"$team"}, partial))

CLAUSE_KEYWORDS == {"MATCH", "RETURN"}
clauseCompletions(text) == IF text = <<>> \/ Last1(text) = ")" THEN Offer(CLAUSE_KEYWORDS) ELSE NoCompletion

\* The first context that applies, the more specific ones first.
queryCompletions(text, registry) ==
  LET contexts == <<enumLiteralCompletions(text, registry), propertyCompletions(text, registry),
                    bracketCompletions(text, registry), clauseCompletions(text)>> IN
  contexts[FirstOf({n \in 1 .. 4 : n = 4 \/ contexts[n].offers})]

-----------------------------------------------------------------------------
(* Places of diagnostics, in a text of lines of given lengths *)

lineStartOffsets(lines) ==
  [i \in DOMAIN lines |-> FoldLeft(LAMBDA sum, j : sum + lines[j] + 1, 0, [j \in 1 .. i - 1 |-> j])]
TextLength(lines) == lineStartOffsets(lines)[Len(lines)] + lines[Len(lines)]

Smaller(a, b) == IF a <= b THEN a ELSE b
Larger(a, b) == IF a <= b THEN b ELSE a

offsetOf(lines, line, column) ==
  LET at == Smaller(Larger(line, 1), Len(lines)) IN
  Smaller(lineStartOffsets(lines)[at] + Larger(column - 1, 0), TextLength(lines))

\* No place: the whole text.  No end: one character.
toLintDiagnostic(d, lines) ==
  LET placed == d.line # 0 /\ d.column # 0
      from == IF placed THEN offsetOf(lines, d.line, d.column) ELSE 0
      to == CASE placed /\ d.endLine # 0 /\ d.endColumn # 0 -> offsetOf(lines, d.endLine, d.endColumn)
              [] placed /\ (d.endLine = 0 \/ d.endColumn = 0) -> Smaller(from + 1, TextLength(lines))
              [] OTHER -> TextLength(lines) IN
  [from |-> Smaller(from, to), to |-> Larger(from, to)]

-----------------------------------------------------------------------------
(* Properties *)

\* The rules of the server's validator on a query of this shape, over a schema.
PropertyKnown(q, s, p) == p \in DOMAIN META_PROPERTIES \/ p \in DOMAIN s.blueprints[q.label].properties
FarLabelFits(path, target) == path.label = Unset \/ Folded(path.label) = Folded(target)
EdgeAccepted(q, s) ==
  LET path == q.path IN
  IF path.edge = "$team" THEN IF path.direction = "out" THEN FarLabelFits(path, "_team") ELSE Folded(q.label) = "_team"
  ELSE \/ SameFolded(s.hierarchies, path.edge) # {}
       \/ /\ path.direction = "out"
          /\ path.edge \in DOMAIN s.blueprints[q.label].relations
          /\ FarLabelFits(path, s.blueprints[q.label].relations[path.edge])
LiteralFits(q, s, c) ==
  c.operator \in NULL_OPERATORS
    \/ (c.value # "" /\ (getQueryBuilderProperties(s, q.label)[c.property].type = "number" => c.value # "huge"))

AcceptedBy(q, s) ==
  /\ q.label \in DOMAIN s.blueprints
  /\ \A i \in DOMAIN q.where : PropertyKnown(q, s, q.where[i].property) /\ LiteralFits(q, s, q.where[i])
  /\ q.limit <= MAX_LIMIT
  /\ q.path = Unset => q.returns = "start"
  /\ q.path # Unset => /\ EdgeAccepted(q, s)
                       /\ q.path.hops \in 1 .. MAX_HOPS
                       /\ q.path.label \in DOMAIN s.blueprints \cup {Unset}
                       /\ q.path.identifier => q.path.label # Unset

\* An edge of a hierarchy never follows a plain relation that happens to bear its name,
\* wherever on the path it leaves from, and a relation is never read as a hierarchy.
MeansOneThing(q, s) ==
  LET path == q.path
      sources == IF path.hops > 1 \/ (path.direction = "in" /\ path.label = Unset) THEN DOMAIN s.blueprints
                 ELSE IF path.direction = "out" THEN {q.label} ELSE {path.label} IN
  path # Unset /\ SameFolded(s.hierarchies, path.edge) # {} => \A b \in sources : path.edge \notin DOMAIN s.blueprints[b].relations

\* What the builder offers for use, the server accepts over that schema and reads as meant.
OffersAccepted == Usable => AcceptedBy(Result.query, schema) /\ MeansOneThing(Result.query, schema)

\* A builder whose query only the new schema takes away says why, unless a removal has
\* moved conditions up and nothing is wrong but values: where a condition has moved to, its
\* value may be one the user has not touched.
OnlyValues == \A e \in Result.errors : e[2] = "valueInvalid"
SaysWhy == worked /\ ~Usable => Explained \/ (builder.moved /\ OnlyValues)

\* Whatever a name or value holds, the lexer reads it back from the text as one token.
ReadsBack(name, reserved, value) ==
  LET wrote(t, class, v) == token(t \o <<"end">>) = [in |-> "done", class |-> class, value |-> v] IN
  wrote(quoteIfNeeded(name, reserved), "variableName", name) /\ wrote(stringLiteral(value), "string", value)

\* (n:first)-[r:edge]->(m:second) WHERE v. and its beginnings: the options at the cursor
\* are the names the validator takes there, all of them and no other.
PatternText(q) ==
  <<"(", "n">> \o q.first \o <<")", "-", "[", "r">> \o q.edge \o <<"]", "-", ">", "(", "m">> \o q.second \o <<")">>
LabelIn(part) == IF part = <<>> THEN "none" ELSE part[2]
Expected(q, registry) ==
  LET text == PatternText(q)
      label == LabelIn(q.first)
      dotted(v, options) == [text |-> text \o <<"WHERE", v, ".">>, options |-> options]
      enums == {p \in PropertiesOf(registry, label) : registry.blueprints[label].properties[p] # {}}
      relations == UNION {registry.blueprints[b].relations : b \in IF label = "none" THEN DOMAIN registry.blueprints ELSE {label}} IN
  {dotted("n", PropertiesOf(registry, label) \cup METAS),
   dotted("m", PropertiesOf(registry, LabelIn(q.second)) \cup METAS),
   dotted("r", IF "*" \in ToSet(q.edge) THEN {} ELSE EDGE_METAS),
   [text |-> <<"(", "n", ":">>, options |-> DOMAIN registry.blueprints],
   [text |-> <<"(", "n">> \o q.first \o <<")", "-", "[", "r", ":">>, options |-> relations \cup registry.hierarchies \cup {"$team"}],
   [text |-> text, options |-> CLAUSE_KEYWORDS]}
  \cup {[text |-> text \o <<"WHERE", "n", ".", p>> \o operator, options |-> registry.blueprints[label].properties[p]] :
          p \in enums, operator \in {<<"=">>, <<"IN", "[">>}}
OptionsFit(q, registry) ==
  \A at \in Expected(q, registry) : queryCompletions(at.text, registry).options = at.options

\* A diagnostic of any text marks a range of the text in the editor, and never runs backwards.
MarksTheText(d, lines) ==
  LET mark == toLintDiagnostic(d, lines) IN 0 <= mark.from /\ mark.from <= mark.to /\ mark.to <= TextLength(lines)
=============================================================================
