------------------------------ MODULE EntityForm ------------------------------
(***************************************************************************)
(* The form of an entity: the drafts a blueprint and a stored entity open  *)
(* as, the body they are sent as, what blocks a save and on which input,   *)
(* which findings a field wears and which fields a Focus folds away.       *)
(* A value is a pair of its kind and its spelling, items or members; a     *)
(* JSON box holds the value it spells, Undefined when blank, or Broken.    *)
(***************************************************************************)
EXTENDS Integers, Sequences, FiniteSets, SequencesExt, Functions

CONSTANTS TrimmedText,  \* each text without the blanks around it
          NumberOf,     \* the number of each numeral, which is spelled as the client spells numbers
          Formatted     \* the texts of each format and of each pattern that is looked at

Undefined == <<"none", "">>
Broken == <<"broken", "">>
Trim(s) == TrimmedText[s]
isNumber(s) == Trim(s) \in DOMAIN NumberOf
\* What String makes of a value.
Spelled(v) == IF v[1] = "object" THEN "[object Object]" ELSE v[2]
safeJsonParse(box) == IF box = Broken THEN Undefined ELSE box
UsesJson(def) == def.type = "object" \/ (def.type = "array" /\ def.items = "object")

-----------------------------------------------------------------------------
(* Opening *)

emptyPropertyValueDraft(id) == [id |-> id, text |-> "", bool |-> "", list |-> <<>>, json |-> Undefined, unknown |-> FALSE]
\* A value of another type than the definition opens as a blank.
valueToDraft(id, def, value) ==
  LET base == emptyPropertyValueDraft(id)
      fits == value[1] = def.type IN
  CASE UsesJson(def) -> [base EXCEPT !.json = value]
    [] def.type = "array" /\ ~UsesJson(def) -> [base EXCEPT !.list = IF value[1] = "list" THEN [i \in DOMAIN value[2] |-> Spelled(value[2][i])] ELSE <<>>]
    [] def.type = "boolean" -> [base EXCEPT !.bool = IF fits THEN value[2] ELSE ""]
    [] OTHER -> [base EXCEPT !.text = IF fits THEN value[2] ELSE ""]
unknownPropertyDraft(id, value) == [emptyPropertyValueDraft(id) EXCEPT !.json = value, !.unknown = TRUE]
relationValueToDraft(def, id, value) ==
  [id |-> id, single |-> IF ~def.many /\ value[1] = "string" THEN value[2] ELSE "",
   many |-> IF def.many /\ value[1] = "list" THEN [i \in DOMAIN value[2] |-> Spelled(value[2][i])] ELSE <<>>]
teamValuesOf(team) == CASE team = Undefined -> <<>> [] team[1] = "list" -> team[2] [] OTHER -> <<team[2]>>

Stored(map, id) == IF id \in DOMAIN map THEN map[id] ELSE Undefined
Drafts(ids, Draft(_)) == LET s == SetToSeq(ids) IN [i \in DOMAIN s |-> Draft(s[i])]
emptyEntityForm(b) ==
  [properties |-> Drafts(DOMAIN b.properties, LAMBDA id : valueToDraft(id, b.properties[id], b.properties[id].default)),
   relations |-> Drafts(DOMAIN b.relations, LAMBDA id : [id |-> id, single |-> "", many |-> <<>>]), team |-> <<>>]
fromEntityResponse(e, b) ==
  [properties |-> Drafts(DOMAIN b.properties, LAMBDA id : valueToDraft(id, b.properties[id], Stored(e.properties, id)))
                    \o Drafts(DOMAIN e.properties \ (DOMAIN b.properties \cup b.computed), LAMBDA id : unknownPropertyDraft(id, e.properties[id])),
   relations |-> Drafts(DOMAIN b.relations, LAMBDA id : relationValueToDraft(b.relations[id], id, Stored(e.relations, id))),
   team |-> teamValuesOf(e.team)]

-----------------------------------------------------------------------------
(* Sending: what is blank is left out *)

coerceListItems(list, items) ==
  [i \in DOMAIN list |->
     CASE items = "number" -> <<"number", IF isNumber(list[i]) THEN Trim(list[i]) ELSE "NaN">>
       [] items = "boolean" -> <<"boolean", IF list[i] = "true" THEN "true" ELSE "false">>
       [] OTHER -> <<"string", list[i]>>]
propertyValueToWire(draft, def) ==
  LET text == Trim(draft.text) IN
  IF draft.unknown \/ UsesJson(def) THEN safeJsonParse(draft.json)
    ELSE CASE def.type = "string" -> IF text = "" THEN Undefined ELSE <<"string", text>>
           [] def.type = "number" -> IF isNumber(text) THEN <<"number", text>> ELSE Undefined
           [] def.type = "boolean" -> IF draft.bool = "" THEN Undefined ELSE <<"boolean", draft.bool>>
           [] def.type = "array" -> IF draft.list = <<>> THEN Undefined ELSE <<"list", coerceListItems(draft.list, def.items)>>
           [] OTHER -> Undefined
relationValueToWire(def, draft) ==
  CASE def.many -> IF draft.many = <<>> THEN Undefined ELSE <<"list", coerceListItems(draft.many, "string")>>
    [] OTHER -> IF Trim(draft.single) = "" THEN Undefined ELSE <<"string", Trim(draft.single)>>
teamToWire(team) ==
  LET named == SelectSeq(team, LAMBDA t : Trim(t) # "") IN
  IF named = <<>> THEN Undefined ELSE <<"list", [i \in DOMAIN named |-> Trim(named[i])]>>

\* The definition a draft is sent by; a stored key the blueprint has no more has none.
Definition(b, id) == IF id \in DOMAIN b.properties THEN b.properties[id] ELSE [type |-> "none", items |-> "", format |-> "", enum |-> {}]
Sent(drafts, Wire(_)) ==
  LET ids == {drafts[i].id : i \in {j \in DOMAIN drafts : Wire(drafts[j]) # Undefined}} IN
  [id \in ids |-> Wire(drafts[CHOOSE i \in DOMAIN drafts : drafts[i].id = id])]
toEntityRequest(values, b) ==
  [properties |-> Sent(values.properties, LAMBDA d : IF d.id \in b.computed THEN Undefined ELSE propertyValueToWire(d, Definition(b, d.id))),
   relations |-> Sent(values.relations, LAMBDA d : IF d.id \in DOMAIN b.relations THEN relationValueToWire(b.relations[d.id], d) ELSE Undefined),
   team |-> IF b.ownership = "Inherited" THEN Undefined ELSE teamToWire(values.team)]

-----------------------------------------------------------------------------
(* What blocks a save: one error at most for each input *)

\* A format, or a pattern, that is none of those looked at is no hindrance.
Matches(format, v) == format \in DOMAIN Formatted => v \in Formatted[format]
Listed(def, v) == def.enum = {} \/ v \in def.enum
\* min and max bound the length of a text, the items of an array and, those the inputs are shut at
\* among them, the value of a number.
stringRule(def, v) == Len(v) \notin def.min .. def.max \/ ~Matches(def.pattern, v) \/ ~Listed(def, v) \/ ~Matches(def.format, v)
numberRule(def, v) == NumberOf[v] \notin def.min .. def.max \/ ~Listed(def, v)
arrayRule(def, items) ==
  \/ Len(items) \notin def.min .. def.max
  \/ def.unique /\ ~IsInjective(items)
  \/ \E i \in DOMAIN items : ~Listed(def, Spelled(items[i]))
objectRule(def, value) ==
  /\ def.format = "labeled-url"
  /\ \/ value[1] # "object"
     \/ ~(DOMAIN value[2] \subseteq {"url", "displayText"})
     \/ "url" \notin DOMAIN value[2]
     \/ ~Matches("url", value[2]["url"])
jsonSyntaxError(box) == box = Broken
isRequired(b, id) == id \in b.required

textFieldError(b, draft) ==
  LET def == Definition(b, draft.id)
      text == Trim(draft.text) IN
  /\ ~draft.unknown /\ def.type \in {"string", "number"}
  /\ IF text = "" THEN isRequired(b, draft.id)
       ELSE IF def.type = "number" THEN ~isNumber(text) \/ numberRule(def, text) ELSE stringRule(def, text)
listFieldError(b, draft) ==
  LET def == Definition(b, draft.id) IN
  /\ ~draft.unknown /\ def.type = "array" /\ def.items # "object"
  /\ CASE draft.list = <<>> -> isRequired(b, draft.id)
       [] def.items = "number" /\ (\E v \in ToSet(draft.list) : ~isNumber(v)) -> TRUE
       [] def.items = "boolean" /\ ~(ToSet(draft.list) \subseteq {"true", "false"}) -> TRUE
       [] OTHER -> arrayRule(def, coerceListItems(draft.list, def.items))
\* What an array of objects is not given as a list is looked at as an empty one.
jsonFieldError(b, draft) ==
  LET def == Definition(b, draft.id) IN
  IF draft.unknown THEN jsonSyntaxError(draft.json)
    ELSE /\ UsesJson(def)
         /\ CASE draft.json = Undefined -> isRequired(b, draft.id)
              [] jsonSyntaxError(draft.json) -> TRUE
              [] OTHER -> IF def.type = "array" THEN arrayRule(def, IF draft.json[1] = "list" THEN draft.json[2] ELSE <<>>)
                            ELSE objectRule(def, draft.json)
relationFieldError(def, draft) ==
  def.required /\ (IF def.many THEN draft.many = <<>> ELSE Trim(draft.single) = "")

PropertyErrors(values, b, i) ==
  {slot \in {"text", "list", "json"} :
     \/ slot = "text" /\ textFieldError(b, values.properties[i])
     \/ slot = "list" /\ listFieldError(b, values.properties[i])
     \/ slot = "json" /\ jsonFieldError(b, values.properties[i])}
\* A relation the blueprint has no more blocks nothing.
RelationErrors(values, b, i) ==
  LET draft == values.relations[i] IN
  IF draft.id \in DOMAIN b.relations /\ relationFieldError(b.relations[draft.id], draft)
    THEN {IF b.relations[draft.id].many THEN "many" ELSE "single"} ELSE {}
entityFormValidation(values, b) ==
  {<<"properties", i>> : i \in {j \in DOMAIN values.properties : PropertyErrors(values, b, j) # {}}}
    \cup {<<"relations", i>> : i \in {j \in DOMAIN values.relations : RelationErrors(values, b, j) # {}}}

-----------------------------------------------------------------------------
(* The inputs: the slot each edits, what it offers (nothing: any text), whether it wears findings *)

Widget(slot, offers, paints) == [slot |-> slot, offers |-> offers, paints |-> paints]
Reference(format) == format \in {"team", "user"}
\* A pool of entities, and what is chosen though it is none of them any more.
EntityOptionsSelect(pool, chosen) == pool \cup chosen
ReferencePropertyField(pool, draft, many) ==
  IF many THEN Widget("list", EntityOptionsSelect(pool, ToSet(draft.list)), TRUE)
    ELSE Widget("text", EntityOptionsSelect(pool, {Trim(draft.text)} \ {""}), TRUE)
ArrayField(def, draft, pool) ==
  CASE def.items = "string" /\ Reference(def.format) -> ReferencePropertyField(pool, draft, TRUE)
    [] def.items = "object" -> Widget("json", {}, TRUE)
    [] OTHER -> Widget("list", IF def.enum = {} /\ def.items = "boolean" THEN {"true", "false"} ELSE def.enum, TRUE)
\* The two inputs of a labelled link are given no finding.
LabeledUrlFields == Widget("json", {}, FALSE)
EntityPropertyField(b, draft, pool) ==
  LET def == Definition(b, draft.id) IN
  IF draft.unknown THEN Widget("json", {}, TRUE)
    ELSE CASE def.type = "boolean" -> Widget("bool", {"", "true", "false"}, TRUE)
           [] def.type = "array" -> ArrayField(def, draft, pool)
           [] def.type = "object" -> IF def.format = "labeled-url" THEN LabeledUrlFields ELSE Widget("json", {}, TRUE)
           [] def.type = "string" /\ Reference(def.format) -> ReferencePropertyField(pool, draft, FALSE)
           [] OTHER -> Widget("text", def.enum, TRUE)
EntityRelationField(def) == Widget(IF def.many THEN "many" ELSE "single", {}, FALSE)

\* Typing v into one of the two inputs over the box of a labelled link.
update(box, key, v) ==
  LET parsed == IF safeJsonParse(box)[1] = "object" THEN safeJsonParse(box)[2] ELSE [k \in {} |-> ""]
      next == [k \in DOMAIN parsed \cup {key} |-> IF k = key THEN v ELSE parsed[k]]
      filled == {k \in DOMAIN next \cap {"url", "displayText"} : Trim(next[k]) # ""} IN
  IF filled = {} THEN Undefined ELSE <<"object", [k \in filled |-> Trim(next[k])]>>
Shows(box, key) == LET v == safeJsonParse(box) IN IF v[1] = "object" /\ key \in DOMAIN v[2] THEN v[2][key] ELSE ""

-----------------------------------------------------------------------------
(* Findings and the Focus *)

dedupeEntityFindings(stale, saved) ==
  FoldLeft(LAMBDA merged, f : IF \E g \in ToSet(merged) : g.field = f.field /\ g.code = f.code THEN merged ELSE Append(merged, f),
           <<>>, stale \o saved)
forField(findings, field) == SelectSeq(findings, LAMBDA f : f.field = field)
entityFindingProps(findings, hardError) == IF hardError \/ findings = <<>> THEN <<>> ELSE <<findings[1]>>
\* The finding a property wears.
Worn(values, b, findings, i) ==
  IF EntityPropertyField(b, values.properties[i], {}).paints
    THEN entityFindingProps(forField(findings, <<"properties", values.properties[i].id>>), PropertyErrors(values, b, i) # {})
    ELSE <<>>

withinFocus(tier, focus) == focus = 0 \/ (tier # 0 /\ tier <= focus)
hasFieldError(values, b, section, i) == <<section, i>> \in entityFormValidation(values, b)
\* The fields a fieldset keeps in view, each by its section and its identifier; a relation the
\* blueprint has no more has no field.
PropertiesFieldset(values, b, findings) ==
  {<<"properties", values.properties[i].id>> : i \in {j \in DOMAIN values.properties :
     LET d == values.properties[j] IN
     isRequired(b, d.id) \/ d.unknown \/ forField(findings, <<"properties", d.id>>) # <<>> \/ hasFieldError(values, b, "properties", j)}}
RelationsFieldset(values, b, findings) ==
  {<<"relations", values.relations[i].id>> : i \in {j \in DOMAIN values.relations :
     LET d == values.relations[j] IN
     /\ d.id \in DOMAIN b.relations
     /\ b.relations[d.id].required \/ forField(findings, <<"relations", d.id>>) # <<>> \/ hasFieldError(values, b, "relations", j)}}
Entries(values, b) ==
  {<<"properties", values.properties[i].id>> : i \in DOMAIN values.properties}
    \cup {<<"relations", id>> : id \in {values.relations[i].id : i \in DOMAIN values.relations} \cap DOMAIN b.relations}
TierOf(b, field) == IF field \in DOMAIN b.tiers THEN b.tiers[field] ELSE 0
\* What a blueprint without tiers shows is not folded.
Focused(b, focus) == IF \A field \in DOMAIN b.tiers : b.tiers[field] = 0 THEN 0 ELSE focus
\* What was pinned under the present Focus stays.
Latched(latch, focus, pinned) ==
  [focus |-> focus, keys |-> pinned \cup IF latch.focus = focus THEN latch.keys ELSE {}]
FoldedFields(entries, b, latch, open) ==
  {field \in entries : open \/ withinFocus(TierOf(b, field), latch.focus) \/ field \in latch.keys}

-----------------------------------------------------------------------------
(* Laws *)

\* A stored value the form can hold: of its definition's kind, no blank and with none around it.
Holds(def, value) ==
  CASE UsesJson(def) -> TRUE
    [] def.type = "array" /\ ~UsesJson(def) -> value[1] = "list" /\ value[2] # <<>> /\ \A i \in DOMAIN value[2] : value[2][i][1] = def.items
    [] OTHER -> value[1] = def.type /\ Trim(value[2]) = value[2] /\ value[2] # ""
\* Opened and saved untouched an entity keeps each value the form can hold and each the blueprint
\* has no property for any more; nothing it had no value for is added, no computed value is sent.
SavesAsOpened(e, b) ==
  LET request == toEntityRequest(fromEntityResponse(e, b), b) IN
  /\ DOMAIN request.properties \subseteq DOMAIN e.properties \ b.computed
  /\ \A id \in DOMAIN e.properties \ b.computed :
       id \notin DOMAIN b.properties \/ Holds(Definition(b, id), e.properties[id])
         => id \in DOMAIN request.properties /\ request.properties[id] = e.properties[id]
  /\ b.ownership # "Inherited" => teamValuesOf(request.team) = SelectSeq(teamValuesOf(e.team), LAMBDA t : Trim(t) # "")

Filled(draft, slot) ==
  CASE slot = "text" -> Trim(draft.text) # "" [] slot = "bool" -> draft.bool # "" [] slot = "list" -> draft.list # <<>> [] OTHER -> draft.json # Undefined
Chosen(draft, slot) == IF slot = "list" THEN ToSet(draft.list) ELSE {Trim(draft.text)} \ {""}
\* What is typed is sent or blocks the save at the very input it is typed into, and so does what
\* a select holds without offering it; a relation that blocks it does so at its own input.
NothingTypedIsDropped(values, b, pool) ==
  LET sent == toEntityRequest(values, b) IN
  /\ \A i \in DOMAIN values.properties :
       LET draft == values.properties[i]
           input == EntityPropertyField(b, draft, pool) IN
       /\ PropertyErrors(values, b, i) \subseteq {input.slot}
       /\ PropertyErrors(values, b, i) = {} /\ Filled(draft, input.slot) => draft.id \in DOMAIN sent.properties
       /\ PropertyErrors(values, b, i) = {} /\ input.offers # {} /\ input.slot \in {"text", "list"}
            => Chosen(draft, input.slot) \subseteq input.offers
  /\ \A i \in DOMAIN values.relations : \A slot \in RelationErrors(values, b, i) :
       slot = EntityRelationField(b.relations[values.relations[i].id]).slot
\* What is typed into one input of a labelled link leaves the other's text.
LinksKeepBothTexts(box, key, v) ==
  /\ Shows(update(box, key, v), key) = Trim(v)
  /\ \A k \in {"url", "displayText"} \ {key} : Shows(update(box, key, v), k) = Trim(Shows(box, k))

Pinned(values, b, findings) == PropertiesFieldset(values, b, findings) \cup RelationsFieldset(values, b, findings)
\* A render with the values and the Focus of its time.
Rendered(latch, render, b, findings) == Latched(latch, Focused(b, render.focus), Pinned(render.values, b, findings))
\* Whatever the Focus, what blocks the save and what a finding is about is in view, and stays so
\* until the Focus changes, the error mended or not.
RejectedStaysInView(renders, b, findings) ==
  LET after == [i \in DOMAIN renders |->
                  FoldLeft(LAMBDA l, r : Rendered(l, r, b, findings), [focus |-> 0, keys |-> {}], SubSeq(renders, 1, i))]
      InView(i) == FoldedFields(Entries(renders[i].values, b), b, after[i], FALSE) IN
  \A i \in DOMAIN renders : \A j \in 1 .. i :
    (\A k \in j .. i : renders[k].focus = renders[j].focus) => Pinned(renders[j].values, b, findings) \cap Entries(renders[i].values, b) \subseteq InView(i)

\* A finding is listed once, the stored one before the one of a rejected save, and its property
\* wears it unless an error of its own outranks it or its inputs take none.
FindingsAreWorn(stale, saved, values, b) ==
  LET merged == dedupeEntityFindings(stale, saved) IN
  /\ \A f \in ToSet(stale \o saved) : Cardinality({i \in DOMAIN merged : merged[i].field = f.field /\ merged[i].code = f.code}) = 1
  /\ \A f \in ToSet(stale) : \E g \in ToSet(merged) : g.field = f.field /\ g.code = f.code /\ g \in ToSet(stale)
  /\ \A i \in DOMAIN values.properties :
       forField(merged, <<"properties", values.properties[i].id>>) # <<>>
         => Worn(values, b, merged, i) # <<>> \/ PropertyErrors(values, b, i) # {} \/ ~EntityPropertyField(b, values.properties[i], {}).paints
===============================================================================
