----------------------------- MODULE CatalogForm -----------------------------
(***************************************************************************)
(* The form of a catalog file: the fields of a kind, what is sent of them, *)
(* what blocks a save, the pickers of labels, annotations, tags, types and *)
(* references over their registries, and the control each finding of the   *)
(* check is worn on.  A profile is its three texts: a display name, an     *)
(* address, a picture.  The title and the description, which are only      *)
(* trimmed, the source's reference and the lengths of texts are left out.  *)
(***************************************************************************)
EXTENDS Integers, Sequences, FiniteSets, SequencesExt, Functions

CONSTANTS TrimmedText,  \* each text without the blanks around it
          LowerText,    \* each text in lower case
          FileNames, FileNamespaces, LabelKeys, EntityRefs, TagNames, SingleWords, Uris  \* the texts of each grammar

Trim(s) == TrimmedText[s]
Folded(s) == LowerText[Trim(s)]
trimmedTags(list) ==
  LET named == SelectSeq(list, LAMBDA v : Trim(v) # "") IN [i \in DOMAIN named |-> Trim(named[i])]

-----------------------------------------------------------------------------
(* The fields of a kind *)

ENTITY_KINDS == {"Component", "API", "System", "Domain", "Resource", "Group", "User"}
KIND_FIELDS ==
  [Component |-> {"type", "lifecycle", "owner", "system", "subcomponentOf", "providesApis", "consumesApis", "dependsOn", "dependencyOf"},
   API |-> {"type", "lifecycle", "owner", "system", "definition"},
   System |-> {"type", "owner", "domain"},
   Domain |-> {"type", "owner", "subdomainOf"},
   Resource |-> {"type", "owner", "system", "dependsOn", "dependencyOf"},
   Group |-> {"type", "profile", "parent", "children", "members"},
   User |-> {"profile", "memberOf"}]
KIND_REQUIRED ==
  [Component |-> {"type", "lifecycle", "owner"}, API |-> {"type", "lifecycle", "owner", "definition"}, System |-> {"owner"},
   Domain |-> {"owner"}, Resource |-> {"type", "owner"}, Group |-> {"type"}, User |-> {}]
RELATION_FIELDS == {"providesApis", "consumesApis", "dependsOn", "dependencyOf", "children", "members", "memberOf"}
Words == {"type", "lifecycle"}
References == {"owner", "system", "subcomponentOf", "parent", "domain", "subdomainOf"}
fieldApplies(kind, field) == field \in KIND_FIELDS[kind]
fieldRequired(kind, field) == field \in KIND_REQUIRED[kind]

isValidName(v) == v \in FileNames
isValidKey(v) == v \in LabelKeys
isValidEntityRef(v) == v \in EntityRefs
isValidTag(v) == v \in TagNames
SERVER_WRITTEN_ANNOTATIONS == {"backstage.io/managed-by-location", "backstage.io/managed-by-origin-location", "backstage.io/orphan"}

singleWordRule(values, field) ==
  /\ fieldApplies(values.kind, field)
  /\ LET v == Trim(values.at[field]) IN IF v = "" THEN fieldRequired(values.kind, field) ELSE v \notin SingleWords
refRule(values, field) ==
  /\ fieldApplies(values.kind, field)
  /\ LET v == Trim(values.at[field]) IN IF v = "" THEN fieldRequired(values.kind, field) ELSE ~isValidEntityRef(v)
refArrayRule(values, field) ==
  /\ fieldApplies(values.kind, field)
  /\ \E v \in ToSet(trimmedTags(values.at[field])) : ~isValidEntityRef(v)
SpecErrors(values) ==
  {f \in DOMAIN values.at :
     CASE f \in Words -> singleWordRule(values, f)
       [] f \in References -> refRule(values, f)
       [] f \in RELATION_FIELDS -> refArrayRule(values, f)
       [] f = "definition" -> fieldApplies(values.kind, f) /\ Trim(values.at[f]) = ""
       [] OTHER -> fieldApplies(values.kind, f) /\ Trim(values.at[f][3]) \notin Uris \cup {""}}
LabelErrors(row) ==
  {f \in {"key", "value"} : ~(IF f = "key" THEN isValidKey(Trim(row.key)) ELSE isValidName(Trim(row.value)))}
AnnotationErrors(row) == ~isValidKey(Trim(row.key)) \/ Trim(row.key) \in SERVER_WRITTEN_ANNOTATIONS
LinkErrors(row) == Trim(row.url) \notin Uris \/ Trim(row.icon) \notin FileNames \cup {""}
catalogFileFormValidation(values) ==
  /\ isValidName(Trim(values.name)) /\ Folded(values.namespace) \in FileNamespaces \cup {""}
  /\ SpecErrors(values) = {}
  /\ \A v \in ToSet(values.tags) : isValidTag(v)
  /\ \A i \in DOMAIN values.labels : LabelErrors(values.labels[i]) = {}
  /\ \A i \in DOMAIN values.annotations : ~AnnotationErrors(values.annotations[i])
  /\ \A i \in DOMAIN values.links : ~LinkErrors(values.links[i])

Empty(f) == CASE f \in RELATION_FIELDS -> <<>> [] f = "profile" -> <<"", "", "">> [] OTHER -> ""
Trimmed(f, v) ==
  CASE f \in RELATION_FIELDS -> trimmedTags(v) [] f = "profile" -> <<Trim(v[1]), Trim(v[2]), Trim(v[3])>> [] OTHER -> Trim(v)
\* Of the fields the kind has, the lists are sent even when empty, the others when not blank.
specFor(values) ==
  LET has == {f \in DOMAIN values.at : /\ fieldApplies(values.kind, f)
                                       /\ f \in RELATION_FIELDS \/ Trimmed(f, values.at[f]) # Empty(f)} IN
  [f \in has |-> Trimmed(f, values.at[f])]
\* Of two rows with one key the later stays.
FromRows(rows) ==
  LET last(k) == CHOOSE i \in DOMAIN rows : Trim(rows[i].key) = k /\ \A j \in DOMAIN rows : Trim(rows[j].key) = k => j <= i IN
  [k \in {Trim(rows[i].key) : i \in DOMAIN rows} \ {""} |-> Trim(rows[last(k)].value)]
\* A blank namespace stands for the one given, of a save none, of a preview the default one.
toCatalogFileRequest(values, default) ==
  LET links == SelectSeq(values.links, LAMBDA l : Trim(l.url) # "") IN
  [kind |-> values.kind, name |-> Trim(values.name), namespace |-> IF Folded(values.namespace) = "" THEN default ELSE Folded(values.namespace),
   spec |-> specFor(values), labels |-> FromRows(values.labels), annotations |-> FromRows(values.annotations), tags |-> trimmedTags(values.tags),
   links |-> [i \in DOMAIN links |-> [url |-> Trim(links[i].url), title |-> Trim(links[i].title), icon |-> Trim(links[i].icon)]]]
emptyCatalogFileForm ==
  [kind |-> "Component", name |-> "", namespace |-> "", at |-> [f \in UNION Range(KIND_FIELDS) |-> Empty(f)],
   labels |-> <<>>, annotations |-> <<>>, tags |-> <<>>, links |-> <<>>]
RowsOf(map) == LET keys == SetToSeq(DOMAIN map) IN [i \in DOMAIN keys |-> [key |-> keys[i], value |-> map[keys[i]]]]
fromCatalogFileResponse(file) ==
  [kind |-> IF file.kind \in ENTITY_KINDS THEN file.kind ELSE "Component", name |-> file.name, namespace |-> file.namespace,
   at |-> [f \in UNION Range(KIND_FIELDS) |-> IF f \in DOMAIN file.spec THEN file.spec[f] ELSE Empty(f)],
   labels |-> RowsOf(file.labels), annotations |-> RowsOf(file.annotations), tags |-> file.tags, links |-> file.links]

\* The inputs shown for a kind and those marked as required.
SpecFieldset(kind) == KIND_FIELDS[kind] \cap (Words \cup References \cup {"definition"})
ProfileFieldset(kind) == KIND_FIELDS[kind] \cap {"profile"}
RelationsFieldset(kind) == KIND_FIELDS[kind] \cap RELATION_FIELDS
Marked(kind) ==
  {f \in SpecFieldset(kind) : CASE f = "type" -> fieldRequired(kind, "type") [] OTHER -> f \in {"lifecycle", "owner", "definition"}}

-----------------------------------------------------------------------------
(* The pickers: what is stored and no longer offered is offered to its own input *)

Kept(offered, current) == IF current # "" /\ current \notin offered THEN offered \cup {current} ELSE offered
TypeSelect(dictionaries, values) == Kept(IF values.kind \in DOMAIN dictionaries THEN dictionaries[values.kind] ELSE {}, Trim(values.at["type"]))
LifecycleSelect(lifecycles, values) == Kept(lifecycles, Trim(values.at["lifecycle"]))
TagsMultiSelect(categories, values) ==
  LET allowed == {c \in categories : values.kind \in c.kinds}
      offered == UNION {c.tags : c \in allowed} IN
  [groups |-> allowed, stale |-> ToSet(values.tags) \ offered]

\* A registered label is offered for its kinds, to no row while another has its key.
Allowed(registry, kind) == {k \in DOMAIN registry : kind \in registry[k].kinds}
KeyOptions(registry, values, rows, i) ==
  LET used == {rows[j].key : j \in DOMAIN rows} IN
  Kept({k \in Allowed(registry, values.kind) : k = rows[i].key \/ k \notin used}, rows[i].key)
LabelsFieldset(registry, values, i) ==
  LET row == values.labels[i] IN
  [keys |-> KeyOptions(registry, values, values.labels, i),
   values |-> Kept(IF row.key \in DOMAIN registry THEN registry[row.key].values ELSE {}, row.value)]
AnnotationsFieldset(registry, values, i) == [keys |-> KeyOptions(registry, values, values.annotations, i)]

\* What a pick of an option leaves: one picked again is given up.
Picked(current, option) == IF option = current THEN "" ELSE option
\* One thing done in the labels editor or to the kind; a key picked takes the row's value away.
EditLabels(registry, values, op) ==
  LET row(i) == i \in DOMAIN values.labels IN
  CASE op.do = "add" /\ Allowed(registry, values.kind) # {} -> [values EXCEPT !.labels = Append(@, [key |-> "", value |-> ""])]
    [] op.do = "key" /\ row(op.at) -> IF op.to \in LabelsFieldset(registry, values, op.at).keys
                                        THEN [values EXCEPT !.labels[op.at] = [key |-> Picked(@.key, op.to), value |-> ""]] ELSE values
    [] op.do = "value" /\ row(op.at) -> IF op.to \in LabelsFieldset(registry, values, op.at).values
                                          THEN [values EXCEPT !.labels[op.at].value = Picked(@, op.to)] ELSE values
    [] op.do = "remove" /\ row(op.at) -> [values EXCEPT !.labels = RemoveAt(@, op.at)]
    [] op.do = "kind" -> [values EXCEPT !.kind = op.to]
    [] OTHER -> values

TARGET_KINDS ==
  [owner |-> {"group", "user"}, system |-> {"system"}, subcomponentOf |-> {"component"}, providesApis |-> {"api"}, consumesApis |-> {"api"},
   dependsOn |-> {"component", "resource"}, dependencyOf |-> {"component", "resource"}, parent |-> {"group"}, children |-> {"group"},
   members |-> {"user"}, memberOf |-> {"group"}, domain |-> {"domain"}, subdomainOf |-> {"domain"}]
LowerKind ==
  [Component |-> "component", API |-> "api", System |-> "system", Domain |-> "domain", Resource |-> "resource", Group |-> "group", User |-> "user"]
\* Names and namespaces are compared without their case.
sameIdentity(a, b) == a.kind = b.kind /\ LowerText[a.namespace] = LowerText[b.namespace] /\ LowerText[a.name] = LowerText[b.name]
refSuggestions(identities, field, self) ==
  {i \in identities : LowerKind[i.kind] \in TARGET_KINDS[field] /\ ~\E s \in self : sameIdentity(i, s)}
\* The file being edited; without a namespace it is in the default one.
Self(values, default) ==
  IF Folded(values.name) = "" THEN {}
    ELSE {[kind |-> values.kind, namespace |-> IF Folded(values.namespace) = "" THEN default ELSE Folded(values.namespace), name |-> Folded(values.name)]}

-----------------------------------------------------------------------------
(* Findings: each names a field of the document and, where it has several entries, the entry.  A  *)
(* label's names its key, or its key and its value; the reference is a pair of the two or of one. *)

LABEL_FIELD == "metadata.labels"
ANNOTATION_FIELD == "metadata.annotations"
TAGS_FIELD == "metadata.tags"
splitLabelReference(reference) == [key |-> reference[1], ofValue |-> Len(reference) = 2]
SpecField(field) == field \in UNION Range(KIND_FIELDS)
\* The control a finding is put on: its path, and of labels and annotations the key's.
Control(f) ==
  CASE f.field = LABEL_FIELD -> IF splitLabelReference(f.reference).ofValue THEN <<"labelValue", f.reference[1]>> ELSE <<"labelKey", f.reference[1]>>
    [] f.field = ANNOTATION_FIELD -> <<"annotationKey", f.reference[1]>>
    [] f.field = TAGS_FIELD -> <<"path", "tags">>
    [] SpecField(f.field) -> <<"path", f.field>>
    [] OTHER -> <<"none", "">>
\* A path keeps all of its findings, a key the last.
indexFindings(findings) ==
  [c \in {Control(findings[i]) : i \in DOMAIN findings} \ {<<"none", "">>} |->
     LET own == SelectSeq(findings, LAMBDA f : Control(f) = c) IN IF c[1] = "path" THEN own ELSE <<Last(own)>>]
findingProps(own, hardError, namedValues) == IF hardError \/ own = <<>> THEN <<>> ELSE IF namedValues THEN own ELSE <<own[1]>>
\* invalid: the values the hard rule refuses.
pillVerdict(v, own, hardError, invalid) ==
  CASE hardError -> IF v \in invalid THEN "invalid" ELSE "none"
    [] \E f \in ToSet(own) : f.reference = <<v>> -> "finding"
    [] OTHER -> "none"
renderFindingPill(list, own, hardError, invalid) == [i \in DOMAIN list |-> pillVerdict(list[i], own, hardError, invalid)]

-----------------------------------------------------------------------------
(* Laws *)

\* A form that may be sent sends every field its kind requires and none of another kind, whatever
\* a switch of the kind left behind; what blocks it is on an input shown, and the inputs marked
\* as required are those.
SendsItsKind(values) ==
  LET request == toCatalogFileRequest(values, "") IN
  /\ DOMAIN request.spec \subseteq KIND_FIELDS[values.kind] /\ Marked(values.kind) = KIND_REQUIRED[values.kind]
  /\ SpecErrors(values) \subseteq SpecFieldset(values.kind) \cup ProfileFieldset(values.kind) \cup RelationsFieldset(values.kind)
  /\ catalogFileFormValidation(values) => KIND_REQUIRED[values.kind] \subseteq DOMAIN request.spec
\* What a form sends opens as a form that sends it again.
OpensAsSent(values) ==
  LET request == toCatalogFileRequest(values, "") IN toCatalogFileRequest(fromCatalogFileResponse(request), "") = request

\* No two rows of labels have one key, each shows what it holds, and a value is one the row's own
\* key takes, unless it came with the row.
LabelsApart(registry, given, values) ==
  LET rows == values.labels IN
  /\ \A i, j \in DOMAIN rows : i # j /\ rows[i].key # "" => rows[i].key # rows[j].key
  /\ \A i \in DOMAIN rows : /\ rows[i].key # "" => rows[i].key \in LabelsFieldset(registry, values, i).keys
                            /\ rows[i].value # "" => rows[i].value \in LabelsFieldset(registry, values, i).values
                            /\ \/ rows[i].value = "" \/ \E r \in ToSet(given) : r = rows[i]
                               \/ rows[i].key \in DOMAIN registry /\ rows[i].value \in registry[rows[i].key].values
\* The labels stay apart however they are edited, and what a form that may be sent holds is sent, row by row.
LabelsStayApart(registry, values, ops) ==
  LET after == FoldLeft(LAMBDA v, op : EditLabels(registry, v, op), values, ops) IN
  /\ LabelsApart(registry, values.labels, after)
  /\ catalogFileFormValidation(after) => Cardinality(DOMAIN toCatalogFileRequest(after, "").labels) = Len(after.labels)
\* The pickers offer what is stored, each value once.
PickersKeepTheirValue(dictionaries, lifecycles, categories, values) ==
  LET tags == TagsMultiSelect(categories, values) IN
  /\ Trim(values.at["type"]) \in TypeSelect(dictionaries, values) \cup {""}
  /\ Trim(values.at["lifecycle"]) \in LifecycleSelect(lifecycles, values) \cup {""}
  /\ \A v \in ToSet(values.tags) : (v \in tags.stale) # (\E c \in tags.groups : v \in c.tags)
\* A reference is offered to files of the kinds the field takes and never to the file that would
\* be stored under the name and the namespace of the form.
NothingRefersToItself(identities, field, values, default) ==
  LET request == toCatalogFileRequest(values, default) IN
  \A i \in refSuggestions(identities, field, Self(values, default)) :
    /\ LowerKind[i.kind] \in TARGET_KINDS[field]
    /\ ~(i.kind = request.kind /\ LowerText[i.name] = LowerText[request.name] /\ LowerText[i.namespace] = LowerText[request.namespace])

\* A finding the form knows the field of is put on that field's control;
\* and of a field with several entries an entry is marked
\* exactly when the field says something is wrong with one it has.
FindingsReachTheirControl(findings, list, field, invalid) ==
  LET index == indexFindings(findings)
      own == IF <<"path", field>> \in DOMAIN index THEN index[<<"path", field>>] ELSE <<>>
      hardError == \E v \in ToSet(list) : v \in invalid
      pills == renderFindingPill(list, own, hardError, invalid)
      worn == findingProps(own, hardError, TRUE) IN
  /\ \A f \in ToSet(findings) : Control(f) # <<"none", "">> => \E g \in ToSet(index[Control(f)]) : g.field = f.field /\ g.reference[1] = f.reference[1]
  /\ (\E i \in DOMAIN pills : pills[i] = "invalid") = hardError
  /\ ~hardError => \A i \in DOMAIN pills : (pills[i] = "finding") = (\E f \in ToSet(worn) : f.reference = <<list[i]>>)
===============================================================================
