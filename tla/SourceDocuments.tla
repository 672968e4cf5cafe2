--------------------------- MODULE SourceDocuments ---------------------------
(***************************************************************************)
(* What the web client reads out of JSON and YAML that comes from outside: *)
(* the documents of an ontology import, the document of a row that is      *)
(* synced from its source, the documents of a catalog file.  A JSON value  *)
(* is a tagged pair; text that does not parse is Unparsed.               *)
(***************************************************************************)
EXTENDS Integers, Sequences, FiniteSets, SequencesExt, Functions

Unparsed == <<"unparsed">>
Null == <<"null">>
Text(x) == <<"text", x>>
Object(f) == <<"object", f>>
List(s) == <<"list", s>>
Is(v) == v[1]
Of(v) == v[2]

Holds(o, key, is) == key \in DOMAIN Of(o) /\ Is(Of(o)[key]) = is
TextAt(o, key) == IF Holds(o, key, "text") THEN Of(Of(o)[key]) ELSE "none"
ListAt(o, key) == IF Holds(o, key, "list") THEN Of(Of(o)[key]) ELSE <<>>
ObjectAt(o, key) == IF Holds(o, key, "object") THEN Of(Of(o)[key]) ELSE <<>>
Without(o, keys) == Object(Restrict(Of(o), DOMAIN Of(o) \ keys))
With(o, key, v) == Object([k \in DOMAIN Of(o) \cup {key} |-> IF k = key THEN v ELSE Of(o)[k]])

\* Identifiers compare without regard to case; "SVC" stands for any other spelling.
LowerCase(id) == IF id = "SVC" THEN "svc" ELSE id

-----------------------------------------------------------------------------
(* An ontology import *)

\* Envelopes are told by shape: an entity names its blueprint in a text of that member.
UnwrapEnvelope(v) ==
  IF Is(v) = "list" THEN Of(v)
  ELSE IF Is(v) # "object" THEN <<v>>
  ELSE IF Holds(v, "blueprints", "list") \/ Holds(v, "entities", "list") THEN ListAt(v, "blueprints") \o ListAt(v, "entities")
  ELSE IF Holds(v, "blueprint", "object") THEN <<Of(v)["blueprint"]>>
  ELSE IF Holds(v, "entity", "object") THEN <<Of(v)["entity"]>>
  ELSE <<v>>

DetectKind(o) == IF Holds(o, "blueprint", "text") THEN "entity" ELSE "blueprint"

\* Members only a response carries; "_v" stands for every name with an underscore.
COMMON_STRIP_KEYS == {"id", "updatedAt", "sourceUrl", "_v"}
BLUEPRINT_ONLY_STRIP_KEYS == {"teamInheritance", "changelogDestination"}

SanitizeDocument(o, kind) ==
  LET drop == COMMON_STRIP_KEYS \cup (IF kind = "blueprint" THEN BLUEPRINT_ONLY_STRIP_KEYS ELSE {}) IN
  [body |-> Without(o, drop), stripped |-> DOMAIN Of(o) \cap drop]

\* Computed members of a definition: mirror, calculation and aggregation properties.
ComputedIn(body) ==
  UNION {DOMAIN ObjectAt(body, key) : key \in {"mirrorProperties", "calculationProperties", "aggregationProperties"}}

\* A blueprint the batch redefines speaks for itself; the registry for the others.
ComputedIds(documents, registry) ==
  LET redefined == {d \in documents : d.kind = "blueprint" /\ TextAt(d.body, "identifier") # "none"} IN
  [id \in {TextAt(d.body, "identifier") : d \in redefined} \cup DOMAIN registry |->
     IF \E d \in redefined : TextAt(d.body, "identifier") = id
       THEN ComputedIn((CHOOSE d \in redefined :
                          /\ TextAt(d.body, "identifier") = id
                          /\ \A e \in redefined : TextAt(e.body, "identifier") = id => e.index <= d.index).body)
       ELSE registry[id]]

StripComputed(body, computed) ==
  LET blueprint == TextAt(body, "blueprint")
      ids == IF blueprint \in DOMAIN computed THEN computed[blueprint] ELSE {} IN
  IF ids = {} \/ ~Holds(body, "properties", "object") THEN [body |-> body, strippedComputed |-> {}]
  ELSE [body |-> With(body, "properties", Without(Of(body)["properties"], ids)),
        strippedComputed |-> DOMAIN Of(Of(body)["properties"]) \cap ids]

\* Every source unwrapped and sanitised, documents numbered across all sources.
ParseOntologySources(sources, registry) ==
  LET items == FlattenSeq([i \in 1 .. Len(sources) |->
                 IF Is(sources[i]) = "unparsed" THEN <<[source |-> i, item |-> Unparsed]>>
                 ELSE LET parts == UnwrapEnvelope(sources[i]) IN [j \in 1 .. Len(parts) |-> [source |-> i, item |-> parts[j]]]])
      good == SelectSeq(items, LAMBDA x : Is(x.item) = "object")
      sanitized == {[index |-> i, kind |-> DetectKind(good[i].item), source |-> good[i].source,
                     body |-> SanitizeDocument(good[i].item, DetectKind(good[i].item)).body] : i \in 1 .. Len(good)}
      computed == ComputedIds(sanitized, registry) IN
  [documents |-> {IF d.kind = "entity" THEN [d EXCEPT !.body = StripComputed(d.body, computed).body] ELSE d : d \in sanitized},
   errors |-> Len(items) - Len(good)]

Summarized(sources, registry) ==
  LET found == ParseOntologySources(sources, registry) IN
  [blueprints |-> Cardinality({d \in found.documents : d.kind = "blueprint"}),
   entities |-> Cardinality({d \in found.documents : d.kind = "entity"}), errors |-> found.errors]

-----------------------------------------------------------------------------
(* The document of one row in the text of its source *)

Failure(error) == [document |-> Null, error |-> error]
Candidates(text) == SelectSeq(UnwrapEnvelope(text), LAMBDA x : Is(x) = "object")

\* An explicit null of these members says no more than its absence.
NULLABLE_ENTITY_KEYS == {"icon", "team"}
DropNulls(o, nullable) == Without(o, {k \in DOMAIN Of(o) \cap nullable : Of(o)[k] = Null})

MatchesTarget(body, target) ==
  /\ LowerCase(TextAt(body, "identifier")) = LowerCase(target.identifier)
  /\ TextAt(body, "blueprint") \in {"none", target.blueprint}

\* One document is taken as it is; among several, the first with the row's identity.
PickSourceEntity(text, target, registry) ==
  LET found == [i \in 1 .. Len(Candidates(text)) |-> SanitizeDocument(Candidates(text)[i], "entity").body]
      matches == SelectSeq(found, LAMBDA body : MatchesTarget(body, target))
      completed(body) == IF TextAt(body, "blueprint") = "none" THEN With(body, "blueprint", Text(target.blueprint)) ELSE body
      picked(body) == [document |-> StripComputed(DropNulls(completed(body), NULLABLE_ENTITY_KEYS), registry).body, error |-> "none"] IN
  IF text = Unparsed THEN Failure("parse")
  ELSE IF found = <<>> THEN Failure("noMatch")
  ELSE IF Len(found) = 1
    THEN IF TextAt(found[1], "blueprint") \in {"none", target.blueprint} THEN picked(found[1]) ELSE Failure("blueprintMismatch")
  ELSE IF matches = <<>> THEN Failure("noMatch") ELSE picked(matches[1])

\* Tiers as the server keeps them: both maps, or no tiers at all.
EmptyTiers(t) == ~Holds(t, "blueprint", "text") /\ DOMAIN ObjectAt(t, "properties") = {} /\ DOMAIN ObjectAt(t, "relations") = {}
TiersOf(t) ==
  Object([k \in {"properties", "relations"} \cup (DOMAIN Of(t) \cap {"blueprint"}) |->
            IF k = "blueprint" THEN Of(t)[k] ELSE Object(ObjectAt(t, k))])

\* Mutant: the remote tiers are taken as they are written.
TiersAsWritten(doc) == doc

NormalizeTiers(doc) ==
  IF ~Holds(doc, "tiers", "object") THEN doc
  ELSE IF EmptyTiers(Of(doc)["tiers"]) THEN Without(doc, {"tiers"})
  ELSE With(doc, "tiers", TiersOf(Of(doc)["tiers"]))

\* The comparison does not tell an empty map from an absent one.
Canonical(doc) == Without(doc, {k \in DOMAIN Of(doc) \cap {"relations", "mirrorProperties"} : Of(doc)[k] = Object(<<>>)})

HasTiers(doc) == Holds(doc, "tiers", "object") /\ ~EmptyTiers(Of(doc)["tiers"])
HasHierarchy(doc) == Holds(doc, "hierarchyRelations", "object") /\ DOMAIN ObjectAt(doc, "hierarchyRelations") # {}

\* The stored tiers of the properties and relations the document still has.
PrunedTo(stored, doc) ==
  LET kept(key, own) == Object(Restrict(ObjectAt(stored, key), DOMAIN ObjectAt(stored, key) \cap own)) IN
  TiersOf(Object([k \in DOMAIN Of(stored) |->
     CASE k = "properties" -> kept(k, DOMAIN ObjectAt(Object(ObjectAt(doc, "schema")), "properties"))
       [] k = "relations" -> kept(k, DOMAIN ObjectAt(doc, "relations"))
       [] OTHER -> Of(stored)[k]]))

\* A source that is silent on the hierarchy, or on tiers, keeps the stored ones.
KeepHierarchy(doc, stored) ==
  IF HasHierarchy(doc) \/ ~HasHierarchy(stored) THEN doc
  ELSE With(doc, "hierarchyRelations", Of(stored)["hierarchyRelations"])
KeepTiers(doc, stored) ==
  IF HasTiers(doc) \/ ~HasTiers(stored) THEN doc
  ELSE LET kept == PrunedTo(Of(stored)["tiers"], doc) IN IF EmptyTiers(kept) THEN doc ELSE With(doc, "tiers", kept)

PickSourceBlueprint(text, identifier, stored) ==
  LET found == [i \in 1 .. Len(Candidates(text)) |-> SanitizeDocument(Candidates(text)[i], "blueprint").body]
      matches == SelectSeq(found, LAMBDA body : LowerCase(TextAt(body, "identifier")) = LowerCase(identifier))
      picked(body) ==
        [document |-> KeepTiers(KeepHierarchy(NormalizeTiers(DropNulls(body, {"icon"})), stored), stored), error |-> "none"] IN
  IF text = Unparsed THEN Failure("parse")
  ELSE IF found = <<>> THEN Failure("noMatch")
  ELSE IF Len(found) = 1 THEN picked(found[1])
  ELSE IF matches = <<>> THEN Failure("noMatch") ELSE picked(matches[1])

-----------------------------------------------------------------------------
(* A catalog file: the strict mirror of its generator *)

MEMBERS == [metadata |-> [name |-> "text", namespace |-> "text", labels |-> "object", tags |-> "list", links |-> "list"],
            spec |-> [type |-> "text", owner |-> "text", dependsOn |-> "list", profile |-> "object"]]

EntityKinds == {"component", "api"}

\* What is wrong with the members of one mapping: unknown ones, ones of another type.
MappingErrors(o, shape) ==
  {k \in DOMAIN Of(o) : k \notin DOMAIN shape} \cup {k \in DOMAIN Of(o) \cap DOMAIN shape : Is(Of(o)[k]) # shape[k]}

KindErrors(doc) == IF Holds(doc, "kind", "text") /\ LowerCase(TextAt(doc, "kind")) \in EntityKinds THEN {} ELSE {"kind"}
MetadataErrors(doc) ==
  IF ~Holds(doc, "metadata", "object") THEN {"metadata"}
  ELSE MappingErrors(Of(doc)["metadata"], MEMBERS.metadata)
         \cup (IF "name" \in DOMAIN Of(Of(doc)["metadata"]) THEN {} ELSE {"name"})
SpecErrors(doc) ==
  IF "spec" \notin DOMAIN Of(doc) THEN {}
  ELSE IF ~Holds(doc, "spec", "object") THEN {"spec"} ELSE MappingErrors(Of(doc)["spec"], MEMBERS.spec)

\* apiVersion is accepted and ignored; any other member at the root is refused.
DocumentErrors(doc) ==
  IF Is(doc) # "object" THEN {"document"}
  ELSE (DOMAIN Of(doc) \ {"apiVersion", "kind", "metadata", "spec"}) \cup KindErrors(doc) \cup MetadataErrors(doc) \cup SpecErrors(doc)

\* Blank documents are skipped; the others are mapped or counted as errors.
ParseCatalogYaml(docs) ==
  LET real == SelectSeq(docs, LAMBDA d : d # Null) IN
  [documents |-> SelectSeq(real, LAMBDA d : Is(d) = "object" /\ DocumentErrors(d) = {}),
   errors |-> Cardinality({i \in 1 .. Len(real) : DocumentErrors(real[i]) # {}})]

\* A single document is the row's own, renamed or not; an absent namespace is the default one.
PickRepoDocument(documents, file) ==
  LET namespace(doc) == IF TextAt(Of(doc)["metadata"], "namespace") = "none" THEN "default" ELSE TextAt(Of(doc)["metadata"], "namespace")
      own == SelectSeq(documents, LAMBDA doc :
               /\ LowerCase(TextAt(doc, "kind")) = LowerCase(file.kind)
               /\ LowerCase(namespace(doc)) = LowerCase(file.namespace)
               /\ LowerCase(TextAt(Of(doc)["metadata"], "name")) = LowerCase(file.name)) IN
  IF Len(documents) = 1 THEN documents[1] ELSE IF own = <<>> THEN Null ELSE own[1]

-----------------------------------------------------------------------------
(* Laws *)

\* Documents exported alone, in a list or in an envelope are read back as the documents
\* they are, response members and computed properties aside.
ExportsComeBack(blueprints, entities, registry) ==
  LET all == blueprints \o entities
      shapes == {List(all), Object("blueprints" :> List(blueprints) @@ "entities" :> List(entities))}
                  \cup (IF Len(all) # 1 THEN {} ELSE {all[1], IF blueprints # <<>> THEN Object("blueprint" :> all[1])
                                                              ELSE Object("entity" :> all[1])})
      expected == ParseOntologySources(<<List(all)>>, registry).documents IN
  /\ \A shape \in shapes :
       /\ ParseOntologySources(<<shape>>, registry) = [documents |-> expected, errors |-> 0]
       /\ ParseOntologySources(<<Unparsed, shape>>, registry).errors = 1
  /\ {d.kind : d \in {e \in expected : e.index <= Len(blueprints)}} \subseteq {"blueprint"}
  /\ {d.kind : d \in {e \in expected : e.index > Len(blueprints)}} \subseteq {"entity"}
  /\ \A d \in expected : d.kind = "entity" =>
       DOMAIN ObjectAt(d.body, "properties") \cap ComputedIds(expected, registry)[TextAt(d.body, "blueprint")] = {}

\* What the server keeps of a synced document, and serves in the export: every map is there.
StoredForm(doc) ==
  LET filled == IF "relations" \in DOMAIN Of(doc) THEN doc ELSE With(doc, "relations", Object(<<>>)) IN
  IF ~Holds(doc, "tiers", "object") THEN filled
  ELSE IF EmptyTiers(Of(doc)["tiers"]) THEN Without(filled, {"tiers"}) ELSE With(filled, "tiers", TiersOf(Of(doc)["tiers"]))

\* A blueprint that was just synced is in sync: comparing its source again finds the
\* document that was stored, and nothing the source is silent about was lost.
SyncedStaysInSync(text, stored) ==
  LET first == PickSourceBlueprint(text, "svc", stored) IN
  first.error = "none" =>
    /\ Canonical(PickSourceBlueprint(text, "svc", StoredForm(first.document)).document) = Canonical(StoredForm(first.document))
    /\ HasHierarchy(stored) => HasHierarchy(first.document)
=============================================================================
