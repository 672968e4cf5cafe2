----------------------------- MODULE ListContents -----------------------------
(***************************************************************************)
(* What the list pages show.  Their filters: what is kept of them in the   *)
(* browser, sent with a request, held by a lens and offered in a field.    *)
(* Their rows: preview columns, the operations offered, the state of the   *)
(* source, and the loop that reads a list whole.                           *)
(* "name" and "owner" stand for the seven filters of one text.             *)
(***************************************************************************)
EXTENDS Integers, Sequences, FiniteSets, SequencesExt, Functions

Undefined == "none"
Scalars == {"name", "owner", "label"}

\* A kept value that fails its validator is as good as none kept.
useStoredState(kept, valid, initial) == IF kept \in valid THEN kept ELSE initial

-----------------------------------------------------------------------------
(* Catalog filters and lenses *)

\* State of the controls: texts, the visible kinds, values of the label.
Controls(allKinds, Texts, Values) ==
  [texts : [Scalars -> Texts \cup {""}], kinds : SUBSET allKinds, labelValues : SUBSET Values]

\* All kinds and no kinds both send no kind; values never go without their label.
filterValues(c, allKinds) ==
  [texts |-> c.texts,
   kind |-> IF c.kinds \in {{}, allKinds} THEN {} ELSE c.kinds,
   labelValue |-> IF c.texts["label"] # "" THEN c.labelValues ELSE {}]
noKinds(c) == c.kinds = {}

setLabel(c, next) ==
  [c EXCEPT !.texts["label"] = next, !.labelValues = IF next # c.texts["label"] THEN {} ELSE @]

\* A lens applied: absent kinds are all kinds.
applyValues(v, allKinds) ==
  [texts |-> v.texts, kinds |-> IF v.kind # {} THEN v.kind ELSE allKinds,
   labelValues |-> IF v.texts["label"] # "" THEN v.labelValue ELSE {}]

canonicalized(f, allKinds) ==
  LET kinds == f.kind \cap allKinds IN
  [texts |-> f.texts,
   kind |-> IF kinds # allKinds THEN kinds ELSE {},
   labelValue |-> IF f.texts["label"] # "" THEN f.labelValue \ {""} ELSE {}]

toLensFilters(values, allKinds) == canonicalized(values, allKinds)
fromLensFilters(filters, allKinds) == canonicalized(filters, allKinds)
sameLensFilters(a, b, allKinds) == canonicalized(a, allKinds) = canonicalized(b, allKinds)

\* The badge counts every filter of the panel, never the pills.
activeFilterCount(c) ==
  Cardinality({s \in Scalars : c.texts[s] # ""}) + (IF c.texts["label"] # "" /\ c.labelValues # {} THEN 1 ELSE 0)

\* A kept value its registry no longer offers goes on being offered.
withStale(options, current) == options \cup ({current} \ {""})
\* Types of the kinds in view; the value of an option carries its kind, which is cut off.
typeOptions(types, kinds, current) ==
  LET offered == {<<k, x>> : k \in IF kinds = {} THEN DOMAIN types ELSE kinds, x \in UNION {types[k] : k \in DOMAIN types}}
      groups == {o \in offered : o[2] \in types[o[1]]} IN
  groups \cup (IF current = "" \/ \E o \in groups : o[2] = current THEN {} ELSE {<<Undefined, current>>})
selectedType(options, current) == {o \in options : o[2] = current}

-----------------------------------------------------------------------------
(* Tiers, and the filters of the entity pages *)

TIERS == 1 .. 4
Untiered == 0
withinFocus(tier, focus) == focus = Untiered \/ (tier # Untiered /\ tier <= focus)
blueprintTierLookup(registry, id) == IF id \in DOMAIN registry THEN registry[id] ELSE Untiered

\* Hidden ids of blueprints since deleted linger and hide nothing.
visibleBlueprints(active, hidden, focus, registry) ==
  {id \in active \ hidden : withinFocus(blueprintTierLookup(registry, id), focus)}

EntityFilterState(active, loading, hidden, focus, registry) ==
  LET visible == visibleBlueprints(active, hidden, focus, registry) IN
  [blueprints |-> IF visible # active THEN <<"only", visible>> ELSE <<"all">>,
   noBlueprints |-> active # {} /\ visible = {},
   ready |-> (hidden = {} /\ focus = Untiered) \/ ~loading]

\* The pills show what is not hidden; the focus only dims them.
BlueprintPills(active, hidden) == active \ hidden
setHidden(active, chosen) == active \ chosen

\* The highest tier up to which every tiered field is filled.
fillTier(tiers, filled) ==
  LET unfilled == {tiers[f] : f \in DOMAIN tiers \ filled} IN
  IF DOMAIN tiers = {} THEN -1
  ELSE IF unfilled = {} THEN 4
  ELSE (CHOOSE t \in unfilled : \A u \in unfilled : t <= u) - 1

\* A field is filled by any value but null, a blank text, an empty list or object; a
\* relation by a text that is not blank, or a list that holds one.
isFilledProperty(value) == value \notin {"absent", "null", "blank", "emptyList", "emptyObject"}
isFilledRelation(value) == value \in {"text", "listOfText"}

-----------------------------------------------------------------------------
(* Preview columns.  A property is [id, type, tier]; computed ones have no tier. *)

PREVIEWED == {"string", "number", "boolean"}
MAX_COLUMN_PROPERTIES == 3

schemaPreviewColumns(b) == SelectSeq(b.properties, LAMBDA p : p.type \in PREVIEWED)
computedDefinitions(b) == b.mirrors \o b.calculations \o b.aggregations
previewComputedColumns(b) ==
  SelectSeq(computedDefinitions(b), LAMBDA c : c.kind # "calculation" \/ c.type \in PREVIEWED)

byTier(a, b) == b.tier = Untiered \/ (a.tier # Untiered /\ a.tier <= b.tier)

\* Stable: of equal tier, the order of the schema.
Sorted(columns) ==
  LET before(i, j) == IF byTier(columns[i], columns[j]) /\ byTier(columns[j], columns[i]) THEN i < j
                      ELSE byTier(columns[i], columns[j])
      place(i) == Cardinality({j \in DOMAIN columns : j # i /\ before(j, i)}) + 1 IN
  [n \in DOMAIN columns |-> columns[CHOOSE i \in DOMAIN columns : place(i) = n]]

previewColumnsOf(b, focus, max) ==
  LET schema == SelectSeq(schemaPreviewColumns(b), LAMBDA p : withinFocus(p.tier, focus))
      computed == IF focus = Untiered THEN previewComputedColumns(b) ELSE <<>>
      all == Sorted(schema \o computed) IN
  SubSeq(all, 1, IF Len(all) < max THEN Len(all) ELSE max)

previewColumnWidth(c) ==
  CASE c.type = "boolean" -> 110
    [] c.type = "number" -> 120
    [] OTHER -> IF c.kind = "schema" /\ c.enum THEN 130 ELSE 170

tableMinWidth(columns) ==
  260 + 170 + 140 + 140 + 48 + FoldLeft(LAMBDA sum, c : sum + previewColumnWidth(c), 0, columns)

\* A cell: a flag for a boolean, a dash for what is not set, else its text.
schemaPreviewCell(value, type) ==
  CASE value \in {"absent", "null"} -> "dash"
    [] type = "boolean" -> "flag"
    [] OTHER -> "text"

-----------------------------------------------------------------------------
(* Selects *)

\* The blueprint picked stays an option outside the focus; so does a team of the address.
blueprintOptions(registry, picked, focus) ==
  {b \in DOMAIN registry : b = picked \/ withinFocus(registry[b], focus)}
teamSelectData(pool, team) == pool \cup ({team} \ {Undefined})
\* A parameter of the address reads as none when it is blank.
useUrlParam(raw) == IF raw \in {"", " "} THEN Undefined ELSE raw
NewEntityLink(blueprint) == IF blueprint = Undefined THEN Undefined ELSE <<"new", blueprint>>

-----------------------------------------------------------------------------
(* Operations of a row *)

EntityActions(row, registryLoaded) ==
  {"edit", "delete"} \cup (IF registryLoaded THEN {"export"} ELSE {}) \cup (IF row.source THEN {"sync"} ELSE {})

CatalogFileActions(row, view) ==
  {"quickView", "edit", "export", "overwrite", "delete"}
    \cup (IF view = "hierarchy" THEN {"pin"} ELSE IF row.source THEN {"sync"} ELSE {})

UserActions(row, self) ==
  {"edit", "features"}
    \cup (IF self THEN {} ELSE {"reset", "delete"} \cup (IF row.sso THEN {"unlink"} ELSE {}))

BlueprintActions(row, admin) ==
  IF ~admin THEN {}
  ELSE {"edit"} \cup (IF row.source THEN {"sync"} ELSE {}) \cup (IF row.system THEN {} ELSE {"delete"})

\* Rows of the blueprints page: within the focus, when one is set.
BlueprintRows(registry, focus) == {b \in DOMAIN registry : withinFocus(registry[b], focus)}

\* What the server refuses from the row alone.
Refuses(action, row, self, admin) ==
  \/ action = "delete" /\ (self \/ row.system)
  \/ action = "unlink" /\ (self \/ ~row.sso)
  \/ action = "reset" /\ self
  \/ action = "sync" /\ ~row.source

SyncStateText(row) ==
  CASE ~row.source -> "noSource"
    [] row.source /\ row.lastSyncedAt = 0 -> "neverSynced"
    [] OTHER -> IF row.updatedAt > row.lastSyncedAt THEN "localChanges" ELSE "synced"

\* The row as the server keeps it: a sync stamps both times, a new source forgets the sync.
Written(row, what, now) ==
  CASE what = "sync" -> [row EXCEPT !.updatedAt = now, !.lastSyncedAt = now]
    [] what = "save" -> [row EXCEPT !.updatedAt = now]
    [] what = "newSource" -> [row EXCEPT !.updatedAt = now, !.lastSyncedAt = 0, !.source = TRUE]

-----------------------------------------------------------------------------
(* Reading a list whole, a page at a time *)

Enough(items, page, total, size, max) == Len(items) >= total \/ Len(page) = 0 \/ Len(items) >= max

\* The items read after n pages; the total is the server's, pages are clamped by it to size.
listAll(rows, size, max) ==
  LET page(n) == SubSeq(rows, (n - 1) * size + 1, IF n * size < Len(rows) THEN n * size ELSE Len(rows))
      read[n \in 0 .. Len(rows) + 1] == IF n = 0 THEN <<>> ELSE read[n - 1] \o page(n)
      stops == {n \in 1 .. Len(rows) + 1 : Enough(read[n], page(n), Len(rows), size, max)}
      last == CHOOSE n \in stops : \A k \in stops : n <= k
      items == read[last] IN
  [items |-> SubSeq(items, 1, IF Len(items) < max THEN Len(items) ELSE max), requests |-> last]

-----------------------------------------------------------------------------
(* Laws *)

\* A lens saved from a page and applied again restores its filters, and the picker says
\* it is unmodified; the page of another lens it calls modified.  A page without a badge
\* and with every kind in view is not filtered at all.
LensRestores(c, other, allKinds) ==
  LET lens(x) == toLensFilters(filterValues(x, allKinds), allKinds)
      applied == applyValues(fromLensFilters(lens(c), allKinds), allKinds) IN
  ~noKinds(c) =>
    /\ applied.kinds = c.kinds /\ filterValues(applied, allKinds) = filterValues(c, allKinds)
    /\ sameLensFilters(filterValues(applied, allKinds), lens(c), allKinds)
    /\ sameLensFilters(filterValues(other, allKinds), lens(c), allKinds) /\ ~noKinds(other)
         => filterValues(other, allKinds) = filterValues(c, allKinds)
    /\ activeFilterCount(c) = 0 /\ c.kinds = allKinds => filterValues(c, allKinds) = filterValues(applyValues([texts |-> [x \in Scalars |-> ""], kind |-> {}, labelValue |-> {}], allKinds), allKinds)
    /\ filterValues(setLabel(applied, "x"), allKinds).labelValue \subseteq applied.labelValues

\* What an entity page asks for is what its pills and its focus let through, over any
\* registry, read or not; a page that would show nothing does not ask.
AsksForWhatShows(active, loading, kept, keptFocus, registry) ==
  LET hidden == setHidden(active, BlueprintPills(active, kept)) \cup (kept \ active)
      focus == useStoredState(keptFocus, TIERS, Untiered)
      state == EntityFilterState(active, loading, hidden, focus, registry)
      asked == IF state.blueprints[1] = "all" THEN DOMAIN registry ELSE state.blueprints[2] IN
  state.ready /\ ~state.noBlueprints =>
    /\ asked = {id \in DOMAIN registry : id \notin hidden /\ withinFocus(registry[id], focus)}
    /\ asked = {} => DOMAIN registry = {}

\* The fill tier is the greatest tier every tiered field of which, up to it, is filled.
FillTierIsGreatest(tiers, values) ==
  LET filled == {f \in DOMAIN tiers : IF f = "relation" THEN isFilledRelation(values[f]) ELSE isFilledProperty(values[f])}
      T == fillTier(tiers, filled)
      full(t) == \A f \in DOMAIN tiers : tiers[f] <= t => f \in filled IN
  DOMAIN tiers # {} => full(T) /\ \A t \in T + 1 .. 4 : ~full(t)

\* A filter kept in the browser stays selected, whatever its registry has become.
KeptStaysOffered(types, kinds, current) ==
  current # "" => selectedType(typeOptions(types, kinds, current), current) # {}

\* At most three columns; a focus shows none outside it; and a column that was left out has
\* no better tier than one that is shown.
ColumnsAreTheUrgentOnes(b, focus) ==
  LET shown == previewColumnsOf(b, focus, MAX_COLUMN_PROPERTIES)
      ids == {shown[n].id : n \in DOMAIN shown} IN
  /\ Len(shown) <= MAX_COLUMN_PROPERTIES
  /\ \A n \in DOMAIN shown : withinFocus(shown[n].tier, focus)
  /\ \A p \in Range(schemaPreviewColumns(b)) :
       p.id \notin ids /\ p.tier # Untiered /\ withinFocus(p.tier, focus) =>
         Len(shown) = MAX_COLUMN_PROPERTIES /\ \A n \in DOMAIN shown : shown[n].tier \in 1 .. p.tier
  /\ tableMinWidth(shown) <= 758 + 3 * 170

\* No row offers what the server refuses from the row itself.
OffersWhatIsServed(row, self, admin) ==
  /\ \A a \in EntityActions(row, TRUE) : ~Refuses(a, [row EXCEPT !.system = FALSE], FALSE, admin)
  /\ \A a \in UserActions(row, self) : ~Refuses(a, [row EXCEPT !.system = FALSE, !.source = TRUE], self, admin)
  /\ \A a \in BlueprintActions(row, admin) : ~Refuses(a, row, FALSE, admin)
  /\ \A v \in {"list", "hierarchy"} :
       \A a \in CatalogFileActions(row, v) : ~Refuses(a, [row EXCEPT !.system = FALSE], FALSE, admin)

\* The marks of a row follow its writes: only what moved after its sync is marked changed.
MarksLocalChanges(row, writes) ==
  LET after[n \in 0 .. Len(writes)] == IF n = 0 THEN row ELSE Written(after[n - 1], writes[n], 10 + n)
      end == after[Len(writes)]
      syncs == {n \in DOMAIN writes : writes[n] = "sync"}
      sources == {n \in DOMAIN writes : writes[n] = "newSource"} IN
  end.source /\ syncs # {} =>
    SyncStateText(end) = IF \E s \in sources : \A n \in syncs : n < s THEN "neverSynced"
                         ELSE IF Len(writes) \in syncs THEN "synced" ELSE "localChanges"

\* The whole list, up to the most that is ever wanted, without a request too many.
ReadsItAll(rows, size, max) ==
  LET all == listAll(rows, size, max) IN
  /\ all.items = SubSeq(rows, 1, IF Len(rows) < max THEN Len(rows) ELSE max)
  /\ (all.requests - 1) * size < max
  /\ all.requests > 1 => (all.requests - 1) * size < Len(rows)
=============================================================================
