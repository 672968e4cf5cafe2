----------------------------- MODULE ReportTables -----------------------------
(***************************************************************************)
(* The reports of the client: the errors of entities, blueprints, saved    *)
(* queries and conversion mappings, the errors of catalog files, the rows  *)
(* of a conversion.  Reports are shown by class, grouped, counted, cut to  *)
(* what a dialog takes or windowed to what the screen shows.               *)
(***************************************************************************)
EXTENDS Integers, Sequences, FiniteSets, SequencesExt, FiniteSetsExt, TLC

SumOver(s, f(_)) == FoldLeft(LAMBDA sum, x : sum + f(x), 0, s)
Where(s, p(_)) == SelectSeq(s, p)
Mapped(s, f(_)) == [i \in DOMAIN s |-> f(s[i])]

-----------------------------------------------------------------------------
(* Classes of findings *)

ENTITY_ERROR_CLASSES == {"stale", "ownership", "queries", "computed", "source", "mappings"}
OwnershipCodes == {"OWNERSHIP_UNRESOLVED", "OWNERSHIP_PATH_STALE"}
ComputedCodes == {"MIRROR_PATH_STALE", "AGGREGATION_PATH_STALE", "AGGREGATION_PROPERTY_STALE", "CALCULATION_COMPILE_FAILED",
                  "CALCULATION_QUARANTINED"}
classOfEntityCode(code) ==
  CASE code \in OwnershipCodes -> "ownership"
    [] code \in ComputedCodes -> "computed"
    [] code = "SOURCE_MISSING" -> "source"
    [] OTHER -> "stale"
colorOfEntityClass(class) == CASE class = "stale" -> "red" [] class = "source" -> "gray" [] OTHER -> "orange"

\* The numbers on the class chips, over the whole report.
countByEntityClass(report) ==
  [c \in ENTITY_ERROR_CLASSES |->
     SumOver(report.entities \o report.blueprints, LAMBDA row : Len(Where(row.findings, LAMBDA f : classOfEntityCode(f) = c)))
     + SumOver(IF c = "queries" THEN report.savedQueries ELSE <<>>, LAMBDA row : Len(row.diagnostics))
     + SumOver(IF c = "mappings" THEN report.mappings ELSE <<>>, LAMBDA row : Len(row.findings) + Len(row.drift))]

STATUS_CLASS ==
  [s \in {"MISSING", "KIND_REQUIRED", "WRONG_KIND", "SELF_REFERENCE"} |-> "references"] @@
  ("LABEL_NOT_ALLOWED" :> "labels") @@ ("ANNOTATION_NOT_ALLOWED" :> "annotations") @@ ("TAG_NOT_ALLOWED" :> "tags") @@
  ("TYPE_NOT_ALLOWED" :> "types") @@ ("LIFECYCLE_NOT_ALLOWED" :> "lifecycles") @@ ("STRUCTURE_INVALID" :> "structure") @@
  ("NAMESPACE_NOT_ALLOWED" :> "namespace") @@ ("SOURCE_MISSING" :> "source")
ERROR_CLASSES == {STATUS_CLASS[s] : s \in DOMAIN STATUS_CLASS}
CLASS_COLOR == [c \in ERROR_CLASSES |-> CASE c \in {"structure", "namespace"} -> "red" [] c = "source" -> "gray" [] OTHER -> "orange"]
countByClass(findings) == [c \in ERROR_CLASSES |-> Len(Where(findings, LAMBDA f : STATUS_CLASS[f.status] = c))]

-----------------------------------------------------------------------------
(* The errors of entities *)

\* With every blueprint switched off the server is asked for none, and an answer kept from before shows none.
Report(data, noBlueprints) ==
  IF noBlueprints THEN [data EXCEPT !.entities = <<>>, !.blueprints = <<>>] ELSE data

Narrowed(rows, classes) ==
  Where(Mapped(rows, LAMBDA row : [row EXCEPT !.findings = Where(row.findings, LAMBDA f : classOfEntityCode(f) \in classes)]),
        LAMBDA row : row.findings # <<>>)
savedQueryRows(report, classes) ==
  IF "queries" \in classes THEN Where(report.savedQueries, LAMBDA row : row.diagnostics # <<>>) ELSE <<>>
mappingRows(report, classes) ==
  IF "mappings" \in classes THEN Where(report.mappings, LAMBDA row : row.findings # <<>> \/ row.drift # <<>>) ELSE <<>>

shownErrors(report, classes) ==
  SumOver(Narrowed(report.entities, classes) \o Narrowed(report.blueprints, classes), LAMBDA row : Len(row.findings))
  + SumOver(savedQueryRows(report, classes), LAMBDA row : Len(row.diagnostics))
  + SumOver(mappingRows(report, classes), LAMBDA row : Len(row.findings) + Len(row.drift))

\* What a row shows: the page it links to (only the caller's own to edit), whose it is, its badges.
FindingsList(findings) == Mapped(findings, LAMBDA f : [code |-> f, color |-> colorOfEntityClass(classOfEntityCode(f))])
EntityRow(row) == [type |-> "entity", id |-> row.id, edits |-> TRUE, mine |-> FALSE, badges |-> FindingsList(row.findings)]
BlueprintRow(row, admin) == [type |-> "blueprint", id |-> row.id, edits |-> admin, mine |-> FALSE, badges |-> FindingsList(row.findings)]
SavedQueryRow(row, me) ==
  [type |-> "savedQuery", id |-> row.id, edits |-> FALSE, mine |-> row.createdBy = me,
   badges |-> Mapped(row.diagnostics, LAMBDA d : [code |-> d, color |-> "orange"])]
MappingRow(row, admin) ==
  [type |-> "mapping", id |-> row.id, edits |-> admin, mine |-> FALSE,
   badges |-> Mapped(row.findings, LAMBDA f : [code |-> f, color |-> "red"]) \o Mapped(row.drift, LAMBDA d : [code |-> d, color |-> "orange"])]

tableRows(report, classes, who) ==
  Mapped(Narrowed(report.entities, classes), EntityRow)
  \o Mapped(Narrowed(report.blueprints, classes), LAMBDA row : BlueprintRow(row, who.admin))
  \o Mapped(savedQueryRows(report, classes), LAMBDA row : SavedQueryRow(row, who.id))
  \o Mapped(mappingRows(report, classes), LAMBDA row : MappingRow(row, who.admin))

\* What the body of a report's table shows while its query is pending, has data, or failed.
Body(pending, hasData, failed, rows) ==
  CASE pending /\ ~hasData -> "loading" [] rows > 0 -> "rows" [] ~failed -> "empty" [] OTHER -> "none"
EntityErrorsTile(report, hasData, classes) == IF hasData THEN [value |-> shownErrors(report, classes), color |-> IF shownErrors(report, classes) > 0 THEN "red" ELSE "teal"]
                                              ELSE [value |-> 0, color |-> "none"]

\* Opening a broken query: the graph page finds it picked and run.
openInGraph(row) == [picked |-> row.id, running |-> row.query, page |-> "graph"]

-----------------------------------------------------------------------------
(* The errors of catalog files *)

\* One row per file, in the order the report first names the files.
groupFindingsByFile(findings) ==
  FoldLeft(LAMBDA groups, f :
             IF \E g \in ToSet(groups) : g.file = f.file
               THEN Mapped(groups, LAMBDA g : IF g.file = f.file THEN [g EXCEPT !.findings = Append(@, f)] ELSE g)
               ELSE Append(groups, [file |-> f.file, findings |-> <<f>>]),
           <<>>, findings)

ShownFindings(findings, classes, noKinds) == IF noKinds THEN <<>> ELSE Where(findings, LAMBDA f : STATUS_CLASS[f.status] \in classes)
FileRows(findings, classes, noKinds) == groupFindingsByFile(ShownFindings(findings, classes, noKinds))
\* A switched-off query is pending for ever: it shows the empty table.
FilesBody(pending, hasData, failed, noKinds, rows) == Body(pending /\ ~noKinds, hasData, failed, rows)
FileBadge(f) == [color |-> CLASS_COLOR[STATUS_CLASS[f.status]], field |-> f.field \notin {"document", "source"}, spelled |-> f.status = "STRUCTURE_INVALID"]

-----------------------------------------------------------------------------
(* The rows of a conversion *)

RowCount(rows) ==
  LET Of(p(_)) == Len(Where(rows, LAMBDA r : p(r.status))) IN
  [total |-> Len(rows), converted |-> Of(LAMBDA s : s = "CONVERTED"), withFindings |-> Of(LAMBDA s : s = "CONVERTED_WITH_FINDINGS"),
   skipped |-> Of(LAMBDA s : s = "SKIPPED"),
   invalid |-> Of(LAMBDA s : s \notin {"CONVERTED", "CONVERTED_WITH_FINDINGS", "SKIPPED"})]

\* The stored counterpart a row came onto is linked to, a row that came to nothing names nothing.
exportDisplayRow(row) == [key |-> row.index, from |-> row.identifier, to |-> row.file, existing |-> row.existingId, status |-> row.status]
importDisplayRow(row) == [key |-> row.index, from |-> row.file, to |-> row.identifier, existing |-> row.existingId, status |-> row.status]
TargetCell(row, nothing) == CASE row.to = nothing -> "none" [] row.existing # nothing -> "link" [] OTHER -> "text"

problemsFirst(rows) == Where(rows, LAMBDA r : r.status # "CONVERTED") \o Where(rows, LAMBDA r : r.status = "CONVERTED")

Listed(rows, bounded, max) ==
  IF bounded THEN SubSeq(problemsFirst(rows), 1, IF Len(rows) < max THEN Len(rows) ELSE max) ELSE rows

-----------------------------------------------------------------------------
(* The window over a long list: heights of rows, the screen from top to bottom *)

Height(heights, a, b) == SumOver(SubSeq(heights, a, b), LAMBDA h : h)
Start(heights, i) == Height(heights, 1, i - 1)
OnScreen(heights, from, to) == {i \in DOMAIN heights : Start(heights, i) < to /\ Start(heights, i + 1) > from}
Virtual(heights, from, to, overscan) ==
  IF OnScreen(heights, from, to) = {} THEN {}
    ELSE {i \in DOMAIN heights : i >= Min(OnScreen(heights, from, to)) - overscan /\ i <= Max(OnScreen(heights, from, to)) + overscan}

AllRows(heights) == [items |-> DOMAIN heights, paddingTop |-> 0, paddingBottom |-> 0, totalSize |-> 0]
useVirtualRows(heights, from, to, threshold, overscan) ==
  IF Len(heights) <= threshold THEN AllRows(heights)
    ELSE LET items == Virtual(heights, from, to, overscan) IN
         [items |-> items, totalSize |-> Height(heights, 1, Len(heights)),
          paddingTop |-> IF items = {} THEN 0 ELSE Start(heights, Min(items)),
          paddingBottom |-> IF items = {} THEN 0 ELSE Height(heights, 1, Len(heights)) - Start(heights, Max(items) + 1)]

-----------------------------------------------------------------------------
(* Conversion mappings: a name and a document as text *)

\* A text: its parse ("syntax", "value" or an object) and what it is of.
parseDocument(text) == IF text.is = "object" THEN [ok |-> TRUE, value |-> text.value] ELSE [ok |-> FALSE, reason |-> text.is]
mappingIssue(values) ==
  {i \in {"nameRequired", "nameLength"} : CASE i = "nameRequired" -> values.name = 0 [] OTHER -> values.name > 100}
  \cup {i \in {"documentRequired", "documentObject", "documentSyntax"} :
          CASE i = "documentRequired" -> values.document.is = "blank"
            [] i = "documentObject" -> values.document.is = "value"
            [] OTHER -> values.document.is = "syntax"}
EmptyDocument == [is |-> "object", value |-> <<>>]
\* The text written for a stored document reads as it.
fromConversionMappingResponse(mapping) == [name |-> mapping.name, document |-> [is |-> "object", value |-> mapping.document]]
toConversionMappingRequest(values) ==
  [name |-> values.name, document |-> IF parseDocument(values.document).ok THEN parseDocument(values.document).value ELSE <<>>]
pairCount(mapping) == Len(mapping.document)

StatusChips(mapping) ==
  (IF mapping.findings = <<>> /\ mapping.drift = <<>> THEN {"ok"} ELSE {})
  \cup (IF mapping.findings # <<>> THEN {"findings"} ELSE {}) \cup (IF mapping.drift # <<>> THEN {"drift"} ELSE {})
MappingCells(mapping, admin) == [pairs |-> pairCount(mapping), chips |-> StatusChips(mapping), actions |-> IF admin THEN {"edit", "delete"} ELSE {}]
\* The findings of a save just refused go before those of the mapping as stored.
EditorFindings(stored, rejected) == [findings |-> IF rejected # <<>> THEN rejected ELSE stored, rejected |-> rejected # <<>>]
PanelClean(findings, drift) == findings = <<>> /\ drift = <<>>

\* A value a form carries that is no active entry any more stays among the options.
OptionsFor(active, current, nothing) == IF current = nothing \/ current \in ToSet(active) THEN active ELSE Append(active, current)

\* The wording of a failed save: what the page says of its status, else of any status, else of a call that failed.
saveErrorMessage(err, keys) ==
  CASE err.status # 0 /\ err.status \in keys -> err.status
    [] err.status # 0 /\ 1 \in keys -> 1
    [] err.timeout -> 2
    [] OTHER -> 3

-----------------------------------------------------------------------------
(* Laws *)

\* The number of errors shown is that on the chips switched on, whichever they are, and each
\* is a badge of a row; only what blocks a save is red.
ChipsAddUp(report, who) ==
  \A classes \in SUBSET ENTITY_ERROR_CLASSES :
    LET rows == tableRows(report, classes, who) IN
    /\ shownErrors(report, classes) = MapThenSumSet(LAMBDA c : countByEntityClass(report)[c], classes)
    /\ shownErrors(report, classes) = SumOver(rows, LAMBDA row : Len(row.badges))
    /\ \A i, j \in DOMAIN rows : rows[i].type = rows[j].type /\ rows[i].id = rows[j].id => i = j
    /\ \A row \in ToSet(rows) : row.badges # <<>> /\ (row.type \in {"blueprint", "mapping"} /\ row.edits => who.admin)
    /\ ("stale" \notin classes /\ "mappings" \notin classes) => \A row \in ToSet(rows) : \A b \in ToSet(row.badges) : b.color # "red"

\* The table of files has each file once and loses no finding of the classes switched on.
FilesKeepTheirFindings(findings) ==
  \A classes \in SUBSET ({STATUS_CLASS[f.status] : f \in ToSet(findings)} \cup {"source"}) :
    LET rows == FileRows(findings, classes, FALSE) IN
    /\ \A i, j \in DOMAIN rows : rows[i].file = rows[j].file => i = j
    /\ \A i \in DOMAIN rows : rows[i].findings = Where(ShownFindings(findings, classes, FALSE), LAMBDA f : f.file = rows[i].file)
    /\ SumOver(rows, LAMBDA row : Len(row.findings)) = MapThenSumSet(LAMBDA c : countByClass(findings)[c], classes)

\* A dialog that cannot list every row leaves out rows that need attention only when it lists no other.
CutsOnlyCleanRows(rows, max) ==
  LET listed == ToSet(Listed(rows, TRUE, max)) IN
  /\ Cardinality(listed) = Min({max, Len(rows)})
  /\ (\E r \in ToSet(rows) \ listed : r.status # "CONVERTED") => \A r \in listed : r.status # "CONVERTED"
  /\ LET c == RowCount(rows) IN c.total = c.converted + c.withFindings + c.skipped + c.invalid

\* A windowed list is as tall as the whole of it, and every row on the screen is mounted.
WindowsFillTheList(heights, threshold, overscan) ==
  \A from \in 0 .. Height(heights, 1, Len(heights)), size \in 1 .. 3 :
    LET w == useVirtualRows(heights, from, from + size, threshold, overscan) IN
    /\ OnScreen(heights, from, from + size) \subseteq w.items
    /\ (w.totalSize # 0 /\ w.items # {}) =>
         w.totalSize = w.paddingTop + w.paddingBottom + MapThenSumSet(LAMBDA i : heights[i], w.items)

\* A mapping form that may be sent sends the document its text reads as, never an empty one for it.
MappingsAreSentAsRead(values) ==
  mappingIssue(values) = {} =>
    /\ parseDocument(values.document).ok
    /\ toConversionMappingRequest(values).document = values.document.value
    /\ fromConversionMappingResponse(toConversionMappingRequest(values)) = values
===============================================================================
