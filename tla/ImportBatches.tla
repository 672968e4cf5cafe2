---------------------------- MODULE ImportBatches ----------------------------
(***************************************************************************)
(* The batch pages of the web client: Import files, Import ontology (JSON, *)
(* or a Backstage catalog that is converted first) and Export to           *)
(* Backstage, with the dialogs that preview a converted batch and then     *)
(* import it.  Batches go out in chunks; other clients write meanwhile;    *)
(* any answer may be lost; text and switches move under a running batch.   *)
(* A document is its identity, a number; what a document says is left to   *)
(* SourceDocuments.                                                        *)
(***************************************************************************)
EXTENDS Integers, Sequences, FiniteSets, SequencesExt

CONSTANTS Flows,        \* of {"files", "ontology", "backstage", "export"}
          Keys,         \* 1 .. n: the documents there are
          Definitions,  \* those that are blueprints, in the ontology flow
          Documents,    \* the sets of them a text, a file or a selection may hold
          CHUNK,        \* IMPORT_CHUNK_SIZE, and the server's cap on one request
          MaxVersions,  \* for each document, the bound on its writes
          MaxRuns,      \* bound on the batches a page without a dialog runs at once
          None

VARIABLES flow,         \* the page
          versions,     \* the server: writes of each document so far, 0 when absent
          input,        \* text, added files, the reference they came from, the switches
          running,      \* per slot, the batch under way
          shown,        \* the report on the page
          dialog        \* the confirm dialog of a converted batch

batchVars == <<flow, versions, input, running, shown, dialog>>

Slots == {"check", "import", "preview", "confirm"}
TypedTexts == Documents \cup {{}, None}     \* None: text that does not parse
Stores(slot) == slot \in {"import", "confirm"}
Converted == flow \in {"backstage", "export"}

BatchInit ==
  /\ flow \in Flows
  /\ versions = [k \in Keys |-> 0]
  /\ input = [text |-> {}, files |-> {}, from |-> None, fetched |-> None,
              replace |-> flow \in {"backstage", "export"}, admin |-> TRUE]
  /\ running = [s \in Slots |-> None]
  /\ shown = None
  /\ dialog = None

Busy(slot) == running[slot] # None
MayRun(mode) == ~Busy(mode) /\ Cardinality({s \in Slots : Busy(s)}) < MaxRuns
InputHeld == flow = "backstage" /\ Busy("check")

-----------------------------------------------------------------------------
(* The input of the page *)

\* Every change of the input drops the report it no longer belongs to.
Retyped(in) == input' = in /\ shown' = None

\* Mutant: typing keeps the reference of the text it replaces.
TypeKeepingSource ==
  /\ dialog = None /\ flow # "export" /\ ~InputHeld
  /\ \E text \in TypedTexts : Retyped([input EXCEPT !.text = text])
  /\ UNCHANGED <<flow, versions, running, dialog>>

Type ==
  /\ dialog = None /\ flow # "export" /\ ~InputHeld
  /\ \E text \in TypedTexts : Retyped([input EXCEPT !.text = text, !.from = None, !.fetched = None])
  /\ UNCHANGED <<flow, versions, running, dialog>>

\* A picked file is read before it becomes the text, or one more source: it may
\* arrive when the field is held already (behind a dialog it changes nothing yet).
FileRead ==
  /\ flow # "export" /\ dialog = None
  /\ \E text \in TypedTexts \ {None, {}} :
       Retyped([input EXCEPT !.from = None, !.fetched = None,
                  !.text = IF flow = "ontology" THEN @ ELSE text,
                  !.files = IF flow = "ontology" THEN @ \cup text ELSE @])
  /\ UNCHANGED <<flow, versions, running, dialog>>

RemoveFile ==
  /\ flow = "ontology"
  /\ \E key \in input.files : Retyped([input EXCEPT !.files = @ \ {key}, !.from = None, !.fetched = None])
  /\ UNCHANGED <<flow, versions, running, dialog>>

\* The fetched text replaces everything, whatever was typed since the click.
FetchAnswered ==
  /\ flow # "export" /\ dialog = None
  /\ \E text \in TypedTexts \ {{}} :
       Retyped(IF flow = "backstage" THEN [input EXCEPT !.text = text]
               ELSE [input EXCEPT !.text = text, !.files = {}, !.fetched = text, !.from = "url"])
  /\ UNCHANGED <<flow, versions, running, dialog>>

ToggleReplace ==
  /\ flow \in {"files", "ontology"}
  /\ flow = "files" => ~Busy("check") /\ ~Busy("import")
  /\ Retyped([input EXCEPT !.replace = ~@])
  /\ UNCHANGED <<flow, versions, running, dialog>>

-----------------------------------------------------------------------------
(* A batch *)

\* The documents in the order of the text, each with the version it was converted over.
\* An ontology batch sends its blueprints first.
Ordered(keys, guarded) ==
  LET order == IF flow = "ontology" THEN SetToSeq(keys \cap Definitions) \o SetToSeq(keys \ Definitions) ELSE SetToSeq(keys) IN
  [i \in 1 .. Len(order) |-> [key |-> order[i], expected |-> IF guarded THEN versions[order[i]] ELSE None]]

Batch(docs, source, replace) ==
  [docs |-> docs, source |-> source, fetched |-> input.fetched, replace |-> replace,
   next |-> 1, rows |-> {}, answer |-> None]

\* Blueprints and entities go in chunks of their own.
ChunkEnd(r) ==
  LET last == IF flow = "files" THEN Len(r.docs) ELSE (IF r.next + CHUNK - 1 < Len(r.docs) THEN r.next + CHUNK - 1 ELSE Len(r.docs))
      alike(i) == flow = "ontology" => (r.docs[i].key \in Definitions <=> r.docs[r.next].key \in Definitions) IN
  CHOOSE i \in r.next .. last : alike(i) /\ (i = last \/ ~alike(i + 1))

Chunk(r) == SubSeq(r.docs, r.next, ChunkEnd(r))

\* The expectations of a chunk, at their positions in it.
ChunkExpectations(r) == [i \in 1 .. Len(Chunk(r)) |-> r.docs[r.next + i - 1].expected]

\* The server, per document: an expectation that no longer holds stores nothing.
Outcomes(r, i) ==
  LET v == versions[Chunk(r)[i].key] IN
  {"INVALID"} \cup
  (IF ChunkExpectations(r)[i] # None /\ ChunkExpectations(r)[i] # v THEN {"STALE"}
   ELSE IF v = 0 THEN {"CREATED"} ELSE IF r.replace THEN {"UPDATED", "EXISTS"} ELSE {"EXISTS"})

Stored(row) == row.status \in {"CREATED", "UPDATED"}

\* The rows name their documents by the position in the chunk.  Without expectations
\* a version only tells absent from present.
ChunkHandled(slot) ==
  /\ Busy(slot) /\ running[slot].answer = None /\ running[slot].docs # <<>>
  /\ LET r == running[slot]
         n == Len(Chunk(r)) IN
     \E status \in [1 .. n -> {"INVALID", "STALE", "CREATED", "UPDATED", "EXISTS"}] :
       /\ \A i \in 1 .. n : status[i] \in Outcomes(r, i)
       /\ running' = [running EXCEPT ![slot].answer = {[index |-> i, key |-> Chunk(r)[i].key, status |-> status[i]] : i \in 1 .. n}]
       /\ versions' = IF Stores(slot)
            THEN [k \in Keys |-> IF \E i \in 1 .. n : Chunk(r)[i].key = k /\ status[i] \in {"CREATED", "UPDATED"}
                                 THEN (IF Converted THEN versions[k] + 1 ELSE 1) ELSE versions[k]]
            ELSE versions
       /\ \A k \in Keys : versions'[k] <= MaxVersions[k]
  /\ UNCHANGED <<flow, input, shown, dialog>>

\* Rows are brought to the document's position in the whole batch.
Rebased(r) == {[row EXCEPT !.index = @ + r.next - 1] : row \in r.answer}
ForbiddenRows(r) == {[index |-> i, key |-> r.docs[i].key, status |-> "FORBIDDEN"] : i \in r.next .. ChunkEnd(r)}

\* What the page shows once a slot has answered or given up.
Mode(slot) == IF Stores(slot) THEN "import" ELSE "check"
PageReport(slot, r, complete) == [mode |-> Mode(slot), rows |-> r.rows, complete |-> complete, docs |-> r.docs]

\* The dialog imports what it previewed; a failure keeps the rows of the chunks before.
DialogReport(slot, r, complete) ==
  IF slot = "preview"
    THEN [dialog EXCEPT !.check = IF complete THEN "ok" ELSE "failed", !.batch = r.docs,
                        !.rows = IF dialog.run # "idle" \/ ~complete THEN dialog.rows ELSE r.rows]
    ELSE [dialog EXCEPT !.run = IF complete THEN "done" ELSE "failed", !.rows = r.rows]

Reports(slot, r, complete) ==
  IF slot \in {"preview", "confirm"}
    THEN dialog' = (IF dialog = None THEN None ELSE DialogReport(slot, r, complete)) /\ UNCHANGED shown
    ELSE shown' = PageReport(slot, r, complete) /\ UNCHANGED dialog

Continues(slot, rows) ==
  LET r == [running[slot] EXCEPT !.rows = @ \cup rows, !.answer = None, !.next = ChunkEnd(running[slot]) + 1] IN
  IF r.next > Len(r.docs)
    THEN running' = [running EXCEPT ![slot] = None] /\ Reports(slot, r, TRUE)
    ELSE /\ running' = [running EXCEPT ![slot] = r]
         /\ IF flow = "ontology" THEN Reports(slot, r, FALSE) ELSE UNCHANGED <<shown, dialog>>

ChunkAnswered(slot) ==
  /\ Busy(slot) /\ running[slot].answer # None
  /\ Continues(slot, Rebased(running[slot]))
  /\ UNCHANGED <<flow, versions, input>>

\* Blueprints of a caller who is no administrator are never sent; a 403 makes the same rows.
ChunkForbidden(slot) ==
  /\ flow = "ontology" /\ Busy(slot) /\ running[slot].answer = None
  /\ running[slot].docs[running[slot].next].key \in Definitions /\ ~input.admin
  /\ Continues(slot, ForbiddenRows(running[slot]))
  /\ UNCHANGED <<flow, versions, input>>

\* A failed chunk ends the batch: handled or not, its rows are not known.
ChunkFails(slot) ==
  /\ Busy(slot)
  /\ running' = [running EXCEPT ![slot] = None]
  /\ IF slot \in {"preview", "confirm"} THEN Reports(slot, running[slot], FALSE)
     ELSE UNCHANGED <<shown, dialog>>
  /\ UNCHANGED <<flow, versions, input>>

\* The role of the session changes: the page learns of it with a 403.
RoleChanges ==
  /\ flow = "ontology" /\ input.admin
  /\ input' = [input EXCEPT !.admin = FALSE]
  /\ UNCHANGED <<flow, versions, running, shown, dialog>>

-----------------------------------------------------------------------------
(* The pages *)

\* Check and Import parse the text as it is now, and carry its reference.
RunFiles(mode) ==
  /\ flow = "files" /\ MayRun(mode) /\ input.text \notin {None, {}}
  /\ IF Cardinality(input.text) > CHUNK THEN UNCHANGED running   \* refused as too many
     ELSE running' = [running EXCEPT ![mode] = Batch(Ordered(input.text, FALSE), input.from, input.replace)]
  /\ UNCHANGED <<flow, versions, input, shown, dialog>>

RunOntology(mode) ==
  /\ flow = "ontology" /\ MayRun(mode) /\ input.text # None /\ input.text \cup input.files # {}
  /\ running' = [running EXCEPT ![mode] = Batch(Ordered(input.text \cup input.files, FALSE), input.from, input.replace)]
  /\ UNCHANGED <<flow, versions, input, shown, dialog>>

\* The Backstage page converts afresh, then dry-runs what it converted.
RunConverted ==
  /\ flow = "backstage" /\ ~Busy("check") /\ dialog = None /\ input.text \notin {None, {}}
  /\ running' = [running EXCEPT !["check"] = Batch(Ordered(input.text, TRUE), None, TRUE)]
  /\ shown' = None
  /\ UNCHANGED <<flow, versions, input, dialog>>

\* The export page converts the entities its filters select; a result is the
\* selection's it was run with.
ConvertSelection ==
  /\ flow = "export" /\ dialog = None
  /\ \E keys \in Documents : shown' = [mode |-> "check", rows |-> {}, complete |-> TRUE, docs |-> Ordered(keys, FALSE)]
  /\ UNCHANGED <<flow, versions, input, running, dialog>>

ChangeSelection ==
  /\ flow = "export" /\ dialog = None /\ shown # None
  /\ shown' = None
  /\ UNCHANGED <<flow, versions, input, running, dialog>>

\* The dialog converts on opening, with the selection of the shown result or the text.
Selected == IF flow = "export" THEN {shown.docs[i].key : i \in 1 .. Len(shown.docs)} ELSE input.text
OpenConfirm ==
  /\ Converted /\ dialog = None /\ ~Busy("check")
  /\ IF flow = "export" THEN shown # None ELSE input.text \notin {None, {}}
  /\ dialog' = [check |-> "pending", run |-> "idle", batch |-> <<>>, rows |-> {}, keys |-> Selected]
  /\ running' = [running EXCEPT !["preview"] = Batch(Ordered(Selected, TRUE), None, TRUE)]
  /\ shown' = IF flow = "backstage" THEN None ELSE shown
  /\ UNCHANGED <<flow, versions, input>>

\* The network comes back: the dialog's query converts and checks once more.
Reconverts ==
  /\ dialog # None /\ dialog.check = "ok" /\ dialog.run = "idle" /\ ~Busy("preview")
  /\ running' = [running EXCEPT !["preview"] = Batch(Ordered(dialog.keys, TRUE), None, TRUE)]
  /\ UNCHANGED <<flow, versions, input, shown, dialog>>

\* Confirm imports the previewed batch: nothing is converted twice.
ConfirmImport ==
  /\ dialog # None /\ dialog.check = "ok" /\ dialog.run = "idle" /\ dialog.batch # <<>>
  /\ dialog' = [dialog EXCEPT !.run = "pending"]
  /\ running' = [running EXCEPT !["confirm"] = Batch(dialog.batch, None, TRUE)]
  /\ UNCHANGED <<flow, versions, input, shown>>

\* Held while the import is under way.
CloseConfirm ==
  /\ dialog # None /\ dialog.run # "pending"
  /\ dialog' = None
  /\ running' = [running EXCEPT !["preview"] = None]
  /\ UNCHANGED <<flow, versions, input, shown>>

\* Where it matters: unguarded batches do not look at the version.
OthersWrite ==
  /\ Converted
  /\ \E k \in Keys : versions[k] < MaxVersions[k] /\ versions' = [versions EXCEPT ![k] = @ + 1]
  /\ UNCHANGED <<flow, input, running, shown, dialog>>

BatchNext ==
  \/ Type \/ FileRead \/ RemoveFile \/ FetchAnswered \/ ToggleReplace \/ RoleChanges
  \/ \E mode \in {"check", "import"} : RunFiles(mode) \/ RunOntology(mode)
  \/ \E slot \in Slots : ChunkHandled(slot) \/ ChunkAnswered(slot) \/ ChunkForbidden(slot) \/ ChunkFails(slot)
  \/ RunConverted \/ ConvertSelection \/ ChangeSelection
  \/ OpenConfirm \/ Reconverts \/ ConfirmImport \/ CloseConfirm
  \/ OthersWrite

BatchSpec == BatchInit /\ [][BatchNext]_batchVars

-----------------------------------------------------------------------------
(* What the pages show *)

Counted(rows, statuses) == Cardinality({row \in rows : row.status \in statuses})

\* The report under a page: its summary and a row per document.
Summary(report) ==
  [stored |-> Counted(report.rows, {"CREATED", "UPDATED"}), unchanged |-> Counted(report.rows, {"EXISTS"}),
   total |-> Cardinality(report.rows), predicted |-> report.mode = "check"]
Linked(report, row) == report.mode = "import" /\ row.status \in {"CREATED", "UPDATED", "EXISTS"}
ProblemsFirst(rows) == {row \in rows : row.status \notin {"CREATED", "UPDATED", "EXISTS"}}

\* Elements of the pages beside the input.
InputView ==
  (IF input.from # None THEN {"sourceHint"} ELSE {}) \cup (IF input.text = None THEN {"parseErrors"} ELSE {})
FilesPage == InputView \cup (IF shown # None THEN {"results"} ELSE {})
               \cup (IF input.text \notin {None, {}} THEN {"check", "import"} ELSE {})
OntologyPage ==
  InputView \cup (IF input.files # {} THEN {"files"} ELSE {}) \cup (IF shown # None THEN {"results"} ELSE {})
    \cup (IF ~input.admin /\ input.text # None /\ (input.text \cup input.files) \cap Definitions # {} THEN {"notAdmin"} ELSE {})
    \cup (IF \E mode \in {"check", "import"} : Busy(mode) THEN {"progress"} ELSE {})
    \cup (IF input.text # None /\ input.text \cup input.files # {} THEN {"check", "import"} ELSE {})
BackstagePage ==
  InputView \cup (IF shown # None THEN {"results"} ELSE {}) \cup (IF Busy("check") THEN {"progress"} ELSE {})
    \cup (IF input.text \notin {None, {}} /\ ~Busy("check") THEN {"convert", "check", "import"} ELSE {})
ExportPage == {"convert"} \cup (IF shown # None THEN {"rows", "download", "create"} ELSE {})

\* The dialog: predictions until the import ran, then only what it reported.
ConfirmView ==
  IF dialog = None THEN {}
  ELSE (IF dialog.check = "pending" \/ dialog.run = "pending" THEN {"loading"} ELSE {})
    \cup (IF dialog.check = "failed" THEN {"checkFailed"} ELSE {})
    \cup (IF dialog.run # "pending" /\ dialog.rows # {} /\ (dialog.run # "idle" \/ dialog.check = "ok") THEN {IF dialog.run = "idle" THEN "predictions" ELSE "rows"} ELSE {})
    \cup (IF dialog.run = "failed" THEN {"stoppedAfter"} ELSE {})
    \cup (IF dialog.run \in {"done", "failed"} THEN {"close"} ELSE {"cancel", "confirm"})

-----------------------------------------------------------------------------
(* Properties *)

\* The reference a batch carries is the one its whole text was fetched from, and every
\* row of a report stands at the position of its own document (runBatch, runImportBatch,
\* runCatalogFileBatches).
SourceBelongs(r) == r.source # None => {r.docs[i].key : i \in 1 .. Len(r.docs)} = r.fetched
RowsLineUp(r) == \A row \in r.rows : r.docs[row.index].key = row.key
ReportsLineUp ==
  /\ \A s \in Slots : Busy(s) => SourceBelongs(running[s]) /\ RowsLineUp(running[s])
  /\ shown # None => RowsLineUp(shown)

\* Confirm stores a document only over the version it was converted over for the
\* preview on the screen when it was pressed.
StoresAsPreviewed ==
  Busy("confirm") /\ running["confirm"].answer = None /\ Busy("confirm")' /\ running'["confirm"].answer # None =>
    \A k \in Keys : versions'[k] # versions[k] =>
      \E i \in 1 .. Len(dialog.batch) : dialog.batch[i] = [key |-> k, expected |-> versions[k]]
=============================================================================
