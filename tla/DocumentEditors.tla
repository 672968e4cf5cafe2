--------------------------- MODULE DocumentEditors ---------------------------
(***************************************************************************)
(* The edit pages of the web client: one stored document, the detail query *)
(* of its page, the form seeded from an answer of that query, and the      *)
(* operations beside the form (overwrite, sync) that replace the document  *)
(* under it.  Other clients write the same document meanwhile, and any     *)
(* answer may be lost.  A document is told by the number of the write that *)
(* stored it; of its content only the source reference matters here.       *)
(***************************************************************************)
EXTENDS Naturals

CONSTANTS Kinds,        \* the pages: of {"file", "entity", "blueprint", "mapping"}
          Sources,      \* source references a document can carry
          MaxWrites,    \* bound on the writes of the document
          Missing       \* no document, no request

VARIABLES kind,         \* the page of this behaviour
          stored,       \* the document the server holds
          detail,       \* the page's detail query
          editor,       \* the form, and what the page says of its last save
          dialog,       \* "closed", "overwrite", "sync"
          sent,         \* per flow, the request under way
          own           \* the last write of a completed operation of this page, unless its form missed it

editorVars == <<kind, stored, detail, editor, dialog, sent, own>>

Documents == [rev : 1 .. MaxWrites, source : Sources]

Flows == {"save", "operation"}

Requests == [of : {"save", "anyway", "overwrite", "sync"}, expected : 0 .. MaxWrites, base : 0 .. MaxWrites,
             source : Sources, after : 0 .. MaxWrites, wrote : 0 .. MaxWrites,
             answer : {"none", "ok", "conflict", "soft", "refused", "lost"}]

Blank == [shows |-> Missing, guard |-> 0, message |-> "none", waiver |-> Missing]

\* Types of the page and of what it is told.
EditorTypeOK ==
  /\ kind \in Kinds /\ stored \in Documents
  /\ detail \in [data : Documents \cup {Missing}, failed : BOOLEAN, fetching : BOOLEAN,
                 read : Documents \cup {Missing}, reseeds : BOOLEAN]
  /\ editor \in [shows : Documents \cup {Missing}, guard : 0 .. MaxWrites,
                 message : {"none", "error", "conflict", "findings", "left"}, waiver : Documents \cup {Missing}]
  /\ dialog \in {"closed", "overwrite", "sync"}
  /\ sent \in [Flows -> Requests \cup {Missing}]
  /\ own \in 0 .. MaxWrites

EditorInit ==
  /\ kind \in Kinds
  /\ stored \in {d \in Documents : d.rev = 1}
  /\ detail = [data |-> Missing, failed |-> FALSE, fetching |-> TRUE, read |-> Missing, reseeds |-> FALSE]
  /\ editor = Blank
  /\ dialog = "closed"
  /\ sent = [f \in Flows |-> Missing]
  /\ own = 0

\* A page that has been left does nothing more.
Stays == editor.message # "left"

\* The load and error states replace the editor, on every edit page.
FileEditorShown == Stays /\ detail.data # Missing /\ ~detail.failed

\* EditEntity mounts its form once the entity is resolved and drops it with the query.
EntityFormShown == FileEditorShown /\ editor.shows # Missing

EditorShown == IF kind = "entity" THEN EntityFormShown ELSE FileEditorShown

-----------------------------------------------------------------------------
(* The detail query *)

\* Mutant: the revision to send follows every answer of the query.
FileSeenEagerly(e, d) ==
  IF e.shows = Missing THEN [e EXCEPT !.shows = d, !.guard = d.rev] ELSE [e EXCEPT !.guard = d.rev]

\* The first answer initialises the form, once; later ones leave fields and revision alone.
FileSeen(e, d) == IF e.shows = Missing THEN [e EXCEPT !.shows = d, !.guard = d.rev] ELSE e
BlueprintSeen(e, d) == IF e.shows = Missing THEN [e EXCEPT !.shows = d] ELSE e
EntitySeen(e, d) == IF e.shows = Missing THEN [e EXCEPT !.shows = d] ELSE e
MappingSeen(e, d) == IF e.shows = Missing THEN [e EXCEPT !.shows = d] ELSE e

Seen(e, d) ==
  CASE kind = "file" -> FileSeen(e, d)
    [] kind = "entity" -> EntitySeen(e, d)
    [] kind = "blueprint" -> BlueprintSeen(e, d)
    [] kind = "mapping" -> MappingSeen(e, d)

\* What reseedFromServer does with the answer it awaits: fields, baseline and revision.
FileReseeded(e, d) == [e EXCEPT !.shows = d, !.guard = d.rev]
EntityReseeded(e, d) == [e EXCEPT !.shows = d]
BlueprintReseeded(e, d) == [e EXCEPT !.shows = d]

Reseeded(e, d) ==
  CASE kind = "file" -> FileReseeded(e, d)
    [] kind = "entity" -> EntityReseeded(e, d)
    [] OTHER -> BlueprintReseeded(e, d)

\* A window focus, a dialog that mounts an observer, an invalidation.
BackgroundRefetch ==
  /\ Stays /\ ~detail.fetching
  /\ detail' = [detail EXCEPT !.fetching = TRUE]
  /\ UNCHANGED <<kind, stored, editor, dialog, sent, own>>

\* The server reads the row; the answer may be long in coming.
DetailRead ==
  /\ Stays /\ detail.fetching /\ detail.read = Missing
  /\ detail' = [detail EXCEPT !.read = stored]
  /\ UNCHANGED <<kind, stored, editor, dialog, sent, own>>

DetailAnswered ==
  /\ Stays /\ detail.read # Missing
  /\ LET d == detail.read IN
     /\ detail' = [data |-> d, failed |-> FALSE, fetching |-> FALSE, read |-> Missing, reseeds |-> FALSE]
     /\ editor' = IF detail.reseeds /\ editor.shows # Missing THEN Reseeded(editor, d) ELSE Seen(editor, d)
  /\ UNCHANGED <<kind, stored, dialog, sent, own>>

\* The cached document stays in the query but the page shows the failure; the form
\* outlives it, except EditEntity's, which is unmounted.  A blueprint's form that missed
\* its re-read comes back as it was, and has no revision to be refused with.
DetailFails ==
  /\ Stays /\ detail.fetching
  /\ detail' = [detail EXCEPT !.failed = TRUE, !.fetching = FALSE, !.read = Missing, !.reseeds = FALSE]
  /\ editor' = IF kind = "entity" THEN Blank ELSE editor
  /\ own' = IF kind = "blueprint" /\ detail.reseeds THEN 0 ELSE own
  /\ UNCHANGED <<kind, stored, dialog, sent>>

-----------------------------------------------------------------------------
(* Saving the form *)

\* The document under the fields, the revision that guards it, and what of this
\* page's own writes the user has seen come back.
Request(of, expected, base, source) ==
  [of |-> of, expected |-> expected, base |-> base, source |-> source,
   after |-> IF detail.reseeds THEN 0 ELSE own, wrote |-> 0, answer |-> "none"]

\* Save: strict, with the source reference of the form.
Submit ==
  /\ EditorShown /\ sent["save"] = Missing /\ dialog = "closed" /\ editor.waiver = Missing
  /\ \E source \in Sources :
       sent' = [sent EXCEPT !["save"] =
                  Request("save", IF kind = "file" THEN editor.guard ELSE 0, editor.shows.rev, source)]
  /\ editor' = [editor EXCEPT !.message = "none"]
  /\ UNCHANGED <<kind, stored, detail, dialog, own>>

\* The parked request goes out again, with the revision the page holds by now.
SaveAnyway ==
  /\ FileEditorShown /\ editor.waiver # Missing /\ sent["save"] = Missing
  /\ sent' = [sent EXCEPT !["save"] =
                Request("anyway", editor.guard, editor.waiver.rev, editor.waiver.source)]
  /\ UNCHANGED <<kind, stored, detail, editor, dialog, own>>

CancelWaiver ==
  /\ FileEditorShown /\ editor.waiver # Missing /\ sent["save"] = Missing
  /\ editor' = [editor EXCEPT !.waiver = Missing]
  /\ UNCHANGED <<kind, stored, detail, dialog, sent, own>>

\* A strict save with soft findings is parked, whatever its revision is worth.
FileSaveRefused(r) ==
  CASE r.of = "save" /\ r.answer = "soft" ->
         [editor EXCEPT !.waiver = [rev |-> r.base, source |-> r.source]]
    [] r.answer = "conflict" -> [editor EXCEPT !.message = "conflict", !.waiver = Missing]
    [] OTHER -> [editor EXCEPT !.message = "error", !.waiver = Missing]

EntitySaveRefused(r) ==
  [editor EXCEPT !.message = IF r.answer = "refused" THEN "findings" ELSE "error"]
BlueprintSaveRefused(r) == [editor EXCEPT !.message = "error"]
MappingSaveRefused(r) ==
  [editor EXCEPT !.message = IF r.answer = "refused" THEN "findings" ELSE "error"]

SaveRefused(r) ==
  CASE kind = "file" -> FileSaveRefused(r)
    [] kind = "entity" -> EntitySaveRefused(r)
    [] kind = "blueprint" -> BlueprintSaveRefused(r)
    [] kind = "mapping" -> MappingSaveRefused(r)

\* Success leaves the page for the list.
SaveAnswered ==
  /\ Stays /\ sent["save"] # Missing /\ sent["save"].answer # "none"
  /\ sent' = [sent EXCEPT !["save"] = Missing]
  /\ editor' = IF sent["save"].answer = "ok" THEN [Blank EXCEPT !.message = "left"]
               ELSE IF editor.shows = Missing THEN editor
               ELSE SaveRefused(sent["save"])
  /\ UNCHANGED <<kind, stored, detail, dialog, own>>

-----------------------------------------------------------------------------
(* The operations beside the form *)

FileOperations == {"overwrite"} \cup (IF detail.data.source # Missing THEN {"sync"} ELSE {})
EntityOperations == IF detail.data.source # Missing THEN {"sync"} ELSE {}
BlueprintOperations == IF detail.data.source # Missing THEN {"sync"} ELSE {}

Operations ==
  CASE kind = "file" -> FileOperations
    [] kind = "entity" -> EntityOperations
    [] kind = "blueprint" -> BlueprintOperations
    [] kind = "mapping" -> {}

OpenDialog ==
  /\ EditorShown /\ dialog = "closed" /\ editor.waiver = Missing
  /\ dialog' \in Operations
  /\ UNCHANGED <<kind, stored, detail, editor, sent, own>>

\* Cancel, Escape and the overlay are held while the request is under way.
CloseDialog ==
  /\ EditorShown /\ dialog # "closed" /\ sent["operation"] = Missing
  /\ dialog' = "closed"
  /\ UNCHANGED <<kind, stored, detail, editor, sent, own>>

\* The diff is against the settled detail, which also carries the revision and the source.
OverwriteConfirms == detail.data # Missing /\ ~detail.fetching

OverwriteRequest == Request("overwrite", detail.data.rev, detail.data.rev, detail.data.source)

ConfirmOverwrite ==
  /\ EditorShown /\ dialog = "overwrite" /\ sent["operation"] = Missing /\ OverwriteConfirms
  /\ sent' = [sent EXCEPT !["operation"] = OverwriteRequest]
  /\ UNCHANGED <<kind, stored, detail, editor, dialog, own>>

\* What SourceSync details: files are guarded by the revision, the others by the source.
ConfirmSync ==
  /\ EditorShown /\ dialog = "sync" /\ sent["operation"] = Missing
  /\ ~detail.fetching /\ detail.data.source # Missing
  /\ sent' = [sent EXCEPT !["operation"] =
                Request("sync", IF kind = "file" THEN detail.data.rev ELSE 0, detail.data.rev, detail.data.source)]
  /\ UNCHANGED <<kind, stored, detail, editor, dialog, own>>

\* Mutant: the re-read joins a fetch that was under way before the write.
CompletedWithoutInvalidation ==
  detail' = [detail EXCEPT !.fetching = TRUE, !.reseeds = TRUE]

\* The invalidation cancels the fetch under way and starts one that reseedFromServer joins.
Completed ==
  detail' = [detail EXCEPT !.fetching = TRUE, !.read = Missing, !.reseeds = TRUE]

OperationAnswered ==
  /\ Stays /\ sent["operation"] # Missing /\ sent["operation"].answer # "none"
  /\ sent' = [sent EXCEPT !["operation"] = Missing]
  /\ IF sent["operation"].answer = "ok"
     THEN /\ dialog' = "closed" /\ own' = sent["operation"].wrote
          /\ Completed
     ELSE UNCHANGED <<dialog, own, detail>>
  /\ UNCHANGED <<kind, stored, editor>>

-----------------------------------------------------------------------------
(* The server, and the other clients *)

Guarded(r) ==
  IF kind = "file" THEN r.expected # stored.rev
  ELSE r.of = "sync" /\ r.source # stored.source

\* Findings are looked for before the revision is; a sync waives them.
Outcomes(r) ==
  (IF kind = "file" /\ r.of = "save" THEN {"soft"} ELSE {})
    \cup (IF kind # "file" THEN {"refused"} ELSE {})
    \cup (IF Guarded(r) THEN {"conflict"} ELSE {"ok"})

WriteHandled(f) ==
  LET r == sent[f] IN
  /\ r # Missing /\ r.answer = "none" /\ stored.rev < MaxWrites
  /\ \E v \in Outcomes(r) :
       /\ sent' = [sent EXCEPT ![f] = [r EXCEPT !.answer = v, !.wrote = IF v = "ok" THEN stored.rev + 1 ELSE 0]]
       /\ stored' = IF v # "ok" THEN stored
                    ELSE [rev |-> stored.rev + 1, source |-> IF r.of = "sync" THEN stored.source ELSE r.source]
  /\ UNCHANGED <<kind, detail, editor, dialog, own>>

\* A timeout or a broken connection, before or after the write.
AnswerLost(f) ==
  /\ sent[f] # Missing /\ sent[f].answer # "lost"
  /\ sent' = [sent EXCEPT ![f].answer = "lost"]
  /\ UNCHANGED <<kind, stored, detail, editor, dialog, own>>

OtherWrites ==
  /\ stored.rev < MaxWrites
  /\ \E source \in Sources : stored' = [rev |-> stored.rev + 1, source |-> source]
  /\ UNCHANGED <<kind, detail, editor, dialog, sent, own>>

EditorNext ==
  \/ BackgroundRefetch \/ DetailRead \/ DetailAnswered \/ DetailFails
  \/ Submit \/ SaveAnyway \/ CancelWaiver \/ SaveAnswered
  \/ OpenDialog \/ CloseDialog \/ ConfirmOverwrite \/ ConfirmSync \/ OperationAnswered
  \/ \E f \in Flows : WriteHandled(f) \/ AnswerLost(f)
  \/ OtherWrites

EditorSpec == EditorInit /\ [][EditorNext]_editorVars

-----------------------------------------------------------------------------
(* Properties *)

\* The server applies the request of this flow.
StoredBy(f) == sent[f] # Missing /\ sent[f].answer = "none" /\ stored' # stored /\ sent'[f].answer = "ok"

\* A catalog file is only replaced by a save, an overwrite or a sync of this page
\* while it is the very document the user was looking at, and an overwrite leaves
\* its source reference alone (EditCatalogFile, OverwriteWithYamlModal).  Of "Save
\* anyway", which sends the document it parked with the revision held by then, nothing
\* is said.
ReplacesAsSeen ==
  \A f \in Flows : kind = "file" /\ StoredBy(f) /\ sent[f].of # "anyway" =>
       /\ sent[f].base = stored.rev
       /\ sent[f].of = "overwrite" => stored'.source = stored.source

\* A save pressed after the re-read that follows an overwrite or a sync of this page
\* never brings back the document from before it (reseedFromServer of the edit pages);
\* a blueprint's may once that re-read failed, as EditBlueprint says of its catch.
FollowsTheReread == \A f \in Flows : StoredBy(f) /\ sent[f].of = "save" => sent[f].base >= sent[f].after
=============================================================================
