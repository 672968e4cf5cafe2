----------------------------- MODULE SourceSync -----------------------------
(***************************************************************************)
(* The three "sync from source" dialogs of the web client: a catalog file, *)
(* an entity, a blueprint is compared with the copy its source reference   *)
(* names, and overwritten with it when the user confirms.  Other clients   *)
(* edit the row and its reference, and the copy at the source moves, while *)
(* the dialog is open.  A query reads and answers in one step: an answer   *)
(* on its way while the server moves on is the same answer grown stale.    *)
(***************************************************************************)
EXTENDS Naturals

CONSTANTS Targets,      \* of {"file", "entity", "blueprint"}
          Urls,         \* source references
          Copies,       \* documents, as rendered for comparison
          MaxRevision,  \* bound on the writes of the row
          Nothing       \* no data, no reference, no request

VARIABLES target,       \* what the dialog is about
          row,          \* the row on the server: [rev, url, doc, baseline, synced]
          source,       \* what each reference answers with now
          asked,        \* the dialog's queries
          modal,        \* "closed", "open", "syncing", "failed", "conflict"
          confirmed     \* the sync under way

syncVars == <<target, row, source, asked, modal, confirmed>>

\* Not parsed, no document of this row in it, or one of another blueprint.
Unusable == {"unusable"}
\* The dry run's row: CREATED or UPDATED, INVALID, or none.
Verdicts == {"accepted", "INVALID", "empty"}
Idle == [data |-> Nothing, failed |-> FALSE, fetching |-> FALSE]
Queries == {"detail", "state", "blueprints", "copy", "check"}
Rows == [rev : 1 .. MaxRevision, url : Urls \cup {Nothing}, doc : Copies,
         baseline : Copies \cup {Nothing}, synced : 0 .. MaxRevision]

\* A query that mounts fetches; "isSuccess && !isFetching".
Fetching == [Idle EXCEPT !.fetching = TRUE]
QuerySettled(q) == asked[q].data # Nothing /\ ~asked[q].failed /\ ~asked[q].fetching
Loaded(q) == asked[q].data # Nothing

SyncInit ==
  /\ target \in Targets
  /\ row \in {r \in Rows : r.rev = 1 /\ r.url # Nothing /\ r.baseline = Nothing /\ r.synced = 0}
  /\ source \in [Urls -> Copies]
  /\ asked = [q \in Queries |-> Idle]
  /\ modal = "closed"
  /\ confirmed = Nothing

-----------------------------------------------------------------------------
(* What the dialog derives from its queries *)

\* The reference belongs to the detail that is compared and guarded.
SourceUrl == IF Loaded("detail") THEN asked["detail"].data.url ELSE Nothing

\* The copy is keyed by the reference: that of another reference is no data at all.
CopyOf(url) == IF url # Nothing /\ Loaded("copy") /\ asked["copy"].data.url = url THEN asked["copy"].data.doc ELSE Nothing
Fetched == CopyOf(SourceUrl)
RemoteDocument == IF Fetched \in Unusable THEN Nothing ELSE Fetched

\* Whether the sync state speaks of the same reference, of the same revision.
SourceStateMatches == Loaded("state") /\ SourceUrl # Nothing /\ asked["state"].data.url = SourceUrl
ComparisonStale == Loaded("detail") /\ Loaded("state") /\ asked["detail"].data.rev # asked["state"].data.rev

\* The dry run is keyed by the reference and the copy it was asked about.
Preflight == IF RemoteDocument # Nothing /\ Loaded("check") /\ asked["check"].data.doc = RemoteDocument
               THEN asked["check"].data.verdict ELSE Nothing
PreflightPending == RemoteDocument # Nothing /\ ((Preflight = Nothing /\ ~asked["check"].failed) \/ asked["check"].fetching)
PreflightAccepted == QuerySettled("check") /\ Preflight = "accepted"

Blueprint == target # "entity" \/ asked["blueprints"].data = "known"

\* The comparison: which side moved since the last sync.
HasLocalChanges(r) == r.synced > 0 /\ r.rev > r.synced
CompareSyncSides ==
  LET current == IF Loaded("detail") /\ Blueprint THEN asked["detail"].data.doc ELSE Nothing
      baseline == IF Loaded("state") THEN asked["state"].data.baseline ELSE Nothing IN
  [inSync |-> current # Nothing /\ RemoteDocument = current,
   dbChanged |-> Loaded("detail") /\ Loaded("state")
                   /\ HasLocalChanges([rev |-> asked["detail"].data.rev, synced |-> asked["state"].data.synced]),
   repoChanged |-> RemoteDocument # Nothing /\ baseline # Nothing /\ RemoteDocument # baseline,
   diff |-> current # Nothing /\ RemoteDocument # Nothing /\ RemoteDocument # current]

FileLoading == asked["detail"].fetching \/ asked["state"].fetching \/ asked["copy"].fetching
EntityLoading == FileLoading \/ asked["blueprints"].fetching \/ (Blueprint /\ PreflightPending)
BlueprintLoading == FileLoading \/ PreflightPending

FileReady == ~FileLoading /\ Loaded("detail") /\ RemoteDocument # Nothing
EntityReady ==
  /\ \A q \in {"detail", "state", "blueprints", "copy"} : QuerySettled(q)
  /\ Blueprint /\ SourceStateMatches /\ RemoteDocument # Nothing
BlueprintReady ==
  /\ \A q \in {"detail", "state", "copy"} : QuerySettled(q)
  /\ SourceStateMatches /\ RemoteDocument # Nothing

\* The first of these is the message in place of the comparison.
FileLoadError ==
  \/ asked["detail"].failed \/ asked["state"].failed \/ asked["copy"].failed
  \/ Loaded("detail") /\ SourceUrl = Nothing
  \/ ComparisonStale
  \/ Fetched \in Unusable
EntityLoadError ==
  \/ asked["detail"].failed \/ asked["state"].failed \/ asked["blueprints"].failed \/ asked["copy"].failed
  \/ Loaded("detail") /\ QuerySettled("blueprints") /\ ~Blueprint
  \/ Loaded("detail") /\ SourceUrl = Nothing
  \/ Loaded("detail") /\ Loaded("state") /\ ~SourceStateMatches
  \/ Fetched \in Unusable
  \/ asked["check"].failed \/ Preflight = "empty"
BlueprintLoadError ==
  \/ asked["detail"].failed \/ asked["state"].failed \/ asked["copy"].failed
  \/ Loaded("detail") /\ SourceUrl = Nothing
  \/ Loaded("detail") /\ Loaded("state") /\ ~SourceStateMatches
  \/ Fetched \in Unusable
  \/ asked["check"].failed \/ Preflight = "empty"

\* When the red button writes.
FileConfirm == FileReady /\ ~FileLoadError /\ Loaded("state") /\ ~ComparisonStale /\ ~CompareSyncSides.inSync
EntityConfirm == EntityReady /\ ~EntityLoadError /\ PreflightAccepted /\ ~CompareSyncSides.inSync
BlueprintConfirm == BlueprintReady /\ ~BlueprintLoadError /\ PreflightAccepted /\ ~CompareSyncSides.inSync

CanConfirm ==
  CASE target = "file" -> FileConfirm
    [] target = "entity" -> EntityConfirm
    [] target = "blueprint" -> BlueprintConfirm

\* What the body shows beside the buttons.
Compared(ready, failed) ==
  IF ~ready \/ failed THEN {}
  ELSE IF CompareSyncSides.inSync THEN {"inSync"}
  ELSE {"diff"} \cup (IF CompareSyncSides.repoChanged THEN {"changedAtSource"} ELSE {})
                \cup (IF CompareSyncSides.dbChanged THEN {"changedInDb"} ELSE {})
Shared(loading, failed) ==
  (IF SourceUrl # Nothing THEN {"source"} ELSE {}) \cup (IF loading THEN {"loader"} ELSE {})
    \cup (IF failed THEN {"loadError"} ELSE {}) \cup (IF modal \in {"failed", "conflict"} THEN {"syncError"} ELSE {})
Refusal(ready) == IF ready /\ Preflight = "INVALID" THEN {"refused"} ELSE {}

FileView == Shared(FileLoading, FileLoadError) \cup Compared(FileReady, FileLoadError)
EntityView == Shared(EntityLoading, EntityLoadError) \cup Compared(EntityReady, EntityLoadError)
                \cup Refusal(EntityReady /\ ~EntityLoadError)
BlueprintView == Shared(BlueprintLoading, BlueprintLoadError) \cup Compared(BlueprintReady, BlueprintLoadError)
                   \cup Refusal(BlueprintReady /\ ~BlueprintLoadError)
SyncView ==
  CASE target = "file" -> FileView
    [] target = "entity" -> EntityView
    [] target = "blueprint" -> BlueprintView

-----------------------------------------------------------------------------
(* The dialog *)

\* Queries mount with the body; the blueprint list only for an entity.
OpenSync ==
  /\ modal = "closed"
  /\ modal' = "open"
  /\ asked' = [q \in Queries |-> IF q \in {"detail", "state"} \/ (q = "blueprints" /\ target = "entity") THEN Fetching ELSE Idle]
  /\ UNCHANGED <<target, row, source, confirmed>>

\* Escape, the overlay and the X are held while the sync is under way.
CloseSync ==
  /\ modal \in {"open", "failed", "conflict"}
  /\ modal' = "closed"
  /\ asked' = [q \in Queries |-> Idle]
  /\ UNCHANGED <<target, row, source, confirmed>>

\* A dependent query of another key starts without data; gcTime 0 forgets the old one.
Enabled(q) ==
  CASE q = "copy" /\ target = "file" -> SourceUrl # Nothing
    [] q = "copy" /\ target # "file" -> QuerySettled("detail") /\ QuerySettled("state") /\ SourceStateMatches
    [] q = "check" /\ target = "entity" -> QuerySettled("copy") /\ QuerySettled("blueprints") /\ Blueprint /\ RemoteDocument # Nothing
    [] q = "check" /\ target = "blueprint" -> QuerySettled("copy") /\ RemoteDocument # Nothing
    [] OTHER -> FALSE
Keyed(q) == IF q = "copy" THEN Fetched = Nothing ELSE Preflight = Nothing

DependentStarts(q) ==
  /\ modal # "closed" /\ Enabled(q) /\ Keyed(q) /\ ~asked[q].fetching /\ ~asked[q].failed
  /\ asked' = [asked EXCEPT ![q] = Fetching]
  /\ UNCHANGED <<target, row, source, modal, confirmed>>

\* The window regains the focus, another page invalidates the list.
Refetch(q) ==
  /\ modal # "closed" /\ q \in {"detail", "state"} /\ ~asked[q].fetching
  /\ asked' = [asked EXCEPT ![q].fetching = TRUE]
  /\ UNCHANGED <<target, row, source, modal, confirmed>>

Answer(q) ==
  CASE q \in {"detail", "state"} -> {row}
    [] q = "blueprints" -> {"known", "unknown"}
    [] q = "copy" -> {[url |-> SourceUrl, doc |-> d] : d \in {source[SourceUrl]} \cup Unusable}
    [] q = "check" -> {[doc |-> RemoteDocument, verdict |-> v] : v \in Verdicts}

QueryAnswered(q) ==
  /\ modal # "closed" /\ asked[q].fetching
  /\ q = "copy" => SourceUrl # Nothing
  /\ q = "check" => RemoteDocument # Nothing
  /\ \E a \in Answer(q) : asked' = [asked EXCEPT ![q] = [data |-> a, failed |-> FALSE, fetching |-> FALSE]]
  /\ UNCHANGED <<target, row, source, modal, confirmed>>

QueryFails(q) ==
  /\ modal # "closed" /\ asked[q].fetching
  /\ asked' = [asked EXCEPT ![q].failed = TRUE, ![q].fetching = FALSE]
  /\ UNCHANGED <<target, row, source, modal, confirmed>>

\* A file is guarded by the revision compared, the others by the reference read.
FileGuard == [rev |-> asked["detail"].data.rev, url |-> Nothing]
EntityGuard == [rev |-> 0, url |-> SourceUrl]
BlueprintGuard == [rev |-> 0, url |-> SourceUrl]
Guard ==
  CASE target = "file" -> FileGuard
    [] target = "entity" -> EntityGuard
    [] target = "blueprint" -> BlueprintGuard

ConfirmSourceSync ==
  /\ modal \in {"open", "failed", "conflict"} /\ CanConfirm
  /\ modal' = "syncing"
  /\ confirmed' = [doc |-> RemoteDocument, guard |-> Guard, from |-> asked["copy"].data.url,
                   over |-> asked["detail"].data.rev, accepted |-> Preflight, answer |-> "none"]
  /\ UNCHANGED <<target, row, source, asked>>

\* The server: the guard, then the write, which moves the baseline with it.
GuardHolds(guard) == IF target = "file" THEN row.rev = guard.rev ELSE row.url = guard.url

SyncHandled ==
  /\ confirmed # Nothing /\ confirmed.answer = "none" /\ row.rev < MaxRevision
  /\ IF GuardHolds(confirmed.guard)
       THEN /\ row' = [row EXCEPT !.rev = row.rev + 1, !.doc = confirmed.doc,
                                  !.baseline = confirmed.doc, !.synced = row.rev + 1]
            /\ confirmed' = [confirmed EXCEPT !.answer = "ok"]
       ELSE /\ confirmed' = [confirmed EXCEPT !.answer = "conflict"]
            /\ UNCHANGED row
  /\ UNCHANGED <<target, source, asked, modal>>

SyncLost ==
  /\ confirmed # Nothing /\ confirmed.answer # "lost"
  /\ confirmed' = [confirmed EXCEPT !.answer = "lost"]
  /\ UNCHANGED <<target, row, source, asked, modal>>

\* Success closes the dialog; a failure is shown and the button is back.
SyncAnswered ==
  /\ confirmed # Nothing /\ confirmed.answer # "none"
  /\ confirmed' = Nothing
  /\ modal' = CASE confirmed.answer = "ok" -> "closed"
                [] confirmed.answer = "conflict" -> "conflict"
                [] confirmed.answer = "lost" -> "failed"
  /\ asked' = IF confirmed.answer = "ok" THEN [q \in Queries |-> Idle] ELSE asked
  /\ UNCHANGED <<target, row, source>>

-----------------------------------------------------------------------------
(* Everyone else *)

\* An edit of the document leaves the baseline; a new reference forgets it.
RowEdited ==
  /\ row.rev + 1 < MaxRevision   \* the last write is left to a sync
  /\ \/ \E doc \in Copies : row' = [row EXCEPT !.rev = row.rev + 1, !.doc = doc]
     \/ \E url \in (Urls \cup {Nothing}) \ {row.url} :
          row' = [row EXCEPT !.rev = row.rev + 1, !.url = url, !.baseline = Nothing, !.synced = 0]
  /\ UNCHANGED <<target, source, asked, modal, confirmed>>

SourceMoves ==
  /\ \E url \in Urls, doc \in Copies : doc # source[url] /\ source' = [source EXCEPT ![url] = doc]
  /\ UNCHANGED <<target, row, asked, modal, confirmed>>

SyncNext ==
  \/ OpenSync \/ CloseSync \/ ConfirmSourceSync \/ SyncHandled \/ SyncLost \/ SyncAnswered
  \/ \E q \in Queries : DependentStarts(q) \/ Refetch(q) \/ QueryAnswered(q) \/ QueryFails(q)
  \/ RowEdited \/ SourceMoves

SyncSpec == SyncInit /\ [][SyncNext]_syncVars

-----------------------------------------------------------------------------
(* Properties *)

\* The server overwrites the row with a confirmed copy.
SyncApplied == confirmed # Nothing /\ row' # row /\ confirmed.answer = "none" /\ confirmed'.answer = "ok"

\* A confirmed sync writes a document that came from the reference the row carries
\* when it is written; a file only over the revision the diff was made with, an entity
\* or blueprint only what the dry run accepted (onConfirm of the three dialogs).
WritesWhatWasCompared ==
  SyncApplied =>
    /\ confirmed.from = row.url
    /\ target = "file" => confirmed.over = row.rev
    /\ target # "file" => confirmed.accepted = "accepted"
=============================================================================
