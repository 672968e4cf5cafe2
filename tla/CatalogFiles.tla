---------------------------- MODULE CatalogFiles ----------------------------
(***************************************************************************)
(* Catalog files: creates, saves, source syncs, deletes and imports by     *)
(* several clients, statement by statement where another transaction may   *)
(* come between.  A row's revision counts its changes; a request may carry *)
(* the revision its client read.  Each change and its history event are    *)
(* one transaction; a sync also keeps the document it took as a baseline.  *)
(*                                                                         *)
(* A document is an identity (kind, namespace and folded name), a body,    *)
(* and the order of the entries in its lists of scalars.  An event tells   *)
(* the fields a write changed; another order alone is a change of the row  *)
(* that no field shows.                                                    *)
(* Whether a strict save is refused for its findings depends on other rows *)
(* that no lock protects, and is left open.  Every committed write has a   *)
(* millisecond of its own.                                                 *)
(***************************************************************************)
EXTENDS Naturals, Sequences, FiniteSetsExt

CONSTANTS Clients,
          Ids,         \* of `catalog_files', naturals that are never reused
          FileNames,   \* identities: kind, namespace and folded name
          Bodies,
          Orders,
          Sources,     \* source references
          MaxWrites,   \* bounds the committed writes
          Nil

ASSUME FilesAssumption ==
  /\ Ids \subseteq Nat /\ MaxWrites \in Nat
  /\ Nil \notin Clients \cup Ids \cup FileNames \cup Sources

FileDocuments == [name : FileNames, body : Bodies, order : Orders]

VARIABLES
  files,     \* `catalog_files'
  events,    \* `catalog_file_events', by file
  rowLock,   \* who holds the row's FOR UPDATE lock
  inFlight,  \* by client: its request, and how far it is
  now        \* the current millisecond

filesVars == <<files, events, rowLock, inFlight, now>>

NoFile == [name |-> Nil]

\* What a client has read before its request, when the request says so.
ExpectsNothing == [kind |-> "nothing"]
SeenRow(id) == [kind |-> "row", id |-> id, row |-> files[id]]
SeenAbsent(name) == [kind |-> "absent", name |-> name]

NoRequest == [stage |-> "none", seen |-> ExpectsNothing]

Exists(id) == files[id] # NoFile
ActiveFile(id) == Exists(id) /\ ~files[id].deleted

\* The partial unique index: the identity is free, or the row's own.
IdentityFree(id, d) == \A other \in Ids \ {id} : ActiveFile(other) => files[other].document.name # d.name

\* What an event tells of a row, field by field: an entry that was moved within its list is
\* neither added nor removed.
Told(row) == [name |-> row.document.name, body |-> row.document.body, source |-> row.source]

\* Its parameters hold the difference of the two.  Not in them: whether the write stamped
\* the row as synced, and the revision it left.
Event(type, from, to, synced) ==
  [type |-> type, from |-> Told(from), to |-> Told(to), synced |-> synced, revision |-> to.revision]

FilesInit ==
  /\ \E d \in FileDocuments, s \in Sources \cup {Nil} :
       LET row == [document |-> d, source |-> s, updatedAt |-> 1, lastSyncedAt |-> IF s = Nil THEN 0 ELSE 1,
                   baseline |-> IF s = Nil THEN Nil ELSE d, revision |-> 1, deleted |-> FALSE]
       IN /\ files = [id \in Ids |-> IF id = Min(Ids) THEN row ELSE NoFile]
          /\ events = [id \in Ids |-> IF id = Min(Ids) THEN <<Event("CREATED", row, row, s # Nil)>> ELSE <<>>]
  /\ rowLock = [id \in Ids |-> Nil]
  /\ inFlight = [c \in Clients |-> NoRequest]
  /\ now = 2

-----------------------------------------------------------------------------
(* Requests.  What a request holds is chosen where it is first looked at. *)

Holders(name) == {id \in Ids : ActiveFile(id) /\ files[id].document.name = name}

Moves(c, r) == inFlight' = [inFlight EXCEPT ![c] = r] /\ UNCHANGED <<files, events, now>>

\* A client that will send the revision it now reads, or that it found nothing.
Reads(c) ==
  /\ inFlight[c] = NoRequest /\ now <= MaxWrites + 1
  /\ \/ \E id \in Ids : ActiveFile(id) /\ Moves(c, [stage |-> "read", seen |-> SeenRow(id)])
     \/ \E name \in FileNames : Holders(name) = {} /\ Moves(c, [stage |-> "read", seen |-> SeenAbsent(name)])
  /\ UNCHANGED rowLock

\* A request arrives.
Arrives(c) == inFlight[c].stage = "read" \/ (inFlight[c] = NoRequest /\ now <= MaxWrites + 1)
Seen(c) == inFlight[c].seen

Ends(c) == inFlight' = [inFlight EXCEPT ![c] = NoRequest]
Unlocks(c) == rowLock' = [id \in Ids |-> IF rowLock[id] = c THEN Nil ELSE rowLock[id]]

\* Answered without a write.
EndsUnwritten(c) == Ends(c) /\ Unlocks(c) /\ UNCHANGED <<files, events, now>>

requireExpectedRevision(seen, id) == seen.kind = "row" => seen.row.revision = files[id].revision

\* SELECT ... FOR UPDATE returns the row, at the revision the request expects.
LocksRow(c, id, r) ==
  /\ rowLock[id] = Nil /\ ActiveFile(id)
  /\ requireExpectedRevision(r.seen, id)
  /\ rowLock' = [rowLock EXCEPT ![id] = c] /\ Moves(c, r)

\* update, syncFromRepo and delete up to their decision on the row; only one with a source syncs.
LockRow(c) == \E id \in Ids, op \in {"save", "sync", "delete"} :
  /\ Arrives(c) /\ (Seen(c).kind = "row" => Seen(c).id = id) /\ Seen(c).kind # "absent"
  /\ op = "sync" => ActiveFile(id) /\ files[id].source # Nil
  /\ LocksRow(c, id, [stage |-> "write", op |-> op, id |-> id, name |-> Nil, seen |-> Seen(c)])

\* What an import expected is not what activeRowOf found.
staleReason(seen, id, replaceExisting) ==
  CASE seen.kind = "nothing" -> FALSE
    [] seen.kind = "absent" -> id # Nil /\ replaceExisting
    [] seen.kind = "row" -> IF id = Nil THEN TRUE
                            ELSE replaceExisting /\ (seen.id # id \/ ~requireExpectedRevision(seen, id))

\* importOne, a transaction of its own: activeRowOf, for an import that replaces or expects something.
Locate(c) == \E name \in FileNames, replaceExisting \in BOOLEAN :
  LET seen == Seen(c)
      id == IF Holders(name) = {} THEN Nil ELSE CHOOSE i \in Holders(name) : TRUE
  IN /\ Arrives(c) /\ (replaceExisting \/ seen # ExpectsNothing)
     /\ name = CASE seen.kind = "nothing" -> name [] seen.kind = "absent" -> seen.name [] seen.kind = "row" -> seen.row.document.name
     /\ IF staleReason(seen, id, replaceExisting) \/ (id # Nil /\ ~replaceExisting)
        THEN EndsUnwritten(c)
        ELSE /\ Moves(c, [stage |-> IF id = Nil THEN "insert" ELSE "located", op |-> "import", id |-> id, name |-> name, seen |-> seen])
             /\ UNCHANGED rowLock

\* Its replace; of a row that has gone an unguarded document is created anew.
LockLocated(c) ==
  /\ inFlight[c].stage = "located"
  /\ LET r == inFlight[c] IN
     \/ LocksRow(c, r.id, [r EXCEPT !.stage = "write"])
     \/ /\ rowLock[r.id] = Nil /\ ~ActiveFile(r.id) /\ r.seen = ExpectsNothing
        /\ Moves(c, [r EXCEPT !.stage = "insert"]) /\ UNCHANGED rowLock

-----------------------------------------------------------------------------
(* Writes *)

\* Every sync, and every import with a batch source, stamps the row.
synced(op, source) == op = "sync" \/ (op = "import" /\ source # Nil)

\* An import without one keeps the row's.
sourceOf(op, source, row) == IF op = "sync" \/ (op = "import" /\ source = Nil) THEN row.source ELSE source

\* Mutant: another source alone keeps the revision.
BumpsForContent(contentChanged, sourceChanged, isSynced) == contentChanged \/ isSynced

Bumps(contentChanged, sourceChanged, isSynced) == contentChanged \/ sourceChanged \/ isSynced

\* A source that changed was never synced from.
Written(op, row, d, source) ==
  LET contentChanged == row.document # d
      sourceChanged == row.source # sourceOf(op, source, row)
      isSynced == synced(op, source)
  IN [document |-> d,
      source |-> sourceOf(op, source, row),
      updatedAt |-> IF contentChanged \/ isSynced THEN now ELSE row.updatedAt,
      lastSyncedAt |-> IF isSynced THEN now ELSE IF sourceChanged THEN 0 ELSE row.lastSyncedAt,
      baseline |-> IF isSynced THEN d ELSE IF sourceChanged THEN Nil ELSE row.baseline,
      revision |-> row.revision + (IF Bumps(contentChanged, sourceChanged, isSynced) THEN 1 ELSE 0),
      deleted |-> FALSE]

\* Mutant: an event for another content, whatever the fields tell of it, and none for another source.
EventsOfContent(op, row, written, isSynced) ==
  IF op # "sync" /\ row.document # written.document THEN <<Event("UPDATED", row, written, isSynced)>>
  ELSE IF isSynced THEN <<Event("SYNCED", row, written, TRUE)>> ELSE <<>>

\* Nil for a save that changed no field; always one for a sync.
EventsOf(op, row, written, isSynced) ==
  IF op # "sync" /\ Told(row) # Told(written) THEN <<Event("UPDATED", row, written, isSynced)>>
  ELSE IF isSynced THEN <<Event("SYNCED", row, written, TRUE)>> ELSE <<>>

\* The row and its events, in one transaction.
Commits(c, id, row, told) ==
  /\ files' = [files EXCEPT ![id] = row]
  /\ events' = [events EXCEPT ![id] = @ \o told]
  /\ now' = now + (IF row = files[id] THEN 0 ELSE 1)
  /\ Ends(c) /\ Unlocks(c)

WriteFile(c) == \E d \in FileDocuments, source \in Sources \cup {Nil} :
  LET r == inFlight[c]
      row == files[r.id]
      written == Written(r.op, row, d, source)
  IN /\ r.stage = "write" /\ r.op # "delete"
     /\ r.op = "import" => d.name = r.name
     /\ r.op = "sync" => source = Nil
     /\ IF IdentityFree(r.id, d)
        THEN Commits(c, r.id, written, EventsOf(r.op, row, written, synced(r.op, source)))
        ELSE EndsUnwritten(c)

\* The row is kept, marked as deleted.
Removed(row) ==
  [document |-> row.document, source |-> row.source, updatedAt |-> row.updatedAt, lastSyncedAt |-> row.lastSyncedAt,
   baseline |-> row.baseline, revision |-> row.revision + 1, deleted |-> TRUE]

Delete(c) ==
  /\ inFlight[c].stage = "write" /\ inFlight[c].op = "delete"
  /\ LET id == inFlight[c].id
         row == files[id]
     IN Commits(c, id, Removed(row), <<Event("DELETED", row, row, FALSE)>>)

\* Only what was imported from a source is synced from the start.
Created(d, source, isSynced) ==
  [document |-> d, source |-> source, updatedAt |-> now, lastSyncedAt |-> IF isSynced THEN now ELSE 0,
   baseline |-> IF isSynced THEN d ELSE Nil, revision |-> 1, deleted |-> FALSE]

\* create, of a client or of an import.
Insert(c) == \E id \in Ids, d \in FileDocuments, source \in Sources \cup {Nil}, op \in {"create", "import"} :
  LET row == Created(d, source, synced(op, source)) IN
  /\ IF inFlight[c].stage = "insert" THEN op = "import" /\ d.name = inFlight[c].name ELSE Arrives(c) /\ Seen(c) = ExpectsNothing
  /\ id = Min({i \in Ids : ~Exists(i)} \cup {Max(Ids)}) /\ ~Exists(id)
  /\ IF IdentityFree(id, d)
     THEN Commits(c, id, row, <<Event("CREATED", row, row, synced(op, source))>>)
     ELSE EndsUnwritten(c)

\* Refused for its findings, its revision or a row that is gone; timed out, or failed in another way.
Fails(c) == inFlight[c] # NoRequest /\ EndsUnwritten(c)

\* The bound on writes is reached.
Rests == inFlight = [c \in Clients |-> NoRequest] /\ now > MaxWrites + 1 /\ UNCHANGED filesVars

FilesNext ==
  \/ \E c \in Clients :
       Reads(c) \/ LockRow(c) \/ Locate(c) \/ LockLocated(c) \/ WriteFile(c) \/ Delete(c) \/ Insert(c) \/ Fails(c)
  \/ Rests

FilesSpec == FilesInit /\ [][FilesNext]_filesVars
-----------------------------------------------------------------------------
(* Properties *)

\* A write that carried a revision replaced exactly the row its client had read:
\* document, source, baseline and all (X-Expected-Revision; CatalogFileService.update,
\* syncFromRepo, delete; the expectations of an import).
RevisionsGuard ==
  [][\A c \in Clients :
       /\ inFlight[c].stage = "write" /\ inFlight'[c] = NoRequest /\ files' # files
       /\ inFlight[c].seen # ExpectsNothing
       => files[inFlight[c].id] = inFlight[c].seen.row]_filesVars

\* The history of a file is all of it that can be told: it begins with its creation, each
\* event starts from what the one before it left, no field is missing up to the row as it
\* stands, and only a sync or the deletion tells of no change.
HistoryIsWhole(id) ==
  LET told == events[id]
      last == told[Len(told)]
  IN /\ \A k \in DOMAIN told : (told[k].type = "CREATED" <=> k = 1) /\ (told[k].type = "DELETED" => k = Len(told))
     /\ \A k \in 2 .. Len(told) : told[k].from = told[k - 1].to
     /\ \A k \in DOMAIN told : told[k].from = told[k].to => told[k].type # "UPDATED"
     /\ last.to = Told(files[id]) /\ (last.type = "DELETED" <=> files[id].deleted)

\* While a file counts as synced, its baseline and source are those of its last sync, and
\* it reads as modified since (updated_at > last_synced_at) exactly when a save has moved
\* its revision since that sync: so it does when it differs from its baseline, were it only
\* in the order of a list, and when an event tells of a change, were it undone by now.
DriftIsShown(id) ==
  LET told == events[id]
      row == files[id]
      last == Max({k \in DOMAIN told : told[k].synced})
      modified == row.updatedAt > row.lastSyncedAt
  IN IF row.lastSyncedAt = 0 THEN row.baseline = Nil
     ELSE /\ \E k \in DOMAIN told : told[k].synced
          /\ told[last].to = Told([row EXCEPT !.document = row.baseline])
          /\ row.document # row.baseline => modified
          /\ (\E k \in DOMAIN told : k > last /\ told[k].from # told[k].to) => modified
          /\ row.deleted \/ (modified <=> row.revision > told[last].revision)

\* (CatalogFileService, CatalogFileEventService.recordInTransaction.)
HistoryAccountsForFiles == \A id \in Ids : Exists(id) => HistoryIsWhole(id) /\ DriftIsShown(id)
=============================================================================
