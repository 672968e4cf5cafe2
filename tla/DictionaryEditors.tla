--------------------------- MODULE DictionaryEditors --------------------------
(***************************************************************************)
(* The whole-document editors of the dictionaries (namespaces, lifecycles, *)
(* hierarchies): rows are edited locally, one Save replaces the list, and  *)
(* the form is seeded again from the list as read after it.                *)
(***************************************************************************)
EXTENDS Naturals, Sequences, FiniteSets, SequencesExt

CONSTANTS Families,           \* subset of {"namespaces", "lifecycles"}
          Texts,              \* values a row is given, subset of {"", "a", "A", "b"}
          MaxIds, MaxKeys,    \* entries ever stored, rows ever added
          MaxRequests,        \* saves under way at once
          None

VARIABLES family,
          entries,   \* the list on the server: [id, value, isDefault]
          minted,    \* entries ever stored, a counter
          cached,    \* the list the page last read
          page,      \* "away", "failed" or "open"
          rows,      \* the rows of the form: [key, id, value, isDefault]; key 0 for a read row
          base,      \* what the form was seeded with
          requests,  \* the saves under way, [body, at, mine], those of forms that are gone among them
          frozen,    \* saved, and not read again since
          inserted,  \* keys of the rows stored as new entries by a save that was answered
          added      \* rows ever added

dictionaryVars ==
  <<family, entries, minted, cached, page, rows, base, requests, frozen, inserted, added>>

Fold(value) == IF value = "A" THEN "a" ELSE value

toFormValues(list) ==
  [n \in DOMAIN list |-> [key |-> 0, id |-> list[n].id, value |-> list[n].value, isDefault |-> list[n].isDefault]]
emptyEntryDraft(key) == [key |-> key, id |-> None, value |-> "", isDefault |-> FALSE]
toUpdateBody(drafts) ==
  [n \in DOMAIN drafts |-> [drafts[n] EXCEPT !.value = Fold(@), !.isDefault = family = "namespaces" /\ @]]

\* Mutant: duplicates are compared as typed.
IssueAsTyped(drafts, n) == drafts[n].value = "" \/ \E m \in 1 .. n - 1 : drafts[m].value = drafts[n].value
RowIssue(drafts, n) ==
  \/ Fold(drafts[n].value) = ""
  \/ \E m \in 1 .. n - 1 : Fold(drafts[m].value) = Fold(drafts[n].value)

missingDefault(drafts) == family = "namespaces" /\ drafts # <<>> /\ \A n \in DOMAIN drafts : ~drafts[n].isDefault

isDirty == rows # base

DictionaryInit ==
  /\ family \in Families
  /\ entries \in {<<>>, <<[id |-> 1, value |-> "a", isDefault |-> family = "namespaces"]>>}
  /\ minted = Len(entries)
  /\ cached = entries
  /\ page = "away" /\ rows = <<>> /\ base = <<>>
  /\ requests = {} /\ frozen = FALSE
  /\ inserted = {} /\ added = 0

Seeded(list) == rows' = toFormValues(list) /\ base' = toFormValues(list)
Unseeded == rows' = <<>> /\ base' = <<>>
Disowned == {[r EXCEPT !.mine = FALSE] : r \in requests}

\* The page shows the list it has at once, and reads it again behind the form.
Open ==
  /\ page = "away" /\ page' = "open"
  /\ Seeded(cached) /\ frozen' = FALSE
  /\ UNCHANGED <<family, entries, minted, cached, requests, inserted, added>>

Leave ==
  /\ page # "away" /\ page' = "away"
  /\ Unseeded /\ frozen' = FALSE /\ requests' = Disowned
  /\ UNCHANGED <<family, entries, minted, cached, inserted, added>>

\* A read changes no form that is open; after a failed one, which took the form away, it
\* brings a form back.
Reread ==
  /\ cached # entries \/ page = "failed"
  /\ cached' = entries
  /\ IF page = "failed" THEN page' = "open" /\ Seeded(entries) ELSE UNCHANGED <<page, rows, base>>
  /\ UNCHANGED <<family, entries, minted, requests, frozen, inserted, added>>

RereadFails ==
  /\ page = "open" /\ page' = "failed"
  /\ Unseeded /\ frozen' = FALSE /\ requests' = Disowned
  /\ UNCHANGED <<family, entries, minted, cached, inserted, added>>

\* The rows stay editable while a save is under way, and when frozen.
Edit ==
  /\ page = "open"
  /\ \/ \E n \in DOMAIN rows, v \in Texts : v # rows[n].value /\ rows' = [rows EXCEPT ![n].value = v]
     \/ \E n \in 1 .. Len(rows) - 1 : rows' = [rows EXCEPT ![n] = rows[n + 1], ![n + 1] = rows[n]]
     \/ \E n \in DOMAIN rows : rows' = RemoveAt(rows, n)
     \/ \E n \in DOMAIN rows :
          family = "namespaces" /\ ~rows[n].isDefault /\ rows' = [m \in DOMAIN rows |-> [rows[m] EXCEPT !.isDefault = m = n]]
  /\ UNCHANGED <<family, entries, minted, cached, page, base, requests, frozen, inserted, added>>

AddRow ==
  /\ page = "open" /\ added < MaxKeys /\ added' = added + 1
  /\ rows' = Append(rows, emptyEntryDraft(added'))
  /\ UNCHANGED <<family, entries, minted, cached, page, base, requests, frozen, inserted>>

submitting == \E r \in requests : r.mine

Sendable == page = "open" /\ isDirty /\ ~frozen /\ ~submitting

\* One save at a time from one form, whatever a form that is gone has left behind.
Submit ==
  /\ Sendable /\ Cardinality(requests) < MaxRequests
  /\ \A n \in DOMAIN rows : ~RowIssue(rows, n)
  /\ ~missingDefault(rows)
  /\ requests' = requests \cup {[body |-> toUpdateBody(rows), at |-> "sent", mine |-> TRUE]}
  /\ UNCHANGED <<family, entries, minted, cached, page, rows, base, frozen, inserted, added>>

discard ==
  /\ Sendable
  /\ rows' = base
  /\ UNCHANGED <<family, entries, minted, cached, page, base, requests, frozen, inserted, added>>

\* The document rules of the server, and the entries it still has.
WellFormed(body) ==
  /\ \A n \in DOMAIN body : body[n].value \in {"a", "b"}
  /\ \A n, m \in DOMAIN body : n # m => body[n].value # body[m].value
  /\ Cardinality({n \in DOMAIN body : body[n].isDefault}) = IF family = "namespaces" /\ body # <<>> THEN 1 ELSE 0

Accepts(body) ==
  WellFormed(body) /\ {body[n].id : n \in DOMAIN body} \subseteq {entries[n].id : n \in DOMAIN entries} \cup {None}

\* The list is replaced: rows without an id are minted one.
Replaced(body) ==
  [n \in DOMAIN body |->
     [id |-> IF body[n].id # None THEN body[n].id
             ELSE minted + Cardinality({m \in 1 .. n : body[m].id = None}),
      value |-> body[n].value, isDefault |-> body[n].isDefault]]

NewRows(body) == {n \in DOMAIN body : body[n].id = None}

\* Stored, and answered or not; or refused, or never arrived.
Store(r) ==
  \E heard \in BOOLEAN :
    /\ Accepts(r.body) /\ minted + Cardinality(NewRows(r.body)) <= MaxIds
    /\ entries' = Replaced(r.body)
    /\ minted' = minted + Cardinality(NewRows(r.body))
    /\ inserted' = IF heard THEN inserted \cup {r.body[n].key : n \in NewRows(r.body)} ELSE inserted
    /\ requests' = (requests \ {r}) \cup (IF heard THEN {[r EXCEPT !.at = "stored"]} ELSE {})

Answered(r) ==
  /\ r.at = "sent"
  /\ Store(r) \/ (requests' = requests \ {r} /\ UNCHANGED <<entries, minted, inserted>>)
  /\ UNCHANGED <<family, cached, page, rows, base, frozen, added>>

\* The list is read again, and the form seeded from it; or the form freezes.
Reseeded(r) ==
  /\ r.at = "stored" /\ requests' = requests \ {r}
  /\ \/ /\ cached' = entries
        /\ IF r.mine THEN Seeded(entries) ELSE UNCHANGED <<rows, base>>
        /\ UNCHANGED frozen
     \/ frozen' = (frozen \/ r.mine) /\ UNCHANGED <<cached, rows, base>>
  /\ UNCHANGED <<family, entries, minted, page, inserted, added>>

\* The button of a frozen form.
Reload ==
  /\ frozen /\ page = "open" /\ frozen' = FALSE
  /\ cached' = entries /\ Seeded(entries)
  /\ UNCHANGED <<family, entries, minted, page, requests, inserted, added>>

WrittenElsewhere ==
  /\ \/ /\ entries = <<>> /\ minted < MaxIds /\ minted' = minted + 1
        /\ entries' = <<[id |-> minted', value |-> "a", isDefault |-> family = "namespaces"]>>
     \/ entries # <<>> /\ entries' = <<>> /\ UNCHANGED minted
  /\ UNCHANGED <<family, cached, page, rows, base, requests, frozen, inserted, added>>

DictionaryNext ==
  \/ Open \/ Leave \/ Reread \/ RereadFails \/ Edit \/ AddRow \/ Submit \/ discard
  \/ (\E r \in requests : Answered(r) \/ Reseeded(r)) \/ Reload \/ WrittenElsewhere

DictionarySpec == DictionaryInit /\ [][DictionaryNext]_dictionaryVars

-----------------------------------------------------------------------------
\* A row typed once becomes one entry: no save that is stored carries, as new, a row that an
\* earlier one stored, unless nobody heard of that ("a resubmit must rename, not insert twice").
RowsAreStoredOnce ==
  \A r \in requests :
    Answered(r) /\ entries' # entries =>
      \A n \in NewRows(r.body) : r.body[n].key \notin inserted

\* What is sent is never a document the server refuses by its own rules (namespaceFormValidation).
SentIsWellFormed == \A r \in requests : WellFormed(r.body)
=============================================================================
