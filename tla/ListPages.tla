------------------------------- MODULE ListPages ------------------------------
(***************************************************************************)
(* The tables of the client: catalog files, entities and users are read a  *)
(* page at a time under a sort and filters, the rows of the page before    *)
(* standing in until an answer arrives; blueprints are read whole.  A row  *)
(* is deleted in a dialog that holds the row as it was listed.             *)
(***************************************************************************)
EXTENDS Integers, Sequences, FiniteSets, SequencesExt, FiniteSetsExt

CONSTANTS Tables,       \* subset of {"files", "entities", "users"}
          Ids,          \* identifiers of rows, numbers
          Sizes,        \* page sizes offered, numbers
          Filters,      \* filters, each the set of identifiers it lets through
          MaxRevision, None

VARIABLES table, stored,  \* per row, its revision, or 0 when it is gone
          askable,        \* a blueprint, or a kind, is chosen
          query,          \* [page, size, field, dir, filter]
          data,           \* the answer shown: its query, its rows and the total
          failed,         \* the read failed
          dialog          \* the delete dialog: its row, and how its request stands

listVars == <<table, stored, askable, query, data, failed, dialog>>

Smallest == CHOOSE s \in Sizes : \A r \in Sizes : s <= r

Closed == [row |-> None, state |-> "closed"]

\* Stored paging is believed only within the sort fields and sizes of the view.
ReadStoredPaging == [field : {"name", "other"}, dir : {"asc", "desc"}, size : Sizes]

ListInit ==
  /\ table \in Tables
  /\ stored = [i \in Ids |-> 1]
  /\ askable \in BOOLEAN
  /\ table = "users" => askable
  /\ \E s \in ReadStoredPaging, f \in Filters :
       query = [page |-> 1, size |-> s.size, field |-> s.field, dir |-> s.dir, filter |-> f]
  /\ data = None
  /\ failed = FALSE
  /\ dialog = Closed

\* What the server answers: the rows that pass, in order, cut to the page.
Answer(q) ==
  LET passing == {i \in q.filter : stored[i] > 0}
      order == SetToSortSeq(passing, LAMBDA i, j : IF (q.field = "name") = (q.dir = "asc") THEN i < j ELSE i > j)
      first == (q.page - 1) * q.size + 1
      shown == SubSeq(order, first, IF first + q.size - 1 < Len(order) THEN first + q.size - 1 ELSE Len(order)) IN
  [of |-> q, rows |-> [n \in DOMAIN shown |-> [id |-> shown[n], revision |-> stored[shown[n]]]], total |-> Cardinality(passing)]

\* The rows on the page: none while nothing can be asked, whatever was read before.
Shown == IF askable THEN data ELSE None

isLoading == askable /\ data = None /\ ~failed

\* What the body of the table shows.
TableBody ==
  IF table = "entities" /\ ~askable THEN "pick"
  ELSE IF isLoading THEN "loading"
  ELSE IF Shown # None /\ Shown.rows # <<>> THEN "rows"
  ELSE IF ~failed THEN "empty" ELSE "nothing"

TotalPages ==
  LET total == IF Shown = None THEN 0 ELSE Shown.total
      pages == (total + query.size - 1) \div query.size IN
  IF pages < 1 THEN 1 ELSE pages

\* Another filter or sort starts over at the first page; so does another page size.
SetFilter ==
  /\ dialog = Closed
  /\ \E f \in Filters : f # query.filter /\ query' = [query EXCEPT !.filter = f, !.page = 1]
  /\ failed' = FALSE
  /\ UNCHANGED <<table, stored, askable, data, dialog>>

toggleSort ==
  /\ dialog = Closed
  /\ \E f \in {"name", "other"} :
       query' = IF f = query.field THEN [query EXCEPT !.dir = IF @ = "asc" THEN "desc" ELSE "asc", !.page = 1]
                ELSE [query EXCEPT !.field = f, !.dir = "asc", !.page = 1]
  /\ failed' = FALSE
  /\ UNCHANGED <<table, stored, askable, data, dialog>>

changePageSize ==
  /\ dialog = Closed
  /\ \E s \in Sizes : s # query.size /\ query' = [query EXCEPT !.size = s, !.page = 1]
  /\ failed' = FALSE
  /\ UNCHANGED <<table, stored, askable, data, dialog>>

setPage ==
  /\ dialog = Closed
  /\ \E p \in 1 .. TotalPages : p # query.page /\ query' = [query EXCEPT !.page = p]
  /\ failed' = FALSE
  /\ UNCHANGED <<table, stored, askable, data, dialog>>

\* The blueprint is picked or cleared; the last kind is switched off or back on.
Choose ==
  /\ dialog = Closed /\ table # "users"
  /\ askable' = ~askable /\ failed' = FALSE
  /\ query' = [query EXCEPT !.page = 1]
  /\ UNCHANGED <<table, stored, data, dialog>>

\* A read succeeds; or fails, and a query without an answer of its own shows no rows.
Read ==
  /\ askable
  /\ \/ data' = Answer(query) /\ failed' = FALSE
     \/ failed' = TRUE /\ data' = IF data # None /\ data.of = query THEN data ELSE None
  /\ UNCHANGED <<table, stored, askable, query, dialog>>

requestDelete ==
  /\ dialog = Closed /\ TableBody = "rows"
  /\ \E n \in DOMAIN Shown.rows : dialog' = [row |-> Shown.rows[n], state |-> "idle"]
  /\ UNCHANGED <<table, stored, askable, query, data, failed>>

cancelDelete ==
  /\ dialog.state \in {"idle", "failed"}
  /\ dialog' = Closed
  /\ UNCHANGED <<table, stored, askable, query, data, failed>>

confirmDelete ==
  /\ dialog.state \in {"idle", "failed"}
  /\ dialog' = [dialog EXCEPT !.state = "pending"]
  /\ UNCHANGED <<table, stored, askable, query, data, failed>>

\* The server deletes a file only at the revision sent, anything else by its id.
Accepts(row) == stored[row.id] > 0 /\ (table = "files" => stored[row.id] = row.revision)

\* Deleted: the dialog closes and the list is read again.  Refused, or the answer is lost:
\* the dialog stays, with its row; a conflict reads the list again behind it.
Deleted ==
  /\ dialog.state = "pending"
  /\ \/ /\ Accepts(dialog.row)
        /\ stored' = [stored EXCEPT ![dialog.row.id] = 0]
        /\ dialog' = Closed
        /\ UNCHANGED <<data, failed>>
     \/ /\ Accepts(dialog.row)
        /\ stored' = [stored EXCEPT ![dialog.row.id] = 0]
        /\ dialog' = [dialog EXCEPT !.state = "failed"]
        /\ UNCHANGED <<data, failed>>
     \/ /\ dialog' = [dialog EXCEPT !.state = "failed"]
        /\ UNCHANGED <<stored, data, failed>>
  /\ UNCHANGED <<table, askable, query>>

WrittenElsewhere ==
  /\ \E i \in Ids :
       \/ stored[i] \in 1 .. MaxRevision - 1 /\ stored' = [stored EXCEPT ![i] = @ + 1]
       \/ stored[i] > 0 /\ stored' = [stored EXCEPT ![i] = 0]
  /\ UNCHANGED <<table, askable, query, data, failed, dialog>>

ListNext ==
  \/ SetFilter \/ toggleSort \/ changePageSize \/ setPage \/ Choose \/ Read
  \/ requestDelete \/ cancelDelete \/ confirmDelete \/ Deleted \/ WrittenElsewhere

ListSpec == ListInit /\ [][ListNext]_listVars

-----------------------------------------------------------------------------
\* A catalog file goes by this page only as its user saw it listed.
DeletesAsSeen ==
  (Deleted /\ stored' # stored /\ table = "files") => stored[dialog.row.id] = dialog.row.revision

\* While nothing can be asked no row is offered, and a table that says it is empty is
\* either not asking or saying what a server answered.
EmptyIsAnAnswer ==
  /\ ~askable => TableBody # "rows"
  /\ TableBody = "empty" => ~askable \/ (data # None /\ data.rows = <<>>)
=============================================================================
