------------------------------ MODULE SavedViews ------------------------------
(***************************************************************************)
(* The pickers of saved views: lenses of the catalog pages and saved       *)
(* entity queries, which keep the same state.  The rows are the account's  *)
(* own and public ones of others; the picker works on a list read earlier, *)
(* while the owner of a row may write it elsewhere.                        *)
(***************************************************************************)
EXTENDS Naturals

CONSTANTS Kinds, Contents, Ids, Me, Other, Nobody,
          InFlight        \* bound: writes under way at once

VARIABLES picker,      \* "lens" or "query"
          rows,        \* rows the server holds
          held,        \* per row, every content it has had
          list,        \* the list the picker has read
          current,     \* the filters, or the draft, on the page
          picked,      \* the row selected
          dialog,      \* "closed", "new", "edit", "delete", with its row and the write it awaits
          request      \* the writes under way

viewVars == <<picker, rows, held, list, current, picked, dialog, request>>

\* Rows the account may see: its own, and public ones of others.
Rows == [owner : {Me, Other}, content : Contents]

Closed == [shows |-> "closed", of |-> Nobody, awaits |-> Nobody]

ViewInit ==
  /\ picker \in Kinds
  /\ \E rs \in [Ids -> Rows] : rows = [i \in {1} |-> rs[1]]
  /\ held = [i \in Ids |-> IF i = 1 THEN {rows[1].content} ELSE {}]
  /\ list = rows
  /\ current \in Contents
  /\ picked = Nobody
  /\ dialog = Closed
  /\ request = [n \in InFlight |-> Nobody]

Selected == IF picked \in DOMAIN list THEN list[picked] ELSE Nobody
Owned == Selected # Nobody /\ Selected.owner = Me
Modified == Selected # Nobody /\ current # Selected.content

\* Picking applies the content at once.  A lens picked again is let go; a saved query
\* is not, and forgetting either leaves the page as it is.
Pick ==
  /\ dialog = Closed
  /\ \/ \E i \in DOMAIN list : picked' = i /\ current' = list[i].content /\ (picker = "query" => picked # i)
     \/ picked # Nobody /\ picked' = Nobody /\ UNCHANGED current
  /\ UNCHANGED <<picker, rows, held, list, dialog, request>>

ChangePage ==
  /\ dialog = Closed
  /\ \E c \in Contents : c # current /\ current' = c
  /\ UNCHANGED <<picker, rows, held, list, picked, dialog, request>>

Send(n, what, id, content) ==
  /\ request[n] = Nobody
  /\ request' = [request EXCEPT ![n] = [what |-> what, id |-> id, content |-> content, answer |-> "none"]]

\* Nothing keeps the page from saving again before the first write is answered.
SaveChanges ==
  /\ Owned /\ Modified /\ dialog = Closed
  /\ \E n \in InFlight : Send(n, "update", picked, current)
  /\ UNCHANGED <<picker, rows, held, list, current, picked, dialog>>

\* Bound: a dialog opens while there is a slot for its write.
OpenDialog ==
  /\ dialog = Closed
  /\ \E n \in InFlight : request[n] = Nobody
  /\ \E shows \in {"new"} \cup (IF Owned THEN {"edit", "delete"} ELSE {}) :
       dialog' = [shows |-> shows, of |-> IF shows = "new" THEN Nobody ELSE [id |-> picked, content |-> IF shows = "edit" THEN Selected.content ELSE Nobody],
                  awaits |-> Nobody]
  /\ UNCHANGED <<picker, rows, held, list, current, picked, request>>

\* An editor can be closed over its write, a confirmation of a delete cannot.
CloseDialog ==
  /\ dialog # Closed
  /\ dialog.shows = "delete" => dialog.awaits = Nobody
  /\ dialog' = Closed
  /\ UNCHANGED <<picker, rows, held, list, current, picked, request>>

\* Create stores the page's content, edit keeps the content of the row it was opened on.
EditorContent == IF dialog.shows = "new" THEN current ELSE dialog.of.content

SaveDialog ==
  /\ dialog.shows \in {"new", "edit"} /\ dialog.awaits = Nobody
  /\ \E n \in InFlight :
       /\ Send(n, IF dialog.shows = "new" THEN "create" ELSE "rename", IF dialog.shows = "new" THEN Nobody ELSE dialog.of.id, EditorContent)
       /\ dialog' = [dialog EXCEPT !.awaits = n]
  /\ UNCHANGED <<picker, rows, held, list, current, picked>>

ConfirmDelete ==
  /\ dialog.shows = "delete" /\ dialog.awaits = Nobody
  /\ \E n \in InFlight : Send(n, "delete", dialog.of.id, Nobody) /\ dialog' = [dialog EXCEPT !.awaits = n]
  /\ UNCHANGED <<picker, rows, held, list, current, picked>>

Store(id, row) ==
  /\ rows' = [i \in DOMAIN rows \cup {id} |-> IF i = id THEN row ELSE rows[i]]
  /\ held' = [held EXCEPT ![id] = @ \cup {row.content}]

\* The server writes a row of its owner; a row that is gone answers with an error, and its
\* number is not given again.
Serve ==
  /\ \E n \in InFlight :
       LET w == request[n]
           answer(id, said) == request' = [request EXCEPT ![n] = [w EXCEPT !.id = id, !.content = Nobody, !.answer = said]] IN
       /\ w # Nobody /\ w.answer = "none"
       /\ \/ /\ w.what = "create"
             /\ \E id \in Ids : held[id] = {} /\ Store(id, [owner |-> Me, content |-> w.content]) /\ answer(id, "ok")
          \/ /\ w.what \in {"update", "rename"} /\ w.id \in DOMAIN rows
             /\ Store(w.id, [owner |-> Me, content |-> w.content])
             /\ (w.what = "update" /\ answer(Nobody, "ok")) \/ (w.what = "rename" /\ answer(w.id, "ok"))
          \/ /\ w.what = "delete" /\ w.id \in DOMAIN rows
             /\ rows' = [i \in DOMAIN rows \ {w.id} |-> rows[i]]
             /\ answer(Nobody, "ok")
             /\ UNCHANGED held
          \/ answer(Nobody, "failed") /\ UNCHANGED <<rows, held>>
  /\ UNCHANGED <<picker, list, current, picked, dialog>>

\* A row saved is selected, a row deleted is not; the list is read anew.  The answer of an
\* editor that was closed closes the one that is open by then.
Answered ==
  /\ \E n \in InFlight :
       LET w == request[n] IN
       /\ w # Nobody /\ w.answer # "none"
       /\ request' = [request EXCEPT ![n] = Nobody]
       /\ IF w.answer = "failed"
            THEN dialog' = (IF dialog.awaits = n THEN [dialog EXCEPT !.awaits = Nobody] ELSE dialog) /\ UNCHANGED picked
            ELSE /\ picked' = CASE w.what \in {"create", "rename"} -> w.id
                                 [] w.what = "delete" -> Nobody
                                 [] OTHER -> picked
                 /\ dialog' = IF w.what = "update" \/ (w.what # "delete" /\ dialog.shows = "delete") THEN dialog ELSE Closed
  /\ UNCHANGED <<picker, rows, held, list, current>>

ListRead ==
  /\ list # rows
  /\ list' = rows
  /\ UNCHANGED <<picker, rows, held, current, picked, dialog, request>>

\* The owner of a row writes it in another tab, or takes it away.
WrittenElsewhere ==
  /\ \/ \E i \in DOMAIN rows, r \in Rows : r = [rows[i] EXCEPT !.content = r.content] /\ r # rows[i] /\ Store(i, r)
     \/ \E i \in DOMAIN rows : rows' = [j \in DOMAIN rows \ {i} |-> rows[j]] /\ UNCHANGED held
  /\ UNCHANGED <<picker, list, current, picked, dialog, request>>

ViewNext ==
  \/ Pick
  \/ ChangePage
  \/ SaveChanges
  \/ OpenDialog
  \/ CloseDialog
  \/ SaveDialog
  \/ ConfirmDelete
  \/ Serve
  \/ Answered
  \/ ListRead
  \/ WrittenElsewhere

ViewSpec == ViewInit /\ [][ViewNext]_viewVars

-----------------------------------------------------------------------------
(* Properties *)

\* A rename never gives a row a content it has not had: the diverged page is not taken
\* along, whatever else was written meanwhile; only the owner's rows are ever written.
RenamesKeepContent ==
  \A n \in InFlight :
    LET w == request[n] IN
    w # Nobody /\ w.answer = "none" /\ w.what # "create" =>
      /\ w.what = "rename" => w.content \in held[w.id]
      /\ w.id \in DOMAIN rows => rows[w.id].owner = Me

=============================================================================
