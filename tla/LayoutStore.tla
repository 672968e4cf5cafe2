----------------------------- MODULE LayoutStore -----------------------------
(***************************************************************************)
(* What the saver of the graph layout promises about one account's         *)
(* document: the stored document only moves forward along the edits of the *)
(* page, and the page says that nothing is pending only when it is stored. *)
(* Once a write was abandoned on its way (the page's session ended, or its *)
(* deadline passed) nothing is promised of that document.                  *)
(***************************************************************************)
EXTENDS Naturals

CONSTANT NoDocument

VARIABLES
    stored,     \* the document the server holds: the number of the edit that made it
    edited,     \* the document the page shows, or NoDocument
    clean,      \* the page shows a document and says that nothing is pending
    abandoned   \* a write was given up while it may still reach the server

vars == <<stored, edited, clean, abandoned>>

Init == stored = 0 /\ edited = NoDocument /\ ~clean /\ ~abandoned

Shown == edited # NoDocument

Open == edited' = stored /\ clean' /\ UNCHANGED <<stored, abandoned>>
Edit == Shown /\ edited' # NoDocument /\ edited' > edited /\ clean' = FALSE /\ UNCHANGED <<stored, abandoned>>
Write == Shown /\ stored' \in stored .. edited /\ UNCHANGED <<edited, clean, abandoned>>
Settle == Shown /\ clean' \in BOOLEAN /\ (clean' => stored = edited) /\ UNCHANGED <<stored, edited, abandoned>>
Close == edited' = NoDocument /\ clean' = FALSE /\ UNCHANGED stored /\ abandoned' \in {abandoned, TRUE}
Abandon == abandoned' /\ clean' = FALSE /\ UNCHANGED <<stored, edited>>

Next ==
    \/ Open \/ Edit \/ Write \/ Settle \/ Close \/ Abandon
    \/ abandoned /\ abandoned'

Spec == Init /\ [][Next]_vars
=============================================================================
