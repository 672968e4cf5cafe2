---------------------------- MODULE RegistryModals ----------------------------
(***************************************************************************)
(* The registries edited one row at a time (labels, tag categories, types, *)
(* annotation keys): a list, one modal to create or edit a row, and the    *)
(* vocabulary of its failures.  The modal can be dismissed while its save  *)
(* is under way; the answer then meets whatever the page shows by then.    *)
(***************************************************************************)
EXTENDS Naturals, Sequences, FiniteSets, Functions

CONSTANTS Families,   \* subset of {"labels", "tags", "types", "annotations"}
          Ids,        \* identifiers of rows, positive numbers
          Contents,   \* what may be typed: [key, items, kinds]
          MaxMounts,  \* modals ever opened
          None

VARIABLES family,
          stored,     \* per row, its content, or None
          listed,     \* the same, as the page last read it
          target,     \* the modal: None, New or the row it edits
          typed,      \* the content of its form
          mount,      \* modals opened so far
          submitting, \* its button loads
          problem,    \* None, "field" (the conflict, at its control) or "alert"
          saves       \* saves under way: [id, body, mount]

\* The row that has no identifier yet.
New == 0

modalVars == <<family, stored, listed, target, typed, mount, submitting, problem, saves>>

-----------------------------------------------------------------------------
(* The forms.  Texts are folded to lower case, and stored as they are typed. *)

Fold(text) == CASE text = "A" -> "a" [] text = " " -> "" [] OTHER -> text

HasItems == family # "annotations"
HasKinds == family # "types"

Unique(items) == IsInjective([n \in DOMAIN items |-> Fold(items[n])])

keyRule(content) == Fold(content.key) # ""
itemsRule(content) ==
  HasItems => /\ content.items # <<>>
              /\ \A n \in DOMAIN content.items : Fold(content.items[n]) # ""
              /\ Unique(content.items)
kindsRule(content) == HasKinds => content.kinds # {}

Valid(content) == keyRule(content) /\ itemsRule(content) /\ kindsRule(content)

Blank == [key |-> "", items |-> <<>>, kinds |-> {}]
toFormValues(content) == content
toBody(content) ==
  [content EXCEPT !.items = IF HasItems THEN @ ELSE <<>>, !.kinds = IF HasKinds THEN @ ELSE {}]

-----------------------------------------------------------------------------
ModalInit ==
  /\ family \in Families
  /\ stored \in [Ids -> {None} \cup {toBody(c) : c \in {d \in Contents : Valid(d)}}]
  /\ \A i, j \in Ids : i # j /\ stored[i] # None /\ stored[j] # None => stored[i].key # stored[j].key
  /\ family = "tags" => Cardinality({i \in Ids : stored[i] # None}) < 2
  /\ listed = stored
  /\ target = None /\ typed = Blank /\ mount = 0
  /\ submitting = FALSE /\ problem = None
  /\ saves = {}

Mounted(t, content) ==
  target' = t /\ typed' = content /\ mount' = mount + 1 /\ submitting' = FALSE /\ problem' = None

Unmounted == target' = None /\ typed' = Blank /\ submitting' = FALSE /\ problem' = None

Open ==
  /\ target = None /\ mount < MaxMounts
  /\ \/ Mounted(New, Blank)
     \/ \E i \in Ids : listed[i] # None /\ Mounted(i, toFormValues(listed[i]))
  /\ UNCHANGED <<family, stored, listed, saves>>

Type ==
  /\ target # None
  /\ \E c \in Contents : c # typed /\ typed' = c
  /\ UNCHANGED <<family, stored, listed, target, mount, submitting, problem, saves>>

\* Escape, the backdrop and the cross work during a save; the button Cancel does not.
Dismiss ==
  /\ target # None /\ Unmounted
  /\ UNCHANGED <<family, stored, listed, mount, saves>>

save ==
  /\ target # None /\ ~submitting /\ Valid(typed)
  /\ submitting' = TRUE /\ problem' = None
  /\ saves' = saves \cup {[id |-> target, body |-> toBody(typed), mount |-> mount]}
  /\ UNCHANGED <<family, stored, listed, target, typed, mount>>

\* The rules of the server on a body, and on it beside the other rows.
WellFormed(body) ==
  /\ body.key \notin {"", " "} /\ (HasKinds => body.kinds # {})
  /\ HasItems => /\ body.items # <<>>
                 /\ Cardinality({Fold(t) : t \in Range(body.items)} \ {""}) = Len(body.items)

Conflicts(id, body) ==
  \E i \in Ids \ {id} :
    /\ stored[i] # None
    /\ \/ stored[i].key = body.key
       \/ /\ family = "tags"
          /\ {Fold(t) : t \in Range(stored[i].items)} \cap {Fold(t) : t \in Range(body.items)} # {}

Places(id) == IF id = New THEN {i \in Ids : stored[i] = None} ELSE {i \in {id} : stored[i] # None}

\* Stored: the modal that is open by now closes, whichever it is, and the list is read again.
Saved(s) ==
  /\ WellFormed(s.body) /\ ~Conflicts(s.id, s.body)
  /\ \E i \in Places(s.id) : stored' = [stored EXCEPT ![i] = s.body]
  /\ Unmounted
  /\ UNCHANGED <<family, listed, mount>>

\* Refused, or the answer lost: told by the modal that sent it, when it is still there.
Failed(s) ==
  /\ \E p \in {"alert"} \cup (IF family = "types" /\ Conflicts(s.id, s.body) THEN {"field"} ELSE {}) :
       IF s.mount = mount /\ target # None
       THEN submitting' = FALSE /\ problem' = p
       ELSE UNCHANGED <<submitting, problem>>
  /\ UNCHANGED <<family, stored, listed, target, typed, mount>>

Answered ==
  \E s \in saves : saves' = saves \ {s} /\ (Saved(s) \/ Failed(s))

Reread ==
  /\ listed # stored /\ listed' = stored
  /\ UNCHANGED <<family, stored, target, typed, mount, submitting, problem, saves>>

Deleted ==
  /\ \E i \in Ids : stored[i] # None /\ stored' = [stored EXCEPT ![i] = None]
  /\ UNCHANGED <<family, listed, target, typed, mount, submitting, problem, saves>>

ModalNext ==
  \/ Open \/ Type \/ Dismiss \/ save \/ Answered \/ Reread \/ Deleted

ModalSpec == ModalInit /\ [][ModalNext]_modalVars

-----------------------------------------------------------------------------
\* A button that loads has its own save under way; and no save is one the server refuses
\* without looking at the other rows ("mirrors the server's checks").
SavesAreOwnAndWellFormed ==
  /\ submitting => \E s \in saves : s.mount = mount
  /\ \A s \in saves : WellFormed(s.body)
=============================================================================
