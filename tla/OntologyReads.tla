--------------------------- MODULE OntologyReads ---------------------------
(***************************************************************************)
(* The readers of the ontology beside its writers.  `read' is a READ       *)
(* COMMITTED transaction of two statements: the entity row, then the       *)
(* active blueprints it is rendered with.  `list' runs all its statements  *)
(* on one REPEATABLE READ snapshot and answers with the revision it saw.   *)
(* Readers take no lock.                                                   *)
(***************************************************************************)
EXTENDS Ontology

CONSTANT Readers   \* concurrent requests that read

VARIABLES stage,   \* where each read transaction stands
          row,     \* `read': the id of the entity row its first statement returned
          view,    \* `list': the snapshot its first statement established
          answer   \* what the request ended with

readVars == <<stage, row, view, answer>>
allVars == <<blueprints, entities, revision, pc, kind, held, ahead, plan,
             stage, row, view, answer>>

Now == [bps |-> blueprints, ents |-> entities, rev |-> revision]

NoAnswer == [as |-> "none"]

ReadsTypeOK ==
  /\ stage \in [Readers -> {"idle", "read", "list"}]
  /\ row \in [Readers -> EntityIds \cup {None}]
  /\ \A r \in Readers : view[r] # None => view[r].rev \in 0..MaxRevision
  /\ \A r \in Readers : answer[r].as \in {"none", "entity", "page", "error"}

-----------------------------------------------------------------------------
ReadsInit ==
  /\ Init
  /\ stage = [r \in Readers |-> "idle"]
  /\ row = [r \in Readers |-> None]
  /\ view = [r \in Readers |-> None]
  /\ answer = [r \in Readers |-> NoAnswer]

\* read, first statement: the active row (a missing one is the route's 404).
ReadRow(r, e) ==
  /\ stage[r] = "idle"
  /\ e \in ActiveEntities(entities)
  /\ stage' = [stage EXCEPT ![r] = "read"]
  /\ row' = [row EXCEPT ![r] = e]
  /\ answer' = [answer EXCEPT ![r] = NoAnswer]
  /\ UNCHANGED <<vars, view>>

\* read, second statement: loadActiveBlueprints, then toResponse.
ReadContext(r) ==
  /\ stage[r] = "read"
  /\ answer' = [answer EXCEPT ![r] =
       IF entities[row[r]].bp \in ActiveBlueprints(blueprints)
       THEN [as |-> "entity"] ELSE [as |-> "error"]]
  /\ stage' = [stage EXCEPT ![r] = "idle"]
  /\ row' = [row EXCEPT ![r] = None]
  /\ UNCHANGED <<vars, view>>

\* list, first statement: loadActiveBlueprints establishes the snapshot.
ListBlueprints(r) ==
  /\ stage[r] = "idle"
  /\ stage' = [stage EXCEPT ![r] = "list"]
  /\ view' = [view EXCEPT ![r] = Now]
  /\ answer' = [answer EXCEPT ![r] = NoAnswer]
  /\ UNCHANGED <<vars, row>>

\* Mutant: READ COMMITTED, a later statement reads the tables as they are.
VisibleNow(r) == Now

\* What a later statement of r's transaction reads: the snapshot.
Visible(r) == view[r]

\* list, later statements: the page rows with the revision, and the targets.
ListRows(r) ==
  /\ stage[r] = "list"
  /\ LET bps == view[r].bps
         ents == Visible(r).ents
     IN  answer' = [answer EXCEPT ![r] =
           IF \A e \in ActiveEntities(ents) : ents[e].bp \in ActiveBlueprints(bps)
           THEN [as |-> "page", bps |-> bps, ents |-> ents, rev |-> Visible(r).rev]
           ELSE [as |-> "error"]]
  /\ stage' = [stage EXCEPT ![r] = "idle"]
  /\ view' = [view EXCEPT ![r] = None]
  /\ UNCHANGED <<vars, row>>

Read(r) ==
  \/ \E e \in EntityIds : ReadRow(r, e)
  \/ ReadContext(r) \/ ListBlueprints(r) \/ ListRows(r)

ReadsNext ==
  \/ Next /\ UNCHANGED readVars
  \/ \E r \in Readers : Read(r)

ReadsSpec == ReadsInit /\ [][ReadsNext]_allVars
-----------------------------------------------------------------------------
(* Properties *)

\* Two pages with one revision were cut from one registry: while the revision a
\* page carries is the current one, its rows and definitions are the current
\* ones.  This is what a caller that walks pages relies on.
RevisionNamesContent == \A r \in Readers :
  answer[r].as = "page" /\ answer[r].rev = revision =>
    answer[r].bps = blueprints /\ answer[r].ents = entities

\* A page never carries an entity whose blueprint it does not know: `list' does
\* not fail on a registry that is being rewritten.
ListsNeverFail == \A r \in Readers : stage[r] = "list" => answer'[r].as # "error"

\* A list is one snapshot of the registry: its revision names its content, and its
\* rows never lack their definitions (ontologyReadTransaction).
ListsAreSnapshots == [][RevisionNamesContent' /\ ListsNeverFail]_allVars

\* What toResponse's comment says: a blueprint can only be deleted once its
\* active entity count is 0, so the blueprint of any active entity that was read
\* is active here.
ReadsNeverFail == \A r \in Readers : answer[r].as # "error"
=============================================================================
