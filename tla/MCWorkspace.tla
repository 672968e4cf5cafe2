----------------------------- MODULE MCWorkspace -----------------------------
(***************************************************************************)
(* Small instances for TLC of what is read in one step and written in a    *)
(* later one: a behaviour is one of OntologyReads, lists among writers, of *)
(* EntityImport, a batch among other users' writes, or of CatalogFiles,    *)
(* whose clients write at the revision they read; the other parts rest.    *)
(***************************************************************************)
EXTENDS OntologyReads, CatalogFiles, EntityImport, TLC

VARIABLE part

Empty == [r \in Rows |-> NoRow]

\* A document spelled the one way.
Plain(d) == \A name \in {d.name} \cup References(d) : name[2] = 1

Required == {d \in Documents : ~MissingRequired(d)}
PlainDocuments == {d \in Required : Plain(d)}

\* No row, or at most two with a system, always the same, first.
OneSystem(es) == es # Empty => Key(es[1].name) = CHOOSE s \in Systems : TRUE
Held(n) == {es \in Workspaces(n, PlainDocuments) : OneSystem(es)}

\* Other users save a system, which may name a component, or a component of a system.
SomeEdits ==
  [name : Systems \X {1}, must : {Absent}, may : (Components \X {1}) \cup {Absent}]
    \cup [name : Components \X {1}, must : Systems \X {1}, may : {Absent}]

WithoutGuards(b) == [i \in DOMAIN b |-> Absent]

\* Three documents and at most a row, with nobody else about.
LongBatch ==
  \E b \in [1 .. 3 -> PlainDocuments], es \in Held(1), replace \in BOOLEAN :
    /\ replace \/ es # Empty
    /\ Start(es, b, replace, WithoutGuards(b)) /\ disturbances = 0

\* Two documents and another user, or a failure.
BusyBatch ==
  \E b \in [1 .. 2 -> PlainDocuments], es \in Held(2) :
    /\ Key(b[1].name) # Key(b[2].name) /\ \A r \in Active(es) : es[r].may = Absent
    /\ \E guards \in {Versions(es, b), WithoutGuards(b)} : Start(es, b, TRUE, guards)
    /\ disturbances = MaxDisturbances

\* Two documents spelled either way.
RespelledBatch ==
  \E b \in [1 .. 2 -> Required], es \in Held(1) :
    Start(es, b, TRUE, Versions(es, b)) /\ disturbances = 0

NoImport == Start(Empty, <<>>, FALSE, <<>>) /\ disturbances = 0
NoCatalog ==
  /\ files = [id \in Ids |-> NoFile] /\ events = [id \in Ids |-> <<>>] /\ now = 0
  /\ rowLock = [id \in Ids |-> Nil] /\ inFlight = [c \in Clients |-> NoRequest]

MCInit ==
  \/ part = "lists" /\ ReadsInit /\ NoImport /\ NoCatalog
  \/ part = "imports" /\ ReadsInit /\ (LongBatch \/ BusyBatch \/ RespelledBatch) /\ NoCatalog
  \/ part = "catalog" /\ ReadsInit /\ NoImport /\ FilesInit

MCNext ==
  \/ part = "lists" /\ ReadsNext /\ UNCHANGED <<part, importVars, filesVars>>
  \/ part = "imports" /\ ImportNext /\ UNCHANGED <<part, allVars, filesVars>>
  \/ part = "catalog" /\ FilesNext /\ UNCHANGED <<part, allVars, importVars>>

MCSpec == MCInit /\ [][MCNext]_<<part, allVars, importVars, filesVars>>

-----------------------------------------------------------------------------
(* Properties *)

\* What a batch reports is true: a row reported CREATED or UPDATED is stored whole, the
\* references deferred to the second pass included (pass2Entity); and when nobody
\* interferes, what the plan, and so the dry run, predicts happens (planEntityImport).
ReportsAreTrue == NeverSilentlyPartial /\ PlanIsKept
=============================================================================
