------------------------------ MODULE Ontology ------------------------------
(***************************************************************************)
(* The writers of the ontology registry as the code runs them: concurrent  *)
(* READ COMMITTED transactions that first take table locks in the order    *)
(* `blueprints' before `entities', then read, decide, write and commit.    *)
(* Between any two of these steps another transaction may take a step.     *)
(*                                                                         *)
(* BlueprintService: LOCK TABLE blueprints IN SHARE ROW EXCLUSIVE MODE.    *)
(* EntityService: LOCK TABLE blueprints IN SHARE MODE, then                *)
(*                LOCK TABLE entities IN SHARE ROW EXCLUSIVE MODE.         *)
(*                                                                         *)
(* An import row and a sync from a source are creates and updates whose    *)
(* request was computed outside; they end in the same write transactions.  *)
(***************************************************************************)
EXTENDS Registry

CONSTANT Writers   \* concurrent requests that write

VARIABLES pc,      \* where each transaction stands
          kind,    \* which service opened it
          held,    \* the table locks it holds
          ahead,   \* the transactions queued before it for the lock it awaits
          plan     \* what it decided to write, and the snapshot it decided on

txVars == <<pc, kind, held, ahead, plan>>
vars == <<blueprints, entities, revision, pc, kind, held, ahead, plan>>

Tables == {"blueprints", "entities"}
Modes == {"none", "share", "shareRowExclusive"}

NoPlan == [op |-> "none"]
Unlocked == [t \in Tables |-> "none"]

\* Each operation's plan carries what its statements need.
PlanOK(p) ==
  /\ p.op \in {"none", "createBlueprint", "updateBlueprint", "deleteBlueprint",
              "createEntity", "updateEntity", "deleteEntity"}
  /\ p.op \in {"createBlueprint", "updateBlueprint"} =>
       /\ p.id \in BlueprintIds /\ p.req \in BlueprintRequest
       /\ p.snap \in [BlueprintIds -> BlueprintRow]
  /\ p.op = "deleteBlueprint" => p.id \in BlueprintIds
  /\ p.op = "createEntity" =>
       p.id \in EntityIds /\ p.bp \in BlueprintIds /\ p.req \in EntityRequest
  /\ p.op = "updateEntity" =>
       /\ p.id \in EntityIds /\ p.req \in EntityRequest
       /\ p.snap \in [BlueprintIds -> BlueprintRow]
  /\ p.op = "deleteEntity" => p.id \in EntityIds

\* Every variable has its type: rows of the two tables, lock modes, plans.
TypeOK ==
  /\ RegistryTypeOK
  /\ pc \in [Writers -> {"idle", "lockBlueprints", "lockEntities", "read", "write"}]
  /\ kind \in [Writers -> {"none", "blueprint", "entity"}]
  /\ held \in [Writers -> [Tables -> Modes]]
  /\ ahead \in [Writers -> SUBSET Writers]
  /\ DOMAIN plan = Writers
  /\ \A w \in Writers : PlanOK(plan[w])

-----------------------------------------------------------------------------
(* Table locks: granted in queue order, held until the transaction ends *)

\* SHARE is compatible with SHARE; SHARE ROW EXCLUSIVE with neither.
Conflict(m, n) ==
  /\ m # "none" /\ n # "none"
  /\ ~(m = "share" /\ n = "share")

\* Mutant: blueprint writers lock in SHARE mode as well.
SharedBlueprintsMode(k) == "share"

BlueprintsMode(k) == IF k = "blueprint" THEN "shareRowExclusive" ELSE "share"

\* Mutant: entity writers share `entities' too.
SharedEntitiesMode == "share"

EntitiesMode == "shareRowExclusive"


\* The mode in which a service locks a table.
ModeOf(k, t) == IF t = "blueprints" THEN BlueprintsMode(k) ELSE EntitiesMode

\* Granted when it conflicts with no lock held and with no request queued
\* earlier for the same table.
Grantable(w, t) ==
  LET m == ModeOf(kind[w], t)
  IN  /\ \A v \in Writers \ {w} : ~Conflict(m, held[v][t])
      /\ \A v \in ahead[w] : ~Conflict(m, ModeOf(kind[v], t))

\* w leaves the queue it was in and, if it is about to lock, joins another.
MoveTo(w, next) ==
  /\ pc' = [pc EXCEPT ![w] = next]
  /\ ahead' = [v \in Writers |->
       IF v # w THEN ahead[v] \ {w}
       ELSE {u \in Writers \ {w} : pc[u] = next /\ next \in {"lockBlueprints", "lockEntities"}}]

\* Mutant: the locks outlive the transaction.
EndTransactionKeepingLocks(w) ==
  /\ MoveTo(w, "idle")
  /\ kind' = [kind EXCEPT ![w] = "none"]
  /\ plan' = [plan EXCEPT ![w] = NoPlan]
  /\ UNCHANGED held

\* Commit or rollback: every lock is released.
EndTransaction(w) ==
  /\ MoveTo(w, "idle")
  /\ kind' = [kind EXCEPT ![w] = "none"]
  /\ held' = [held EXCEPT ![w] = Unlocked]
  /\ plan' = [plan EXCEPT ![w] = NoPlan]

-----------------------------------------------------------------------------
Init ==
  /\ RegistryInit
  /\ pc = [w \in Writers |-> "idle"]
  /\ kind = [w \in Writers |-> "none"]
  /\ held = [w \in Writers |-> Unlocked]
  /\ ahead = [w \in Writers |-> {}]
  /\ plan = [w \in Writers |-> NoPlan]

Begin(w, k) ==
  /\ pc[w] = "idle"
  /\ MoveTo(w, "lockBlueprints")
  /\ kind' = [kind EXCEPT ![w] = k]
  /\ UNCHANGED <<registryVars, held, plan>>

Lock(w, t, next) ==
  /\ Grantable(w, t)
  /\ held' = [held EXCEPT ![w][t] = ModeOf(kind[w], t)]
  /\ MoveTo(w, next)
  /\ UNCHANGED <<registryVars, kind, plan>>

LockBlueprints(w) ==
  /\ pc[w] = "lockBlueprints"
  /\ Lock(w, "blueprints", IF kind[w] = "entity" THEN "lockEntities" ELSE "read")

LockEntities(w) ==
  /\ pc[w] = "lockEntities"
  /\ Lock(w, "entities", "read")

-----------------------------------------------------------------------------
(* Reading and deciding: the accepted request becomes the plan *)

Decide(w, k, p) ==
  /\ pc[w] = "read"
  /\ kind[w] = k
  /\ revision < MaxRevision   \* bound: at the last revision every request is refused
  /\ plan' = [plan EXCEPT ![w] = p]
  /\ MoveTo(w, "write")
  /\ UNCHANGED <<registryVars, kind, held>>

DecideCreateBlueprint(w, id, req) ==
  /\ CanCreateBlueprint(blueprints, id, req)
  /\ Decide(w, "blueprint", [op |-> "createBlueprint", id |-> id, req |-> req, snap |-> blueprints])

DecideUpdateBlueprint(w, id, req) ==
  /\ CanUpdateBlueprint(blueprints, id, req)
  /\ Decide(w, "blueprint", [op |-> "updateBlueprint", id |-> id, req |-> req, snap |-> blueprints])

DecideDeleteBlueprint(w, id) ==
  /\ CanDeleteBlueprint(blueprints, entities, id)
  /\ Decide(w, "blueprint", [op |-> "deleteBlueprint", id |-> id])

DecideCreateEntity(w, id, b, req) ==
  /\ CanCreateEntity(blueprints, entities, id, b, req)
  /\ Decide(w, "entity", [op |-> "createEntity", id |-> id, bp |-> b, req |-> req])

DecideUpdateEntity(w, id, req) ==
  /\ CanUpdateEntity(blueprints, entities, id, req)
  /\ Decide(w, "entity", [op |-> "updateEntity", id |-> id, req |-> req, snap |-> blueprints])

DecideDeleteEntity(w, id) ==
  /\ CanDeleteEntity(blueprints, entities, id)
  /\ Decide(w, "entity", [op |-> "deleteEntity", id |-> id])

\* Some request is always refused (one that names a row that does not exist),
\* and a refusal rolls the transaction back.
Refuse(w) ==
  /\ pc[w] = "read"
  /\ EndTransaction(w)
  /\ UNCHANGED registryVars

-----------------------------------------------------------------------------
(* Writing: the statements and the commit; a clash with a unique index      *)
(* rolls back                                                              *)

Commit(w, op) ==
  /\ pc[w] = "write"
  /\ plan[w].op = op
  /\ bumpOntologyRevision
  /\ EndTransaction(w)

WriteCreateBlueprint(w) ==
  /\ Commit(w, "createBlueprint")
  /\ BlueprintNameFree(blueprints, plan[w].id, plan[w].req.name)
  /\ blueprints' = BlueprintInserted(blueprints, plan[w].id, plan[w].req)
  /\ UNCHANGED entities

WriteUpdateBlueprint(w) ==
  /\ Commit(w, "updateBlueprint")
  /\ blueprints[plan[w].id].st = "active"
  /\ BlueprintNameFree(blueprints, plan[w].id, plan[w].req.name)
  /\ blueprints' = BlueprintReplaced(blueprints, plan[w].snap, plan[w].id, plan[w].req)
  /\ UNCHANGED entities

WriteDeleteBlueprint(w) ==
  /\ Commit(w, "deleteBlueprint")
  /\ blueprints[plan[w].id].st = "active"
  /\ blueprints' = BlueprintDeleted(blueprints, plan[w].id)
  /\ UNCHANGED entities

WriteCreateEntity(w) ==
  /\ Commit(w, "createEntity")
  /\ EntityNameFree(entities, plan[w].id, plan[w].bp, plan[w].req.name)
  /\ entities' = EntityInserted(entities, plan[w].id, plan[w].bp, plan[w].req)
  /\ UNCHANGED blueprints

WriteUpdateEntity(w) ==
  /\ Commit(w, "updateEntity")
  /\ entities[plan[w].id].st = "active"
  /\ EntityNameFree(entities, plan[w].id, entities[plan[w].id].bp, plan[w].req.name)
  /\ entities' = EntityReplaced(entities, plan[w].snap, plan[w].id, plan[w].req)
  /\ UNCHANGED blueprints

WriteDeleteEntity(w) ==
  /\ Commit(w, "deleteEntity")
  /\ entities[plan[w].id].st = "active"
  /\ entities' = EntityDeleted(entities, plan[w].id)
  /\ UNCHANGED blueprints

\* The INSERT or UPDATE meets the partial unique index: 23505, rolled back.
UniqueViolation(w) ==
  /\ pc[w] = "write"
  /\ \/ /\ plan[w].op \in {"createBlueprint", "updateBlueprint"}
        /\ ~BlueprintNameFree(blueprints, plan[w].id, plan[w].req.name)
     \/ /\ plan[w].op = "createEntity"
        /\ ~EntityNameFree(entities, plan[w].id, plan[w].bp, plan[w].req.name)
     \/ /\ plan[w].op = "updateEntity"
        /\ ~EntityNameFree(entities, plan[w].id, entities[plan[w].id].bp, plan[w].req.name)
  /\ EndTransaction(w)
  /\ UNCHANGED registryVars

\* The statement timeout, the idle-in-transaction timeout or a lost connection
\* ends a transaction at any point; PostgreSQL rolls it back.
Abort(w) ==
  /\ pc[w] # "idle"
  /\ EndTransaction(w)
  /\ UNCHANGED registryVars

Write(w) ==
  \/ WriteCreateBlueprint(w) \/ WriteUpdateBlueprint(w) \/ WriteDeleteBlueprint(w)
  \/ WriteCreateEntity(w) \/ WriteUpdateEntity(w) \/ WriteDeleteEntity(w)
  \/ UniqueViolation(w)

Accept(w) ==
  \/ \E id \in BlueprintIds, req \in BlueprintRequest :
       DecideCreateBlueprint(w, id, req) \/ DecideUpdateBlueprint(w, id, req)
  \/ \E id \in BlueprintIds : DecideDeleteBlueprint(w, id)
  \/ \E id \in EntityIds, b \in BlueprintIds, req \in EntityRequest : DecideCreateEntity(w, id, b, req)
  \/ \E id \in EntityIds, req \in EntityRequest : DecideUpdateEntity(w, id, req)
  \/ \E id \in EntityIds : DecideDeleteEntity(w, id)

Next == \E w \in Writers :
  \/ \E k \in {"blueprint", "entity"} : Begin(w, k)
  \/ LockBlueprints(w) \/ LockEntities(w)
  \/ Accept(w) \/ Refuse(w) \/ Write(w) \/ Abort(w)

Spec == Init /\ [][Next]_vars

\* Every statement of an open transaction returns within the statement timeout
\* and PostgreSQL serves lock queues in order, so each step is eventually taken.
Fairness == \A w \in Writers :
  WF_vars(LockBlueprints(w) \/ LockEntities(w) \/ Accept(w) \/ Refuse(w) \/ Write(w))

FairSpec == Spec /\ Fairness
-----------------------------------------------------------------------------
(* Properties *)

\* The plan would be decided again on the tables as they are.
StillValid(p) ==
  /\ p.op = "createBlueprint" => CanCreateBlueprint(blueprints, p.id, p.req)
  /\ p.op = "updateBlueprint" => CanUpdateBlueprint(blueprints, p.id, p.req) /\ p.snap = blueprints
  /\ p.op = "deleteBlueprint" => CanDeleteBlueprint(blueprints, entities, p.id)
  /\ p.op = "createEntity" => CanCreateEntity(blueprints, entities, p.id, p.bp, p.req)
  /\ p.op = "updateEntity" => CanUpdateEntity(blueprints, entities, p.id, p.req) /\ p.snap = blueprints
  /\ p.op = "deleteEntity" => CanDeleteEntity(blueprints, entities, p.id)

\* A verdict reached under the locks is still the verdict when the statements
\* run: no other transaction changes what it was reached from in between.
PlanStillValid == \A w \in Writers : pc[w] = "write" => StillValid(plan[w])

\* The step commits w's update of row id.
Updates(op, id) == \E w \in Writers :
  pc[w] = "write" /\ pc'[w] = "idle" /\ plan[w].op = op /\ plan[w].id = id

\* Whatever the writers do, a relation of a blueprint that nobody is updating
\* keeps targeting the same blueprint ROW: a rename rewrites it and a delete is
\* refused while it is there.
RelationsFollow ==
  \A b \in ActiveBlueprints(blueprints) \cap ActiveBlueprints(blueprints'), k \in Keys :
    ~Updates("updateBlueprint", b) =>
      RelationTarget(blueprints', b, k) = RelationTarget(blueprints, b, k)

\* The same for entities: while its relation keeps targeting the same blueprint
\* row, a reference that resolved keeps resolving to the same entity ROW across
\* every rename and delete, unless the entity itself is being updated or deleted.
ReferencesFollow ==
  \A e \in ActiveEntities(entities) \cap ActiveEntities(entities'), k \in Keys :
    LET b == entities[e].bp
    IN  /\ ~Updates("updateEntity", e)
        /\ RelationTarget(blueprints', b, k) = RelationTarget(blueprints, b, k)
        /\ RefTargets(blueprints, entities, e, k) # {}
        => RefTargets(blueprints', entities', e, k) = RefTargets(blueprints, entities, e, k)

\* Relations of blueprints and references of entities follow the row they name.
ReferencesFollowTheirTarget == [][RelationsFollow /\ ReferencesFollow]_vars

\* The transactions implement the atomic registry.
ImplementsRegistry == RegistrySpec

\* A transaction that has begun ends: nobody waits for a lock forever.
EveryTransactionEnds == \A w \in Writers : pc[w] # "idle" ~> pc[w] = "idle"
=============================================================================
