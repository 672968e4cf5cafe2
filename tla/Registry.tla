------------------------------ MODULE Registry ------------------------------
(***************************************************************************)
(* What the ontology registry promises: blueprints and entities as one     *)
(* store in which every create, update and delete happens at once.         *)
(* Ontology.tla is the code's way of doing it (a transaction that takes    *)
(* table locks, reads a snapshot, decides, and writes), and implements     *)
(* this module.                                                            *)
(*                                                                         *)
(* A blueprint carries relation keys; each key names the TARGET blueprint  *)
(* by identifier.  An entity belongs to a blueprint row (by id, so that a  *)
(* blueprint rename never touches it) and holds, per relation key of that  *)
(* blueprint, the identifier of an entity of the target blueprint.  Its    *)
(* `team' names an entity of the system blueprint `_team'.  Aggregation    *)
(* targets behave as relation targets on the blueprint side; a value that  *)
(* is an array is one key per element; `format: user' values behave as     *)
(* `team'.  Identifiers that differ only in case are one identifier.       *)
(***************************************************************************)
EXTENDS Naturals, FiniteSets

CONSTANTS BlueprintIds,   \* row ids of `blueprints' (never reused)
          EntityIds,      \* row ids of `entities' (never reused)
          Names,          \* blueprint identifiers
          EntityNames,    \* entity identifiers
          Keys,           \* relation keys
          TeamId,         \* the row id of the seeded system blueprint
          TeamName,       \* its identifier, `_team'
          ParentKey,      \* its base relation `parent'
          None,           \* no target, no reference, no team
          MaxBlueprints,  \* MAX_BLUEPRINTS
          MaxEntities,    \* MAX_ENTITIES_TOTAL
          MaxRevision     \* bound on the number of committed writes

ASSUME RegistryAssumption ==
  /\ TeamId \in BlueprintIds
  /\ TeamName \in Names
  /\ ParentKey \in Keys
  /\ None \notin Names \cup EntityNames
  /\ MaxBlueprints \in Nat \ {0} /\ MaxEntities \in Nat /\ MaxRevision \in Nat
  /\ IsFiniteSet(BlueprintIds) /\ IsFiniteSet(EntityIds)

VARIABLES blueprints, entities, revision

registryVars == <<blueprints, entities, revision>>

Status == {"none", "active", "deleted"}

Rels == [Keys -> Names \cup {None}]
Refs == [Keys -> EntityNames \cup {None}]

BlueprintRow == [st : Status, name : Names \cup {None}, rels : Rels]
EntityRow == [st : Status, bp : BlueprintIds, name : EntityNames \cup {None},
              refs : Refs, team : EntityNames \cup {None}]

BlueprintRequest == [name : Names, rels : Rels]
EntityRequest == [name : EntityNames, refs : Refs, team : EntityNames \cup {None}]

RegistryTypeOK ==
  /\ blueprints \in [BlueprintIds -> BlueprintRow]
  /\ entities \in [EntityIds -> EntityRow]
  /\ revision \in 0..MaxRevision

-----------------------------------------------------------------------------
(* Readings of a pair of tables *)

ActiveBlueprints(bps) == {b \in BlueprintIds : bps[b].st = "active"}
ActiveEntities(ents) == {e \in EntityIds : ents[e].st = "active"}

Targets(rels) == {rels[k] : k \in Keys} \ {None}

KnownTargets(bps, ids) == {bps[b].name : b \in ids}

\* The entity rows of blueprint identifier bn that carry identifier en.
Matches(bps, ents, bn, en) ==
  {e \in ActiveEntities(ents) :
     /\ ents[e].name = en
     /\ ents[e].bp \in ActiveBlueprints(bps)
     /\ bps[ents[e].bp].name = bn}

\* The row that relation key k of entity e refers to: its reference is live
\* when the entity's blueprint still declares the key.
RefTargets(bps, ents, e, k) ==
  Matches(bps, ents, bps[ents[e].bp].rels[k], ents[e].refs[k])

\* The blueprint rows that relation key k of blueprint b targets.
RelationTarget(bps, b, k) ==
  {t \in ActiveBlueprints(bps) : bps[t].name = bps[b].rels[k]}

TeamTargets(bps, ents, e) == Matches(bps, ents, TeamName, ents[e].team)

RenameTarget(rels, old, new) ==
  [k \in Keys |-> IF rels[k] = old THEN new ELSE rels[k]]

\* Rewrites the references that name `old' within blueprint identifier bn.
RenameRefs(rels, refs, bn, old, new) ==
  [k \in Keys |-> IF rels[k] = bn /\ refs[k] = old THEN new ELSE refs[k]]

RenameTeam(bn, team, old, new) ==
  IF bn = TeamName /\ team = old THEN new ELSE team

-----------------------------------------------------------------------------
(* Verdicts: what a request must satisfy, judged on a pair of tables *)

CanCreateBlueprint(bps, id, req) ==
  /\ bps[id].st = "none"
  /\ req.name # TeamName
  /\ Cardinality(ActiveBlueprints(bps)) < MaxBlueprints
  /\ Targets(req.rels) \subseteq KnownTargets(bps, ActiveBlueprints(bps)) \cup {req.name}

\* The submitted definition with its own self-targets following the rename.
SubmittedRels(bps, id, req) == RenameTarget(req.rels, bps[id].name, req.name)

CanUpdateBlueprint(bps, id, req) ==
  /\ bps[id].st = "active"
  /\ id = TeamId => /\ req.name = TeamName
                    /\ req.rels[ParentKey] = TeamName
  /\ Targets(SubmittedRels(bps, id, req)) \subseteq
       KnownTargets(bps, ActiveBlueprints(bps) \ {id}) \cup {req.name}

CanDeleteBlueprint(bps, ents, id) ==
  /\ bps[id].st = "active"
  /\ id # TeamId
  /\ \A e \in ActiveEntities(ents) : ents[e].bp # id
  /\ \A b \in ActiveBlueprints(bps) \ {id} : bps[id].name \notin Targets(bps[b].rels)

\* No finding: every reference is declared and every target exists; `selfName'
\* is the identifier of bn that counts as existing (None on a create).
NoFindings(bps, ents, b, refs, team, selfName) ==
  LET Exists(bn, en) == \/ Matches(bps, ents, bn, en) # {}
                        \/ bn = bps[b].name /\ en = selfName
  IN  /\ \A k \in Keys : refs[k] # None =>
           /\ bps[b].rels[k] # None
           /\ Exists(bps[b].rels[k], refs[k])
      /\ team # None => Exists(TeamName, team)

CanCreateEntity(bps, ents, id, b, req) ==
  /\ ents[id].st = "none"
  /\ bps[b].st = "active"
  /\ Cardinality(ActiveEntities(ents)) < MaxEntities
  /\ NoFindings(bps, ents, b, req.refs, req.team, None)

\* The submitted document with its self-references following the rename.
SubmittedRefs(bps, ents, id, req) ==
  LET b == ents[id].bp
  IN  RenameRefs(bps[b].rels, req.refs, bps[b].name, ents[id].name, req.name)

SubmittedTeam(bps, ents, id, req) ==
  RenameTeam(bps[ents[id].bp].name, req.team, ents[id].name, req.name)

CanUpdateEntity(bps, ents, id, req) ==
  /\ ents[id].st = "active"
  /\ bps[ents[id].bp].st = "active"
  /\ NoFindings(bps, ents, ents[id].bp, SubmittedRefs(bps, ents, id, req),
                SubmittedTeam(bps, ents, id, req), req.name)

\* Another active entity names this one through a relation or as its team.
Refers(bps, ents, x, id) ==
  LET bn == bps[ents[id].bp].name
  IN  \/ \E k \in Keys : bps[ents[x].bp].rels[k] = bn /\ ents[x].refs[k] = ents[id].name
      \/ bn = TeamName /\ ents[x].team = ents[id].name

CanDeleteEntity(bps, ents, id) ==
  /\ ents[id].st = "active"
  /\ bps[ents[id].bp].st = "active"
  /\ \A x \in ActiveEntities(ents) \ {id} : ~Refers(bps, ents, x, id)

\* The partial unique indexes over active rows.
BlueprintNameFree(bps, id, name) ==
  \A b \in ActiveBlueprints(bps) \ {id} : bps[b].name # name

EntityNameFree(ents, id, b, name) ==
  \A e \in ActiveEntities(ents) \ {id} : ~(ents[e].bp = b /\ ents[e].name = name)

-----------------------------------------------------------------------------
(* Effects: the tables a write leaves; `snap' is the snapshot of blueprints *)
(* the transaction decided on                                              *)

BlueprintInserted(bps, id, req) ==
  [bps EXCEPT ![id] = [st |-> "active", name |-> req.name, rels |-> req.rels]]

\* Mutant: a rename does not cascade.
BlueprintReplacedAlone(bps, snap, id, req) ==
  [bps EXCEPT ![id].name = req.name, ![id].rels = SubmittedRels(snap, id, req)]

\* The row is replaced; every other row of the snapshot that targets the old
\* identifier gets the SNAPSHOT's definition rewritten to the new one.
BlueprintReplaced(bps, snap, id, req) ==
  LET old == snap[id].name
  IN  [b \in BlueprintIds |->
         IF b = id
         THEN [bps[b] EXCEPT !.name = req.name, !.rels = SubmittedRels(snap, id, req)]
         ELSE IF old # req.name /\ snap[b].st = "active" /\ old \in Targets(snap[b].rels)
         THEN [bps[b] EXCEPT !.rels = RenameTarget(snap[b].rels, old, req.name)]
         ELSE bps[b]]

BlueprintDeleted(bps, id) == [bps EXCEPT ![id].st = "deleted"]

EntityInserted(ents, id, b, req) ==
  [ents EXCEPT ![id] = [st |-> "active", bp |-> b, name |-> req.name,
                        refs |-> req.refs, team |-> req.team]]

\* Mutant: a rename rewrites relations of the same blueprint only.
EntityReplacedWithin(ents, snap, id, req) ==
  LET b == ents[id].bp
      old == ents[id].name
  IN  [e \in EntityIds |->
         IF e = id
         THEN [ents[e] EXCEPT !.name = req.name,
                              !.refs = SubmittedRefs(snap, ents, id, req),
                              !.team = SubmittedTeam(snap, ents, id, req)]
         ELSE IF old # req.name /\ ents[e].st = "active" /\ ents[e].bp = b
         THEN [ents[e] EXCEPT !.refs = RenameRefs(snap[b].rels, @, snap[b].name, old, req.name),
                              !.team = RenameTeam(snap[b].name, @, old, req.name)]
         ELSE ents[e]]

\* The row is replaced and every other active entity that names the old
\* identifier is rewritten.
EntityReplaced(ents, snap, id, req) ==
  LET b == ents[id].bp
      bn == snap[b].name
      old == ents[id].name
  IN  [e \in EntityIds |->
         IF e = id
         THEN [ents[e] EXCEPT !.name = req.name,
                              !.refs = SubmittedRefs(snap, ents, id, req),
                              !.team = SubmittedTeam(snap, ents, id, req)]
         ELSE IF old # req.name /\ ents[e].st = "active"
         THEN [ents[e] EXCEPT !.refs = RenameRefs(snap[ents[e].bp].rels, @, bn, old, req.name),
                              !.team = RenameTeam(bn, @, old, req.name)]
         ELSE ents[e]]

EntityDeleted(ents, id) == [ents EXCEPT ![id].st = "deleted"]

-----------------------------------------------------------------------------
(* The registry as an atomic store *)

NoBlueprint == [st |-> "none", name |-> None, rels |-> [k \in Keys |-> None]]
NoEntity == [st |-> "none", bp |-> TeamId, name |-> None,
             refs |-> [k \in Keys |-> None], team |-> None]

SeededTeam == [st |-> "active", name |-> TeamName,
               rels |-> [k \in Keys |-> IF k = ParentKey THEN TeamName ELSE None]]

RegistryInit ==
  /\ blueprints = [b \in BlueprintIds |-> IF b = TeamId THEN SeededTeam ELSE NoBlueprint]
  /\ entities = [e \in EntityIds |-> NoEntity]
  /\ revision = 0

bumpOntologyRevision ==
  /\ revision < MaxRevision
  /\ revision' = revision + 1

CreateBlueprint(id, req) ==
  /\ CanCreateBlueprint(blueprints, id, req)
  /\ BlueprintNameFree(blueprints, id, req.name)
  /\ blueprints' = BlueprintInserted(blueprints, id, req)
  /\ bumpOntologyRevision
  /\ UNCHANGED entities

UpdateBlueprint(id, req) ==
  /\ CanUpdateBlueprint(blueprints, id, req)
  /\ BlueprintNameFree(blueprints, id, req.name)
  /\ blueprints' = BlueprintReplaced(blueprints, blueprints, id, req)
  /\ bumpOntologyRevision
  /\ UNCHANGED entities

DeleteBlueprint(id) ==
  /\ CanDeleteBlueprint(blueprints, entities, id)
  /\ blueprints' = BlueprintDeleted(blueprints, id)
  /\ bumpOntologyRevision
  /\ UNCHANGED entities

CreateEntity(id, b, req) ==
  /\ CanCreateEntity(blueprints, entities, id, b, req)
  /\ EntityNameFree(entities, id, b, req.name)
  /\ entities' = EntityInserted(entities, id, b, req)
  /\ bumpOntologyRevision
  /\ UNCHANGED blueprints

UpdateEntity(id, req) ==
  /\ CanUpdateEntity(blueprints, entities, id, req)
  /\ EntityNameFree(entities, id, entities[id].bp, req.name)
  /\ entities' = EntityReplaced(entities, blueprints, id, req)
  /\ bumpOntologyRevision
  /\ UNCHANGED blueprints

DeleteEntity(id) ==
  /\ CanDeleteEntity(blueprints, entities, id)
  /\ entities' = EntityDeleted(entities, id)
  /\ bumpOntologyRevision
  /\ UNCHANGED blueprints

RegistryNext ==
  \/ \E id \in BlueprintIds, req \in BlueprintRequest :
       CreateBlueprint(id, req) \/ UpdateBlueprint(id, req)
  \/ \E id \in BlueprintIds : DeleteBlueprint(id)
  \/ \E id \in EntityIds, b \in BlueprintIds, req \in EntityRequest : CreateEntity(id, b, req)
  \/ \E id \in EntityIds, req \in EntityRequest : UpdateEntity(id, req)
  \/ \E id \in EntityIds : DeleteEntity(id)

RegistrySpec == RegistryInit /\ [][RegistryNext]_registryVars
-----------------------------------------------------------------------------
(* Properties *)

\* Every relation of an active blueprint targets an active blueprint: no rename
\* and no delete leaves a definition naming an identifier that is gone.
BlueprintTargetsResolve == \A b \in ActiveBlueprints(blueprints) :
  Targets(blueprints[b].rels) \subseteq KnownTargets(blueprints, ActiveBlueprints(blueprints))

\* Every active entity's blueprint is active: a blueprint delete never strands
\* an instance, whatever entity is being created meanwhile.
EntitiesHaveTheirBlueprint == \A e \in ActiveEntities(entities) :
  blueprints[entities[e].bp].st = "active"

\* Every stored team names an active `_team' entity: ownership is checked when
\* it is written, and renames and deletes of teams keep it true afterwards.
TeamsResolve == \A e \in ActiveEntities(entities) :
  entities[e].team # None => TeamTargets(blueprints, entities, e) # {}

\* Relations, instances and teams resolve.
ReferencesResolve == BlueprintTargetsResolve /\ EntitiesHaveTheirBlueprint /\ TeamsResolve

\* The caps, which are COUNT queries followed by an INSERT, are never passed.
CapsHold ==
  /\ Cardinality(ActiveBlueprints(blueprints)) <= MaxBlueprints
  /\ Cardinality(ActiveEntities(entities)) <= MaxEntities
=============================================================================
