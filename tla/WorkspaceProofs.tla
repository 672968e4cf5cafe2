-------------------------- MODULE WorkspaceProofs ---------------------------
(***************************************************************************)
(* Theorems about what the server decides on something read earlier.       *)
(*                                                                         *)
(* The ontology registry, for every set of writers, readers, rows, names   *)
(* and keys.  First the atomic registry: its inductive invariant adds to   *)
(* the properties what they rest on, that identifiers are unique among the *)
(* active blueprints and that the seeded `_team' row stands.  Then its     *)
(* writers: the table locks admit one transaction at a time past them, so  *)
(* a plan is still valid when it is written, so the transactions implement *)
(* the atomic registry, and with it everything proved of that one.  Then   *)
(* the readers beside them.                                                *)
(*                                                                         *)
(* Catalog files, for any number of clients, rows, source references and   *)
(* writes: a request that carries a revision writes over the very row its  *)
(* client read, and the events of a file account for it.  The guard rests  *)
(* on two facts: a revision never names two rows, since whatever changes a *)
(* row raises its revision, and the row a request has locked stays as it   *)
(* was checked.                                                            *)
(*                                                                         *)
(* The import of entities, for any batch and any number of other users'    *)
(* writes: a guarded write overwrites nobody.  What others write carries a *)
(* later stamp than any version the client knows and than any stamp that   *)
(* the first pass has left before.                                         *)
(***************************************************************************)
EXTENDS OntologyReads, CatalogFiles, EntityImport, FiniteSetTheorems, SequenceTheorems, TLAPS

UniqueNames == \A b, c \in ActiveBlueprints(blueprints) :
  blueprints[b].name = blueprints[c].name => b = c

TeamStands == blueprints[TeamId].st = "active" /\ blueprints[TeamId].name = TeamName

RegistryInv ==
  /\ RegistryTypeOK
  /\ UniqueNames
  /\ TeamStands
  /\ BlueprintTargetsResolve
  /\ EntitiesHaveTheirBlueprint
  /\ TeamsResolve

-----------------------------------------------------------------------------
(* The effects keep the tables well typed *)

\* A renamed relation map and renamed references have their types.
LEMMA RenameTargetType ==
  ASSUME NEW rels \in Rels, NEW old, NEW new \in Names
  PROVE  RenameTarget(rels, old, new) \in Rels
BY DEF RenameTarget, Rels

LEMMA RenameRefsType ==
  ASSUME NEW rels, NEW refs \in Refs, NEW bn, NEW old, NEW new \in EntityNames
  PROVE  RenameRefs(rels, refs, bn, old, new) \in Refs
BY DEF RenameRefs, Refs

LEMMA RenameTeamType ==
  ASSUME NEW team \in EntityNames \cup {None}, NEW bn, NEW old, NEW new \in EntityNames
  PROVE  RenameTeam(bn, team, old, new) \in EntityNames \cup {None}
BY DEF RenameTeam

LEMMA BlueprintInsertedType ==
  ASSUME NEW bps \in [BlueprintIds -> BlueprintRow], NEW id \in BlueprintIds,
         NEW req \in BlueprintRequest
  PROVE  BlueprintInserted(bps, id, req) \in [BlueprintIds -> BlueprintRow]
BY DEF BlueprintInserted, BlueprintRow, BlueprintRequest, Status

LEMMA BlueprintReplacedType ==
  ASSUME NEW bps \in [BlueprintIds -> BlueprintRow], NEW snap \in [BlueprintIds -> BlueprintRow],
         NEW id \in BlueprintIds, NEW req \in BlueprintRequest
  PROVE  BlueprintReplaced(bps, snap, id, req) \in [BlueprintIds -> BlueprintRow]
<1>1. SubmittedRels(snap, id, req) \in Rels
  BY RenameTargetType DEF SubmittedRels, BlueprintRequest
<1>2. \A b \in BlueprintIds : RenameTarget(snap[b].rels, snap[id].name, req.name) \in Rels
  BY RenameTargetType DEF BlueprintRow, BlueprintRequest
<1>3. req.name \in Names
  BY DEF BlueprintRequest
<1> QED
  BY <1>1, <1>2, <1>3 DEF BlueprintReplaced, BlueprintRow

LEMMA BlueprintDeletedType ==
  ASSUME NEW bps \in [BlueprintIds -> BlueprintRow], NEW id \in BlueprintIds
  PROVE  BlueprintDeleted(bps, id) \in [BlueprintIds -> BlueprintRow]
BY DEF BlueprintDeleted, BlueprintRow, Status

LEMMA EntityInsertedType ==
  ASSUME NEW ents \in [EntityIds -> EntityRow], NEW id \in EntityIds,
         NEW b \in BlueprintIds, NEW req \in EntityRequest
  PROVE  EntityInserted(ents, id, b, req) \in [EntityIds -> EntityRow]
BY DEF EntityInserted, EntityRow, EntityRequest, Status

LEMMA EntityReplacedType ==
  ASSUME NEW ents \in [EntityIds -> EntityRow], NEW snap,
         NEW id \in EntityIds, NEW req \in EntityRequest
  PROVE  EntityReplaced(ents, snap, id, req) \in [EntityIds -> EntityRow]
<1> DEFINE bn == snap[ents[id].bp].name
<1>1. SubmittedRefs(snap, ents, id, req) \in Refs
  BY RenameRefsType DEF SubmittedRefs, EntityRequest
<1>2. SubmittedTeam(snap, ents, id, req) \in EntityNames \cup {None}
  BY RenameTeamType DEF SubmittedTeam, EntityRequest
<1>3. \A e \in EntityIds :
        RenameRefs(snap[ents[e].bp].rels, ents[e].refs, bn, ents[id].name, req.name) \in Refs
  BY RenameRefsType DEF EntityRow, EntityRequest
<1>4. \A e \in EntityIds :
        RenameTeam(bn, ents[e].team, ents[id].name, req.name) \in EntityNames \cup {None}
  BY RenameTeamType DEF EntityRow, EntityRequest
<1>5. req.name \in EntityNames
  BY DEF EntityRequest
<1> QED
  BY <1>1, <1>2, <1>3, <1>4, <1>5 DEF EntityReplaced, EntityRow

LEMMA EntityDeletedType ==
  ASSUME NEW ents \in [EntityIds -> EntityRow], NEW id \in EntityIds
  PROVE  EntityDeleted(ents, id) \in [EntityIds -> EntityRow]
BY DEF EntityDeleted, EntityRow, Status

-----------------------------------------------------------------------------
(* Every operation keeps the invariant *)

LEMMA InitInv == RegistryInit => RegistryInv
<1> SUFFICES ASSUME RegistryInit PROVE RegistryInv
  OBVIOUS
<1>1. SeededTeam \in BlueprintRow /\ NoBlueprint \in BlueprintRow /\ NoEntity \in EntityRow
  BY RegistryAssumption
  DEF SeededTeam, NoBlueprint, NoEntity, BlueprintRow, EntityRow, Status, Rels, Refs
<1>2. RegistryTypeOK
  BY <1>1, RegistryAssumption DEF RegistryTypeOK, RegistryInit
<1>3. ActiveBlueprints(blueprints) = {TeamId} /\ ActiveEntities(entities) = {}
  BY RegistryAssumption
  DEF RegistryInit, ActiveBlueprints, ActiveEntities, SeededTeam, NoBlueprint, NoEntity
<1>4. blueprints[TeamId] = SeededTeam
  BY RegistryAssumption DEF RegistryInit
<1>5. Targets(SeededTeam.rels) \subseteq {TeamName}
  BY DEF SeededTeam, Targets
<1>6. TeamStands
  BY <1>4 DEF TeamStands, SeededTeam
<1> QED
  BY <1>2, <1>3, <1>4, <1>5, <1>6
  DEF RegistryInv, UniqueNames, TeamStands, BlueprintTargetsResolve, KnownTargets,
      EntitiesHaveTheirBlueprint, TeamsResolve

\* Teams keep resolving while the blueprint rows their targets belong to stay
\* active under the same identifier.
LEMMA TeamsSurvive ==
  ASSUME TeamsResolve, entities' = entities,
         \A b \in ActiveBlueprints(blueprints) :
           blueprints[b].name = TeamName /\ (\E e \in ActiveEntities(entities) : entities[e].bp = b)
           => b \in ActiveBlueprints(blueprints') /\ blueprints'[b].name = TeamName
  PROVE  TeamsResolve'
<1> SUFFICES ASSUME NEW e \in ActiveEntities(entities), entities[e].team # None
             PROVE  TeamTargets(blueprints', entities, e) # {}
  BY DEF TeamsResolve
<1>1. PICK m \in ActiveEntities(entities) :
        /\ entities[m].name = entities[e].team
        /\ entities[m].bp \in ActiveBlueprints(blueprints)
        /\ blueprints[entities[m].bp].name = TeamName
  BY DEF TeamsResolve, TeamTargets, Matches
<1> QED
  BY <1>1 DEF TeamTargets, Matches

LEMMA CreateBlueprintInv ==
  ASSUME RegistryInv, NEW id \in BlueprintIds, NEW req \in BlueprintRequest,
         CreateBlueprint(id, req)
  PROVE  RegistryInv'
<1>1. RegistryTypeOK'
  BY BlueprintInsertedType, RegistryAssumption
  DEF RegistryInv, RegistryTypeOK, CreateBlueprint, bumpOntologyRevision
<1>2. /\ blueprints[id].st = "none"
      /\ blueprints' = [blueprints EXCEPT ![id] = [st |-> "active", name |-> req.name, rels |-> req.rels]]
      /\ entities' = entities
      /\ req.name # TeamName
      /\ blueprints \in [BlueprintIds -> BlueprintRow]
  BY DEF RegistryInv, RegistryTypeOK, CreateBlueprint, CanCreateBlueprint, BlueprintInserted
<1>3. /\ ActiveBlueprints(blueprints') = ActiveBlueprints(blueprints) \cup {id}
      /\ id \notin ActiveBlueprints(blueprints)
      /\ \A b \in ActiveBlueprints(blueprints) : blueprints'[b] = blueprints[b]
      /\ blueprints'[id].name = req.name
      /\ blueprints'[id].rels = req.rels
  BY <1>2 DEF ActiveBlueprints
<1>4. UniqueNames'
  BY <1>3 DEF RegistryInv, UniqueNames, CreateBlueprint, BlueprintNameFree, ActiveBlueprints
<1>5. TeamStands'
  BY <1>2, RegistryAssumption DEF RegistryInv, TeamStands
<1>6. BlueprintTargetsResolve'
  BY <1>3 DEF RegistryInv, BlueprintTargetsResolve, KnownTargets, CreateBlueprint, CanCreateBlueprint
<1>7. EntitiesHaveTheirBlueprint'
  BY <1>2, <1>3 DEF RegistryInv, EntitiesHaveTheirBlueprint, ActiveEntities, ActiveBlueprints
<1>8. TeamsResolve'
  BY <1>2, <1>3, TeamsSurvive DEF RegistryInv
<1> QED
  BY <1>1, <1>4, <1>5, <1>6, <1>7, <1>8 DEF RegistryInv

LEMMA UpdateBlueprintInv ==
  ASSUME RegistryInv, NEW id \in BlueprintIds, NEW req \in BlueprintRequest,
         UpdateBlueprint(id, req)
  PROVE  RegistryInv'
<1> DEFINE old == blueprints[id].name
           sub == SubmittedRels(blueprints, id, req)
<1>1. RegistryTypeOK'
  BY BlueprintReplacedType, RegistryAssumption
  DEF RegistryInv, RegistryTypeOK, UpdateBlueprint, bumpOntologyRevision
<1>2. /\ blueprints[id].st = "active"
      /\ entities' = entities
      /\ blueprints' = BlueprintReplaced(blueprints, blueprints, id, req)
      /\ blueprints \in [BlueprintIds -> BlueprintRow]
      /\ id = TeamId => req.name = TeamName
  BY DEF RegistryInv, RegistryTypeOK, UpdateBlueprint, CanUpdateBlueprint
<1>3. /\ blueprints'[id].st = "active" /\ blueprints'[id].name = req.name /\ blueprints'[id].rels = sub
      /\ \A b \in BlueprintIds \ {id} :
           /\ blueprints'[b].st = blueprints[b].st
           /\ blueprints'[b].name = blueprints[b].name
           /\ blueprints'[b].rels =
                IF old # req.name /\ blueprints[b].st = "active" /\ old \in Targets(blueprints[b].rels)
                THEN RenameTarget(blueprints[b].rels, old, req.name) ELSE blueprints[b].rels
  BY <1>2 DEF BlueprintReplaced, BlueprintRow
<1>4. ActiveBlueprints(blueprints') = ActiveBlueprints(blueprints) /\ id \in ActiveBlueprints(blueprints)
  BY <1>2, <1>3 DEF ActiveBlueprints
<1>5. UniqueNames'
  BY <1>3, <1>4 DEF RegistryInv, UniqueNames, UpdateBlueprint, BlueprintNameFree, ActiveBlueprints
<1>6. TeamStands'
  BY <1>2, <1>3, RegistryAssumption DEF RegistryInv, TeamStands
<1>7. BlueprintTargetsResolve'
  <2> SUFFICES ASSUME NEW b \in ActiveBlueprints(blueprints), NEW n \in Targets(blueprints'[b].rels)
               PROVE  \E t \in ActiveBlueprints(blueprints) : blueprints'[t].name = n
    BY <1>4 DEF BlueprintTargetsResolve, KnownTargets
  <2>1. CASE b = id
    <3>1. n = req.name \/ \E t \in ActiveBlueprints(blueprints) \ {id} : blueprints[t].name = n
      BY <1>3, <2>1 DEF UpdateBlueprint, CanUpdateBlueprint, KnownTargets
    <3> QED
      BY <1>3, <1>4, <3>1 DEF ActiveBlueprints
  <2>2. CASE b # id
    <3>0. b \in BlueprintIds /\ blueprints[b].st = "active"
      BY DEF ActiveBlueprints
    <3>1. n = req.name \/ (n \in Targets(blueprints[b].rels) /\ n # old)
      <4>1. PICK k \in Keys : n = blueprints'[b].rels[k] /\ n # None
        BY DEF Targets
      <4>2. CASE old # req.name /\ old \in Targets(blueprints[b].rels)
        <5>1. n = IF blueprints[b].rels[k] = old THEN req.name ELSE blueprints[b].rels[k]
          BY <1>3, <2>2, <3>0, <4>1, <4>2 DEF RenameTarget
        <5> QED
          BY <4>1, <5>1 DEF Targets
      <4>3. CASE old = req.name \/ old \notin Targets(blueprints[b].rels)
        <5>1. n = blueprints[b].rels[k]
          BY <1>3, <2>2, <3>0, <4>1, <4>3
        <5> QED
          BY <4>1, <4>3, <5>1 DEF Targets
      <4> QED
        BY <4>2, <4>3
    <3>2. ASSUME n \in Targets(blueprints[b].rels), n # old
          PROVE  \E t \in ActiveBlueprints(blueprints) \ {id} : blueprints[t].name = n
      BY <3>2 DEF RegistryInv, BlueprintTargetsResolve, KnownTargets
    <3> QED
      BY <1>3, <1>4, <3>1, <3>2 DEF ActiveBlueprints
  <2> QED
    BY <2>1, <2>2
<1>8. EntitiesHaveTheirBlueprint'
  BY <1>2, <1>4 DEF RegistryInv, EntitiesHaveTheirBlueprint, ActiveEntities, ActiveBlueprints,
                    RegistryTypeOK, EntityRow
<1>9. TeamsResolve'
  <2>1. \A m \in ActiveBlueprints(blueprints) :
          blueprints[m].name = TeamName => blueprints'[m].name = TeamName
    <3> SUFFICES ASSUME NEW m \in ActiveBlueprints(blueprints), blueprints[m].name = TeamName
                 PROVE  blueprints'[m].name = TeamName
      OBVIOUS
    <3>1. m = TeamId
      BY RegistryAssumption DEF RegistryInv, UniqueNames, TeamStands, ActiveBlueprints
    <3> QED
      BY <1>2, <1>3, <3>1 DEF ActiveBlueprints
  <2> QED
    BY <1>2, <1>4, <2>1, TeamsSurvive DEF RegistryInv
<1> QED
  BY <1>1, <1>5, <1>6, <1>7, <1>8, <1>9 DEF RegistryInv

LEMMA DeleteBlueprintInv ==
  ASSUME RegistryInv, NEW id \in BlueprintIds, DeleteBlueprint(id)
  PROVE  RegistryInv'
<1>1. RegistryTypeOK'
  BY BlueprintDeletedType, RegistryAssumption
  DEF RegistryInv, RegistryTypeOK, DeleteBlueprint, bumpOntologyRevision
<1>2. /\ entities' = entities
      /\ blueprints' = [blueprints EXCEPT ![id].st = "deleted"]
      /\ blueprints \in [BlueprintIds -> BlueprintRow]
      /\ id # TeamId
      /\ \A e \in ActiveEntities(entities) : entities[e].bp # id
      /\ \A b \in ActiveBlueprints(blueprints) \ {id} : blueprints[id].name \notin Targets(blueprints[b].rels)
  BY DEF RegistryInv, RegistryTypeOK, DeleteBlueprint, CanDeleteBlueprint, BlueprintDeleted
<1>3. /\ ActiveBlueprints(blueprints') = ActiveBlueprints(blueprints) \ {id}
      /\ \A b \in ActiveBlueprints(blueprints) \ {id} : blueprints'[b] = blueprints[b]
  BY <1>2 DEF ActiveBlueprints, BlueprintRow
<1>4. UniqueNames'
  BY <1>3 DEF RegistryInv, UniqueNames
<1>5. TeamStands'
  BY <1>2, RegistryAssumption DEF RegistryInv, TeamStands
<1>6. BlueprintTargetsResolve'
  <2> SUFFICES ASSUME NEW b \in ActiveBlueprints(blueprints) \ {id}, NEW n \in Targets(blueprints[b].rels)
               PROVE  \E t \in ActiveBlueprints(blueprints) \ {id} : blueprints'[t].name = n
    BY <1>3 DEF BlueprintTargetsResolve, KnownTargets
  <2>1. PICK t \in ActiveBlueprints(blueprints) : blueprints[t].name = n
    BY DEF RegistryInv, BlueprintTargetsResolve, KnownTargets
  <2> QED
    BY <1>2, <1>3, <2>1
<1>7. EntitiesHaveTheirBlueprint'
  BY <1>2, <1>3 DEF RegistryInv, RegistryTypeOK, EntityRow, EntitiesHaveTheirBlueprint,
                    ActiveEntities, ActiveBlueprints
<1>8. TeamsResolve'
  BY <1>2, <1>3, TeamsSurvive DEF RegistryInv
<1> QED
  BY <1>1, <1>4, <1>5, <1>6, <1>7, <1>8 DEF RegistryInv

LEMMA CreateEntityInv ==
  ASSUME RegistryInv, NEW id \in EntityIds, NEW b \in BlueprintIds, NEW req \in EntityRequest,
         CreateEntity(id, b, req)
  PROVE  RegistryInv'
<1>1. RegistryTypeOK'
  BY EntityInsertedType, RegistryAssumption
  DEF RegistryInv, RegistryTypeOK, CreateEntity, bumpOntologyRevision
<1>2. /\ blueprints' = blueprints
      /\ entities' = [entities EXCEPT ![id] = [st |-> "active", bp |-> b, name |-> req.name,
                                              refs |-> req.refs, team |-> req.team]]
      /\ entities \in [EntityIds -> EntityRow]
      /\ entities[id].st = "none"
      /\ b \in ActiveBlueprints(blueprints)
  BY DEF RegistryInv, RegistryTypeOK, CreateEntity, CanCreateEntity, EntityInserted, ActiveBlueprints
<1>3. /\ ActiveEntities(entities') = ActiveEntities(entities) \cup {id}
      /\ \A e \in ActiveEntities(entities) : e # id /\ entities'[e] = entities[e]
      /\ entities'[id].bp = b /\ entities'[id].team = req.team
  BY <1>2 DEF ActiveEntities
<1>4. UniqueNames' /\ TeamStands' /\ BlueprintTargetsResolve'
  BY <1>2 DEF RegistryInv, UniqueNames, TeamStands, BlueprintTargetsResolve
<1>5. EntitiesHaveTheirBlueprint'
  BY <1>2, <1>3 DEF RegistryInv, EntitiesHaveTheirBlueprint, ActiveBlueprints
<1>6. TeamsResolve'
  <2> SUFFICES ASSUME NEW e \in ActiveEntities(entities'), entities'[e].team # None
               PROVE  \E t \in ActiveEntities(entities') :
                        /\ entities'[t].name = entities'[e].team
                        /\ entities'[t].bp \in ActiveBlueprints(blueprints)
                        /\ blueprints[entities'[t].bp].name = TeamName
    BY <1>2 DEF TeamsResolve, TeamTargets, Matches
  <2>1. PICK t \in ActiveEntities(entities) :
          /\ entities[t].name = entities'[e].team
          /\ entities[t].bp \in ActiveBlueprints(blueprints)
          /\ blueprints[entities[t].bp].name = TeamName
    <3>1. CASE e = id
      BY <1>3, <3>1 DEF CreateEntity, CanCreateEntity, NoFindings, Matches
    <3>2. CASE e # id
      BY <1>3, <3>2 DEF RegistryInv, TeamsResolve, TeamTargets, Matches
    <3> QED
      BY <3>1, <3>2
  <2> QED
    BY <1>3, <2>1
<1> QED
  BY <1>1, <1>4, <1>5, <1>6 DEF RegistryInv

LEMMA UpdateEntityInv ==
  ASSUME RegistryInv, NEW id \in EntityIds, NEW req \in EntityRequest, UpdateEntity(id, req)
  PROVE  RegistryInv'
<1> DEFINE bn == blueprints[entities[id].bp].name
           old == entities[id].name
           team == SubmittedTeam(blueprints, entities, id, req)
<1>1. RegistryTypeOK'
  BY EntityReplacedType, RegistryAssumption
  DEF RegistryInv, RegistryTypeOK, UpdateEntity, bumpOntologyRevision
<1>2. /\ blueprints' = blueprints
      /\ entities' = EntityReplaced(entities, blueprints, id, req)
      /\ entities \in [EntityIds -> EntityRow]
      /\ id \in ActiveEntities(entities)
      /\ NoFindings(blueprints, entities, entities[id].bp,
                    SubmittedRefs(blueprints, entities, id, req), team, req.name)
  BY DEF RegistryInv, RegistryTypeOK, UpdateEntity, CanUpdateEntity, ActiveEntities
<1>3. /\ entities'[id].st = entities[id].st /\ entities'[id].bp = entities[id].bp
      /\ entities'[id].name = req.name /\ entities'[id].team = team
      /\ \A e \in EntityIds \ {id} :
           /\ entities'[e].st = entities[e].st
           /\ entities'[e].bp = entities[e].bp
           /\ entities'[e].name = entities[e].name
           /\ entities[e].st = "active" =>
                entities'[e].team = RenameTeam(bn, entities[e].team, old, req.name)
  BY <1>2 DEF EntityReplaced, EntityRow, RenameTeam
<1>4. ActiveEntities(entities') = ActiveEntities(entities)
  BY <1>3 DEF ActiveEntities
<1>5. UniqueNames' /\ TeamStands' /\ BlueprintTargetsResolve'
  BY <1>2 DEF RegistryInv, UniqueNames, TeamStands, BlueprintTargetsResolve
<1>6. EntitiesHaveTheirBlueprint'
  BY <1>2, <1>3, <1>4 DEF RegistryInv, EntitiesHaveTheirBlueprint, ActiveEntities
<1>7. TeamsResolve'
  <2> SUFFICES ASSUME NEW e \in ActiveEntities(entities), entities'[e].team # None
               PROVE  \E t \in ActiveEntities(entities) :
                        /\ entities'[t].name = entities'[e].team
                        /\ entities'[t].bp \in ActiveBlueprints(blueprints)
                        /\ blueprints[entities'[t].bp].name = TeamName
    BY <1>2, <1>4 DEF TeamsResolve, TeamTargets, Matches
  <2>1. \A t \in ActiveEntities(entities) : entities'[t].bp = entities[t].bp
    BY <1>3 DEF ActiveEntities
  <2>2. \/ /\ bn = TeamName
           /\ entities'[e].team = req.name
        \/ \E t \in ActiveEntities(entities) :
             /\ entities[t].name = entities'[e].team
             /\ entities[t].bp \in ActiveBlueprints(blueprints)
             /\ blueprints[entities[t].bp].name = TeamName
             /\ bn = TeamName => (entities'[e].team # old \/ req.name = old)
    <3>1. CASE e = id
      <4>1. bn = TeamName => (team # old \/ req.name = old)
        BY DEF SubmittedTeam, RenameTeam
      <4> QED
        BY <1>2, <1>3, <3>1, <4>1 DEF NoFindings, Matches
    <3>2. CASE e # id
      <4>1. entities'[e].team = RenameTeam(bn, entities[e].team, old, req.name)
        BY <1>3, <3>2 DEF ActiveEntities
      <4>2. CASE bn = TeamName /\ entities[e].team = old
        BY <4>1, <4>2 DEF RenameTeam
      <4>3. CASE ~(bn = TeamName /\ entities[e].team = old)
        <5>1. entities'[e].team = entities[e].team
          BY <4>1, <4>3 DEF RenameTeam
        <5> QED
          BY <4>3, <5>1 DEF RegistryInv, TeamsResolve, TeamTargets, Matches
      <4> QED
        BY <4>2, <4>3
    <3> QED
      BY <3>1, <3>2
  <2>3. CASE bn = TeamName /\ entities'[e].team = req.name
    BY <1>2, <1>3, <2>3 DEF RegistryInv, EntitiesHaveTheirBlueprint, ActiveBlueprints,
                           RegistryTypeOK, EntityRow
  <2>4. ASSUME NEW t \in ActiveEntities(entities),
               /\ entities[t].name = entities'[e].team
               /\ entities[t].bp \in ActiveBlueprints(blueprints)
               /\ blueprints[entities[t].bp].name = TeamName
               /\ bn = TeamName => (entities'[e].team # old \/ req.name = old)
        PROVE  entities'[t].name = entities'[e].team
    BY <1>3, <2>4 DEF ActiveEntities
  <2> QED
    BY <2>1, <2>2, <2>3, <2>4
<1> QED
  BY <1>1, <1>5, <1>6, <1>7 DEF RegistryInv

LEMMA DeleteEntityInv ==
  ASSUME RegistryInv, NEW id \in EntityIds, DeleteEntity(id)
  PROVE  RegistryInv'
<1>1. RegistryTypeOK'
  BY EntityDeletedType, RegistryAssumption
  DEF RegistryInv, RegistryTypeOK, DeleteEntity, bumpOntologyRevision
<1>2. /\ blueprints' = blueprints
      /\ entities' = [entities EXCEPT ![id].st = "deleted"]
      /\ entities \in [EntityIds -> EntityRow]
      /\ \A x \in ActiveEntities(entities) \ {id} : ~Refers(blueprints, entities, x, id)
  BY DEF RegistryInv, RegistryTypeOK, DeleteEntity, CanDeleteEntity, EntityDeleted
<1>3. /\ ActiveEntities(entities') = ActiveEntities(entities) \ {id}
      /\ \A e \in ActiveEntities(entities) \ {id} : entities'[e] = entities[e]
  BY <1>2 DEF ActiveEntities, EntityRow
<1>4. UniqueNames' /\ TeamStands' /\ BlueprintTargetsResolve'
  BY <1>2 DEF RegistryInv, UniqueNames, TeamStands, BlueprintTargetsResolve
<1>5. EntitiesHaveTheirBlueprint'
  BY <1>2, <1>3 DEF RegistryInv, EntitiesHaveTheirBlueprint
<1>6. TeamsResolve'
  <2> SUFFICES ASSUME NEW e \in ActiveEntities(entities'), entities'[e].team # None
               PROVE  \E t \in ActiveEntities(entities') :
                        /\ entities'[t].name = entities'[e].team
                        /\ entities'[t].bp \in ActiveBlueprints(blueprints)
                        /\ blueprints[entities'[t].bp].name = TeamName
    BY <1>2 DEF TeamsResolve, TeamTargets, Matches
  <2>1. PICK t \in ActiveEntities(entities) :
          /\ entities[t].name = entities[e].team
          /\ entities[t].bp \in ActiveBlueprints(blueprints)
          /\ blueprints[entities[t].bp].name = TeamName
    BY <1>3 DEF RegistryInv, TeamsResolve, TeamTargets, Matches
  <2>2. t # id
    BY <1>2, <1>3, <2>1 DEF Refers
  <2> QED
    BY <1>3, <2>1, <2>2
<1> QED
  BY <1>1, <1>4, <1>5, <1>6 DEF RegistryInv

\* One step of the registry keeps the invariant.
LEMMA NextInv == RegistryInv /\ [RegistryNext]_registryVars => RegistryInv'
<1> SUFFICES ASSUME RegistryInv, [RegistryNext]_registryVars PROVE RegistryInv'
  OBVIOUS
<1>1. CASE UNCHANGED registryVars
  BY <1>1 DEF registryVars, RegistryInv, RegistryTypeOK, UniqueNames, TeamStands,
              BlueprintTargetsResolve, EntitiesHaveTheirBlueprint, TeamsResolve
<1>2. CASE RegistryNext
  BY <1>2, CreateBlueprintInv, UpdateBlueprintInv, DeleteBlueprintInv,
     CreateEntityInv, UpdateEntityInv, DeleteEntityInv DEF RegistryNext
<1> QED
  BY <1>1, <1>2

\* The invariant holds of the registry however long it is edited.
THEOREM RegistryInvariant == RegistrySpec => []RegistryInv
BY InitInv, NextInv, PTL DEF RegistrySpec

\* No rename and no delete leaves a definition naming an identifier that is gone.
THEOREM TargetsTheorem == RegistrySpec => []BlueprintTargetsResolve
<1>1. RegistryInv => BlueprintTargetsResolve
  BY DEF RegistryInv
<1> QED
  BY <1>1, RegistryInvariant, PTL

\* No entity is ever left without its blueprint.
THEOREM InstancesTheorem == RegistrySpec => []EntitiesHaveTheirBlueprint
<1>1. RegistryInv => EntitiesHaveTheirBlueprint
  BY DEF RegistryInv
<1> QED
  BY <1>1, RegistryInvariant, PTL

\* No stored team ever dangles.
THEOREM TeamsTheorem == RegistrySpec => []TeamsResolve
<1>1. RegistryInv => TeamsResolve
  BY DEF RegistryInv
<1> QED
  BY <1>1, RegistryInvariant, PTL

\* Counting first and inserting afterwards is enough under the locks: a create
\* adds one row to a table that is below its cap.
LEMMA NextCaps == RegistryInv /\ CapsHold /\ [RegistryNext]_registryVars => CapsHold'
<1> SUFFICES ASSUME RegistryInv, CapsHold, [RegistryNext]_registryVars PROVE CapsHold'
  OBVIOUS
<1> DEFINE B == ActiveBlueprints(blueprints)
           E == ActiveEntities(entities)
<1>1. IsFiniteSet(B) /\ IsFiniteSet(E) /\ Cardinality(B) \in Nat /\ Cardinality(E) \in Nat
  <2>1. B \subseteq BlueprintIds /\ E \subseteq EntityIds
    BY DEF ActiveBlueprints, ActiveEntities
  <2>2. IsFiniteSet(B) /\ IsFiniteSet(E)
    BY <2>1, FS_Subset, RegistryAssumption
  <2> QED
    BY <2>2, FS_CardinalityType
<1>2. /\ blueprints \in [BlueprintIds -> BlueprintRow]
      /\ entities \in [EntityIds -> EntityRow]
  BY DEF RegistryInv, RegistryTypeOK
<1>3. CASE UNCHANGED registryVars
  BY <1>3 DEF registryVars, CapsHold
<1>4. ASSUME NEW id \in BlueprintIds, NEW req \in BlueprintRequest, CreateBlueprint(id, req)
      PROVE  CapsHold'
  <2>1. ActiveBlueprints(blueprints') = B \cup {id} /\ id \notin B /\ entities' = entities
    BY <1>2, <1>4 DEF CreateBlueprint, CanCreateBlueprint, BlueprintInserted, ActiveBlueprints
  <2>2. Cardinality(ActiveBlueprints(blueprints')) = Cardinality(B) + 1
    BY <1>1, <2>1, FS_AddElement
  <2>3. Cardinality(B) < MaxBlueprints
    BY <1>4 DEF CreateBlueprint, CanCreateBlueprint
  <2> QED
    BY <1>1, <2>1, <2>2, <2>3, RegistryAssumption DEF CapsHold
<1>5. ASSUME NEW id \in BlueprintIds, NEW req \in BlueprintRequest, UpdateBlueprint(id, req)
      PROVE  CapsHold'
  <2>1. ActiveBlueprints(blueprints') = B /\ entities' = entities
    BY <1>2, <1>5 DEF UpdateBlueprint, BlueprintReplaced, ActiveBlueprints, BlueprintRow
  <2> QED
    BY <2>1 DEF CapsHold
<1>6. ASSUME NEW id \in BlueprintIds, DeleteBlueprint(id)
      PROVE  CapsHold'
  <2>1. ActiveBlueprints(blueprints') = B \ {id} /\ id \in B /\ entities' = entities
    BY <1>2, <1>6
    DEF DeleteBlueprint, CanDeleteBlueprint, BlueprintDeleted, ActiveBlueprints, BlueprintRow
  <2>2. Cardinality(ActiveBlueprints(blueprints')) = Cardinality(B) - 1
    BY <1>1, <2>1, FS_RemoveElement
  <2> QED
    BY <1>1, <2>1, <2>2, RegistryAssumption DEF CapsHold
<1>7. ASSUME NEW id \in EntityIds, NEW b \in BlueprintIds, NEW req \in EntityRequest,
             CreateEntity(id, b, req)
      PROVE  CapsHold'
  <2>1. ActiveEntities(entities') = E \cup {id} /\ id \notin E /\ blueprints' = blueprints
    BY <1>2, <1>7 DEF CreateEntity, CanCreateEntity, EntityInserted, ActiveEntities
  <2>2. Cardinality(ActiveEntities(entities')) = Cardinality(E) + 1
    BY <1>1, <2>1, FS_AddElement
  <2>3. Cardinality(E) < MaxEntities
    BY <1>7 DEF CreateEntity, CanCreateEntity
  <2> QED
    BY <1>1, <2>1, <2>2, <2>3, RegistryAssumption DEF CapsHold
<1>8. ASSUME NEW id \in EntityIds, NEW req \in EntityRequest, UpdateEntity(id, req)
      PROVE  CapsHold'
  <2>1. ActiveEntities(entities') = E /\ blueprints' = blueprints
    BY <1>2, <1>8 DEF UpdateEntity, EntityReplaced, ActiveEntities, EntityRow
  <2> QED
    BY <2>1 DEF CapsHold
<1>9. ASSUME NEW id \in EntityIds, DeleteEntity(id)
      PROVE  CapsHold'
  <2>1. ActiveEntities(entities') = E \ {id} /\ id \in E /\ blueprints' = blueprints
    BY <1>2, <1>9 DEF DeleteEntity, CanDeleteEntity, EntityDeleted, ActiveEntities, EntityRow
  <2>2. Cardinality(ActiveEntities(entities')) = Cardinality(E) - 1
    BY <1>1, <2>1, FS_RemoveElement
  <2> QED
    BY <1>1, <2>1, <2>2, RegistryAssumption DEF CapsHold
<1> QED
  BY <1>3, <1>4, <1>5, <1>6, <1>7, <1>8, <1>9 DEF RegistryNext

\* The caps are never passed.
THEOREM CapsTheorem == RegistrySpec => []CapsHold
<1>1. RegistryInit => CapsHold
  <2> SUFFICES ASSUME RegistryInit PROVE CapsHold
    OBVIOUS
  <2>1. ActiveBlueprints(blueprints) = {TeamId} /\ ActiveEntities(entities) = {}
    BY RegistryAssumption
    DEF RegistryInit, ActiveBlueprints, ActiveEntities, SeededTeam, NoBlueprint, NoEntity
  <2>2. Cardinality({TeamId}) = 1 /\ Cardinality({}) = 0
    BY FS_Singleton, FS_EmptySet
  <2> QED
    BY <2>1, <2>2, RegistryAssumption DEF CapsHold
<1> QED
  BY <1>1, NextCaps, RegistryInvariant, PTL DEF RegistrySpec
-----------------------------------------------------------------------------
(* The writers *)

Locked(w) == pc[w] \in {"read", "write"}

\* What a transaction holds once it is past a lock.
LocksHeld == \A w \in Writers :
  /\ pc[w] = "lockBlueprints" => kind[w] \in {"blueprint", "entity"}
  /\ pc[w] = "lockEntities" => kind[w] = "entity" /\ held[w]["blueprints"] = "share"
  /\ Locked(w) =>
       \/ kind[w] = "blueprint" /\ held[w]["blueprints"] = "shareRowExclusive"
       \/ /\ kind[w] = "entity"
          /\ held[w]["blueprints"] = "share" /\ held[w]["entities"] = "shareRowExclusive"

\* Locks held together are compatible.
LocksCompatible == \A v, w \in Writers : v # w =>
  \A t \in Tables : ~Conflict(held[v][t], held[w][t])

OntologyInv == TypeOK /\ LocksHeld /\ LocksCompatible /\ PlanStillValid

\* At most one transaction is past its locks.
LEMMA Exclusion ==
  ASSUME LocksHeld, LocksCompatible
  PROVE  \A v, w \in Writers : Locked(v) /\ Locked(w) => v = w
<1> SUFFICES ASSUME NEW v \in Writers, NEW w \in Writers, Locked(v), Locked(w), v # w
             PROVE  FALSE
  OBVIOUS
<1>1. \A t \in Tables : ~Conflict(held[v][t], held[w][t])
  BY DEF LocksCompatible
<1>2. "blueprints" \in Tables /\ "entities" \in Tables
  BY DEF Tables
<1> QED
  BY <1>1, <1>2 DEF LocksHeld, Conflict

-----------------------------------------------------------------------------
(* Steps of the protocol that leave the tables alone *)

LEMMA InitOntologyInv == Init => OntologyInv
<1> SUFFICES ASSUME Init PROVE OntologyInv
  OBVIOUS
<1>1. RegistryTypeOK
  BY InitInv DEF Init, RegistryInv
<1>2. TypeOK
  BY <1>1 DEF Init, TypeOK, Unlocked, Modes, NoPlan, PlanOK
<1>3. LocksHeld /\ PlanStillValid
  BY DEF Init, LocksHeld, Locked, PlanStillValid
<1>4. LocksCompatible
  BY DEF Init, LocksCompatible, Unlocked, Conflict
<1> QED
  BY <1>2, <1>3, <1>4 DEF OntologyInv

\* Moving between steps keeps the queues well typed.
LEMMA MoveToType ==
  ASSUME TypeOK, NEW w \in Writers, NEW next, MoveTo(w, next),
         next \in {"idle", "lockBlueprints", "lockEntities", "read", "write"}
  PROVE  /\ pc' \in [Writers -> {"idle", "lockBlueprints", "lockEntities", "read", "write"}]
         /\ ahead' \in [Writers -> SUBSET Writers]
         /\ pc'[w] = next
         /\ \A v \in Writers \ {w} : pc'[v] = pc[v]
BY DEF TypeOK, MoveTo

LEMMA BeginStep ==
  ASSUME OntologyInv, NEW w \in Writers, NEW k \in {"blueprint", "entity"}, Begin(w, k)
  PROVE  OntologyInv'
<1>1. /\ pc' \in [Writers -> {"idle", "lockBlueprints", "lockEntities", "read", "write"}]
      /\ ahead' \in [Writers -> SUBSET Writers]
      /\ pc'[w] = "lockBlueprints"
      /\ \A v \in Writers \ {w} : pc'[v] = pc[v]
  BY MoveToType DEF OntologyInv, Begin
<1>2. /\ kind' = [kind EXCEPT ![w] = k]
      /\ held' = held /\ plan' = plan
      /\ blueprints' = blueprints /\ entities' = entities /\ revision' = revision
  BY DEF Begin, registryVars
<1>3. TypeOK'
  BY <1>1, <1>2 DEF OntologyInv, TypeOK, RegistryTypeOK, PlanOK
<1>4. LocksHeld'
  BY <1>1, <1>2 DEF OntologyInv, TypeOK, LocksHeld, Locked
<1>5. LocksCompatible'
  BY <1>2 DEF OntologyInv, LocksCompatible
<1>6. PlanStillValid'
  BY <1>1, <1>2 DEF OntologyInv, PlanStillValid, StillValid
<1> QED
  BY <1>3, <1>4, <1>5, <1>6 DEF OntologyInv

LEMMA LockStep ==
  ASSUME OntologyInv, NEW w \in Writers, LockBlueprints(w) \/ LockEntities(w)
  PROVE  OntologyInv'
<1> DEFINE t == IF pc[w] = "lockBlueprints" THEN "blueprints" ELSE "entities"
           next == IF pc[w] = "lockBlueprints" /\ kind[w] = "entity" THEN "lockEntities" ELSE "read"
<1>1. /\ pc[w] \in {"lockBlueprints", "lockEntities"}
      /\ Lock(w, t, next)
  BY DEF LockBlueprints, LockEntities
<1>2. /\ pc' \in [Writers -> {"idle", "lockBlueprints", "lockEntities", "read", "write"}]
      /\ ahead' \in [Writers -> SUBSET Writers]
      /\ pc'[w] = next
      /\ \A v \in Writers \ {w} : pc'[v] = pc[v]
  BY <1>1, MoveToType DEF OntologyInv, Lock
<1>3. /\ held' = [held EXCEPT ![w][t] = ModeOf(kind[w], t)]
      /\ kind' = kind /\ plan' = plan
      /\ blueprints' = blueprints /\ entities' = entities /\ revision' = revision
      /\ \A v \in Writers \ {w} : ~Conflict(ModeOf(kind[w], t), held[v][t])
  BY <1>1 DEF Lock, Grantable, registryVars
<1>4. /\ ModeOf(kind[w], t) \in Modes
      /\ t \in Tables
      /\ held \in [Writers -> [Tables -> Modes]]
  BY DEF ModeOf, BlueprintsMode, EntitiesMode, Modes, Tables, OntologyInv, TypeOK
<1>5. held' \in [Writers -> [Tables -> Modes]]
  BY <1>3, <1>4
<1>6. TypeOK'
  BY <1>2, <1>3, <1>5 DEF OntologyInv, TypeOK, RegistryTypeOK, PlanOK
<1>7. LocksHeld'
  <2>1. \A v \in Writers \ {w} : held'[v] = held[v]
    BY <1>3, <1>4
  <2>2. held'[w][t] = ModeOf(kind[w], t) /\ \A u \in Tables \ {t} : held'[w][u] = held[w][u]
    BY <1>3, <1>4
  <2>3. CASE pc[w] = "lockBlueprints"
    BY <1>2, <1>3, <2>1, <2>2, <2>3
    DEF OntologyInv, LocksHeld, Locked, ModeOf, BlueprintsMode, EntitiesMode, Tables
  <2>4. CASE pc[w] = "lockEntities"
    BY <1>2, <1>3, <2>1, <2>2, <2>4
    DEF OntologyInv, LocksHeld, Locked, ModeOf, BlueprintsMode, EntitiesMode, Tables
  <2> QED
    BY <1>1, <2>3, <2>4
<1>8. LocksCompatible'
  <2> SUFFICES ASSUME NEW u \in Writers, NEW v \in Writers, u # v, NEW s \in Tables
               PROVE  ~Conflict(held'[u][s], held'[v][s])
    BY DEF LocksCompatible
  <2>1. ~Conflict(held[u][s], held[v][s])
    BY DEF OntologyInv, LocksCompatible
  <2> QED
    BY <1>3, <1>4, <2>1 DEF Conflict
<1>9. PlanStillValid'
  BY <1>2, <1>3 DEF OntologyInv, PlanStillValid, StillValid
<1> QED
  BY <1>6, <1>7, <1>8, <1>9 DEF OntologyInv

\* Ending without a write: a refusal, a unique violation, an abort.
LEMMA EndStep ==
  ASSUME OntologyInv, NEW w \in Writers, EndTransaction(w), RegistryTypeOK',
         \A v \in Writers \ {w} : pc[v] = "write" => UNCHANGED <<blueprints, entities>>
  PROVE  OntologyInv'
<1>1. /\ pc' \in [Writers -> {"idle", "lockBlueprints", "lockEntities", "read", "write"}]
      /\ ahead' \in [Writers -> SUBSET Writers]
      /\ pc'[w] = "idle"
      /\ \A v \in Writers \ {w} : pc'[v] = pc[v]
  BY MoveToType DEF OntologyInv, EndTransaction
<1>2. /\ kind' = [kind EXCEPT ![w] = "none"]
      /\ held' = [held EXCEPT ![w] = Unlocked]
      /\ plan' = [plan EXCEPT ![w] = NoPlan]
  BY DEF EndTransaction
<1>3. Unlocked \in [Tables -> Modes]
  BY DEF Unlocked, Modes
<1>4. PlanOK(NoPlan)
  BY DEF PlanOK, NoPlan
<1>5. \A v \in Writers : plan'[v] = plan[v] \/ plan'[v] = NoPlan
  BY <1>2
<1>6. \A v \in Writers \ {w} : plan'[v] = plan[v] /\ kind'[v] = kind[v] /\ held'[v] = held[v]
  BY <1>2 DEF OntologyInv, TypeOK
<1>7. TypeOK'
  BY <1>1, <1>2, <1>3, <1>4, <1>5 DEF OntologyInv, TypeOK
<1>8. LocksHeld'
  BY <1>1, <1>6 DEF OntologyInv, LocksHeld, Locked
<1>9. LocksCompatible'
  <2> SUFFICES ASSUME NEW u \in Writers, NEW v \in Writers, u # v, NEW s \in Tables
               PROVE  ~Conflict(held'[u][s], held'[v][s])
    BY DEF LocksCompatible
  <2>1. ~Conflict(held[u][s], held[v][s])
    BY DEF OntologyInv, LocksCompatible
  <2> QED
    BY <1>2, <2>1 DEF OntologyInv, TypeOK, Conflict, Unlocked
<1>10. PlanStillValid'
  BY <1>1, <1>6 DEF OntologyInv, PlanStillValid, StillValid
<1> QED
  BY <1>7, <1>8, <1>9, <1>10 DEF OntologyInv

-----------------------------------------------------------------------------
(* Deciding and writing *)

\* The plan w decides on is the one its verdict was about.
LEMMA DecideStep ==
  ASSUME OntologyInv, NEW w \in Writers, NEW k, NEW p, Decide(w, k, p), PlanOK(p), StillValid(p)
  PROVE  OntologyInv'
<1>1. /\ pc' \in [Writers -> {"idle", "lockBlueprints", "lockEntities", "read", "write"}]
      /\ ahead' \in [Writers -> SUBSET Writers]
      /\ pc'[w] = "write"
      /\ \A v \in Writers \ {w} : pc'[v] = pc[v]
      /\ pc[w] = "read"
  BY MoveToType DEF OntologyInv, Decide
<1>2. /\ plan' = [plan EXCEPT ![w] = p]
      /\ kind' = kind /\ held' = held
      /\ blueprints' = blueprints /\ entities' = entities /\ revision' = revision
  BY DEF Decide, registryVars
<1>3. plan'[w] = p /\ \A v \in Writers \ {w} : plan'[v] = plan[v]
  BY <1>2 DEF OntologyInv, TypeOK
<1>4. TypeOK'
  BY <1>1, <1>2, <1>3 DEF OntologyInv, TypeOK, RegistryTypeOK
<1>5. LocksHeld'
  BY <1>1, <1>2 DEF OntologyInv, LocksHeld, Locked
<1>6. LocksCompatible'
  BY <1>2 DEF OntologyInv, LocksCompatible
<1>7. PlanStillValid'
  BY <1>1, <1>2, <1>3 DEF OntologyInv, PlanStillValid, StillValid
<1> QED
  BY <1>4, <1>5, <1>6, <1>7 DEF OntologyInv

LEMMA AcceptStep ==
  ASSUME OntologyInv, NEW w \in Writers, Accept(w)
  PROVE  OntologyInv'
<1>1. ASSUME NEW id \in BlueprintIds, NEW req \in BlueprintRequest, DecideCreateBlueprint(w, id, req)
      PROVE  OntologyInv'
  <2> DEFINE p == [op |-> "createBlueprint", id |-> id, req |-> req, snap |-> blueprints]
  <2>1. Decide(w, "blueprint", p)
    BY <1>1 DEF DecideCreateBlueprint
  <2>2. PlanOK(p) /\ StillValid(p)
    BY <1>1 DEF PlanOK, StillValid, DecideCreateBlueprint, OntologyInv, TypeOK, RegistryTypeOK
  <2> QED
    BY <2>1, <2>2, DecideStep
<1>2. ASSUME NEW id \in BlueprintIds, NEW req \in BlueprintRequest, DecideUpdateBlueprint(w, id, req)
      PROVE  OntologyInv'
  <2> DEFINE p == [op |-> "updateBlueprint", id |-> id, req |-> req, snap |-> blueprints]
  <2>1. Decide(w, "blueprint", p)
    BY <1>2 DEF DecideUpdateBlueprint
  <2>2. PlanOK(p) /\ StillValid(p)
    BY <1>2 DEF PlanOK, StillValid, DecideUpdateBlueprint, OntologyInv, TypeOK, RegistryTypeOK
  <2> QED
    BY <2>1, <2>2, DecideStep
<1>3. ASSUME NEW id \in BlueprintIds, DecideDeleteBlueprint(w, id)
      PROVE  OntologyInv'
  <2> DEFINE p == [op |-> "deleteBlueprint", id |-> id]
  <2>1. Decide(w, "blueprint", p)
    BY <1>3 DEF DecideDeleteBlueprint
  <2>2. PlanOK(p) /\ StillValid(p)
    BY <1>3 DEF PlanOK, StillValid, DecideDeleteBlueprint
  <2> QED
    BY <2>1, <2>2, DecideStep
<1>4. ASSUME NEW id \in EntityIds, NEW b \in BlueprintIds, NEW req \in EntityRequest,
             DecideCreateEntity(w, id, b, req)
      PROVE  OntologyInv'
  <2> DEFINE p == [op |-> "createEntity", id |-> id, bp |-> b, req |-> req]
  <2>1. Decide(w, "entity", p)
    BY <1>4 DEF DecideCreateEntity
  <2>2. PlanOK(p) /\ StillValid(p)
    BY <1>4 DEF PlanOK, StillValid, DecideCreateEntity
  <2> QED
    BY <2>1, <2>2, DecideStep
<1>5. ASSUME NEW id \in EntityIds, NEW req \in EntityRequest, DecideUpdateEntity(w, id, req)
      PROVE  OntologyInv'
  <2> DEFINE p == [op |-> "updateEntity", id |-> id, req |-> req, snap |-> blueprints]
  <2>1. Decide(w, "entity", p)
    BY <1>5 DEF DecideUpdateEntity
  <2>2. PlanOK(p) /\ StillValid(p)
    BY <1>5 DEF PlanOK, StillValid, DecideUpdateEntity, OntologyInv, TypeOK, RegistryTypeOK
  <2> QED
    BY <2>1, <2>2, DecideStep
<1>6. ASSUME NEW id \in EntityIds, DecideDeleteEntity(w, id)
      PROVE  OntologyInv'
  <2> DEFINE p == [op |-> "deleteEntity", id |-> id]
  <2>1. Decide(w, "entity", p)
    BY <1>6 DEF DecideDeleteEntity
  <2>2. PlanOK(p) /\ StillValid(p)
    BY <1>6 DEF PlanOK, StillValid, DecideDeleteEntity
  <2> QED
    BY <2>1, <2>2, DecideStep
<1> QED
  BY <1>1, <1>2, <1>3, <1>4, <1>5, <1>6 DEF Accept

\* A step past the locks does to the tables what one operation of the registry
\* does, or nothing.
LEMMA WriteRefines ==
  ASSUME OntologyInv, NEW w \in Writers, Write(w)
  PROVE  [RegistryNext]_registryVars
<1> DEFINE p == plan[w]
<1>1. PlanOK(p) /\ (pc[w] = "write" => StillValid(p))
  BY DEF OntologyInv, TypeOK, PlanStillValid
<1>2. CASE WriteCreateBlueprint(w)
  <2>1. CreateBlueprint(p.id, p.req) /\ p.id \in BlueprintIds /\ p.req \in BlueprintRequest
    BY <1>1, <1>2 DEF WriteCreateBlueprint, Commit, StillValid, PlanOK, CreateBlueprint
  <2> QED
    BY <2>1 DEF RegistryNext
<1>3. CASE WriteUpdateBlueprint(w)
  <2>1. UpdateBlueprint(p.id, p.req) /\ p.id \in BlueprintIds /\ p.req \in BlueprintRequest
    BY <1>1, <1>3 DEF WriteUpdateBlueprint, Commit, StillValid, PlanOK, UpdateBlueprint
  <2> QED
    BY <2>1 DEF RegistryNext
<1>4. CASE WriteDeleteBlueprint(w)
  <2>1. DeleteBlueprint(p.id) /\ p.id \in BlueprintIds
    BY <1>1, <1>4 DEF WriteDeleteBlueprint, Commit, StillValid, PlanOK, DeleteBlueprint
  <2> QED
    BY <2>1 DEF RegistryNext
<1>5. CASE WriteCreateEntity(w)
  <2>1. /\ CreateEntity(p.id, p.bp, p.req)
        /\ p.id \in EntityIds /\ p.bp \in BlueprintIds /\ p.req \in EntityRequest
    BY <1>1, <1>5 DEF WriteCreateEntity, Commit, StillValid, PlanOK, CreateEntity
  <2> QED
    BY <2>1 DEF RegistryNext
<1>6. CASE WriteUpdateEntity(w)
  <2>1. UpdateEntity(p.id, p.req) /\ p.id \in EntityIds /\ p.req \in EntityRequest
    BY <1>1, <1>6 DEF WriteUpdateEntity, Commit, StillValid, PlanOK, UpdateEntity
  <2> QED
    BY <2>1 DEF RegistryNext
<1>7. CASE WriteDeleteEntity(w)
  <2>1. DeleteEntity(p.id) /\ p.id \in EntityIds
    BY <1>1, <1>7 DEF WriteDeleteEntity, Commit, StillValid, PlanOK, DeleteEntity
  <2> QED
    BY <2>1 DEF RegistryNext
<1>8. CASE UniqueViolation(w)
  BY <1>8 DEF UniqueViolation
<1> QED
  BY <1>2, <1>3, <1>4, <1>5, <1>6, <1>7, <1>8 DEF Write

\* Every step of the transactions is a step of the registry, or changes no table.
LEMMA StepRefines ==
  ASSUME OntologyInv, Next
  PROVE  [RegistryNext]_registryVars
<1>1. PICK w \in Writers :
        \/ \E k \in {"blueprint", "entity"} : Begin(w, k)
        \/ LockBlueprints(w) \/ LockEntities(w)
        \/ Accept(w) \/ Refuse(w) \/ Write(w) \/ Abort(w)
  BY DEF Next
<1>2. CASE Write(w)
  BY <1>2, WriteRefines
<1>3. CASE Accept(w)
  BY <1>3 DEF Accept, Decide, DecideCreateBlueprint, DecideUpdateBlueprint, DecideDeleteBlueprint,
              DecideCreateEntity, DecideUpdateEntity, DecideDeleteEntity
<1>4. CASE \/ \E k \in {"blueprint", "entity"} : Begin(w, k)
           \/ LockBlueprints(w) \/ LockEntities(w) \/ Refuse(w) \/ Abort(w)
  BY <1>4 DEF Begin, LockBlueprints, LockEntities, Lock, Refuse, Abort
<1> QED
  BY <1>1, <1>2, <1>3, <1>4

LEMMA WriteStep ==
  ASSUME OntologyInv, RegistryInv, NEW w \in Writers, Refuse(w) \/ Write(w) \/ Abort(w)
  PROVE  OntologyInv'
<1>1. EndTransaction(w)
  BY DEF Refuse, Write, Abort, Commit, UniqueViolation, WriteCreateBlueprint, WriteUpdateBlueprint,
         WriteDeleteBlueprint, WriteCreateEntity, WriteUpdateEntity, WriteDeleteEntity
<1>2. [RegistryNext]_registryVars
  BY WriteRefines DEF Refuse, Abort
<1>3. RegistryTypeOK'
  BY <1>2, NextInv DEF RegistryInv
<1>4. pc[w] = "write" \/ UNCHANGED registryVars
  BY DEF Refuse, Write, Abort, Commit, UniqueViolation, WriteCreateBlueprint, WriteUpdateBlueprint,
         WriteDeleteBlueprint, WriteCreateEntity, WriteUpdateEntity, WriteDeleteEntity
<1>5. \A v \in Writers \ {w} : pc[v] = "write" => UNCHANGED <<blueprints, entities>>
  BY <1>4, Exclusion DEF OntologyInv, Locked, registryVars
<1> QED
  BY <1>1, <1>3, <1>5, EndStep

LEMMA NextOntologyInv == OntologyInv /\ RegistryInv /\ [Next]_vars => OntologyInv' /\ RegistryInv'
<1> SUFFICES ASSUME OntologyInv, RegistryInv, [Next]_vars PROVE OntologyInv' /\ RegistryInv'
  OBVIOUS
<1>1. CASE UNCHANGED vars
  <2>1. OntologyInv'
    BY <1>1 DEF vars, OntologyInv, TypeOK, RegistryTypeOK, LocksHeld, Locked, LocksCompatible,
                PlanStillValid, StillValid
  <2>2. RegistryInv'
    BY <1>1, NextInv DEF vars, registryVars
  <2> QED
    BY <2>1, <2>2
<1>2. CASE Next
  <2>1. RegistryInv'
    BY <1>2, StepRefines, NextInv
  <2>2. OntologyInv'
    BY <1>2, BeginStep, LockStep, AcceptStep, WriteStep DEF Next
  <2> QED
    BY <2>1, <2>2
<1> QED
  BY <1>1, <1>2
-----------------------------------------------------------------------------
(* Theorems *)

THEOREM OntologyInvariant == Spec => [](OntologyInv /\ RegistryInv)
<1>1. Init => OntologyInv /\ RegistryInv
  BY InitOntologyInv, InitInv DEF Init
<1> QED
  BY <1>1, NextOntologyInv, PTL DEF Spec

\* Every variable keeps its type.
THEOREM TypeCorrect == Spec => []TypeOK
<1>1. OntologyInv => TypeOK
  BY DEF OntologyInv
<1> QED
  BY <1>1, OntologyInvariant, PTL

\* A plan decided under the locks is still valid when it is written.
THEOREM PlansStayValid == Spec => []PlanStillValid
<1>1. OntologyInv => PlanStillValid
  BY DEF OntologyInv
<1> QED
  BY <1>1, OntologyInvariant, PTL

\* The transactions implement the atomic registry.
THEOREM Refinement == Spec => ImplementsRegistry
<1>1. Init => RegistryInit
  BY DEF Init
<1>2. OntologyInv /\ [Next]_vars => [RegistryNext]_registryVars
  BY StepRefines DEF vars, registryVars
<1> QED
  BY <1>1, <1>2, OntologyInvariant, PTL DEF Spec, RegistrySpec, ImplementsRegistry

\* However writers interleave, every relation of an active blueprint resolves,
\* every entity has its blueprint and every stored team exists.
THEOREM RegistryHolds == Spec => []ReferencesResolve
<1>1. RegistryInv => ReferencesResolve
  BY DEF RegistryInv, ReferencesResolve
<1> QED
  BY <1>1, OntologyInvariant, PTL

\* Two creates never both fill the last place.
THEOREM CapsAlwaysHold == Spec => []CapsHold
BY Refinement, CapsTheorem DEF ImplementsRegistry

-----------------------------------------------------------------------------
(* References follow the row they name *)

\* Active rows have names, and no two entities of a blueprint have the same.
RowsNamed ==
  /\ \A b \in ActiveBlueprints(blueprints) : blueprints[b].name \in Names
  /\ \A e \in ActiveEntities(entities) : entities[e].name \in EntityNames

UniqueEntityNames == \A e, f \in ActiveEntities(entities) :
  entities[e].bp = entities[f].bp /\ entities[e].name = entities[f].name => e = f

NamesInv == RowsNamed /\ UniqueEntityNames

\* A relation keeps its target row; a reference whose relation does keeps its own.
RelationFollows(b, k) == RelationTarget(blueprints', b, k) = RelationTarget(blueprints, b, k)

ReferenceFollows(e, k) ==
  /\ RelationTarget(blueprints', entities[e].bp, k) = RelationTarget(blueprints, entities[e].bp, k)
  /\ RefTargets(blueprints, entities, e, k) # {}
  => RefTargets(blueprints', entities', e, k) = RefTargets(blueprints, entities, e, k)

\* A reference names the entities of its relation's targets that carry its name.
LEMMA RefTargetsOf ==
  ASSUME NEW bps, NEW ents, NEW e, NEW k
  PROVE  RefTargets(bps, ents, e, k) =
           {x \in ActiveEntities(ents) :
              ents[x].name = ents[e].refs[k] /\ ents[x].bp \in RelationTarget(bps, ents[e].bp, k)}
BY DEF RefTargets, Matches, RelationTarget

LEMMA CreateBlueprintFollows ==
  ASSUME RegistryInv, NamesInv, NEW id \in BlueprintIds, NEW req \in BlueprintRequest, CreateBlueprint(id, req)
  PROVE  /\ NamesInv' /\ entities' = entities
         /\ \A b \in ActiveBlueprints(blueprints), k \in Keys : RelationFollows(b, k)
<1>1. /\ blueprints \in [BlueprintIds -> BlueprintRow] /\ id \notin ActiveBlueprints(blueprints)
      /\ req.name \in Names /\ None \notin Names /\ entities' = entities
      /\ \A b \in ActiveBlueprints(blueprints) : blueprints[b].name # req.name
      /\ \A b \in BlueprintIds \ {id} : blueprints'[b] = blueprints[b]
      /\ blueprints'[id].name = req.name /\ blueprints'[id].st = "active"
  BY RegistryAssumption DEF RegistryInv, RegistryTypeOK, CreateBlueprint, CanCreateBlueprint, BlueprintNameFree,
     ActiveBlueprints, BlueprintInserted, BlueprintRequest
<1>2. ActiveBlueprints(blueprints') = ActiveBlueprints(blueprints) \cup {id}
  BY <1>1 DEF ActiveBlueprints
<1>3. NamesInv'
  BY <1>1, <1>2 DEF NamesInv, RowsNamed, UniqueEntityNames, ActiveBlueprints
<1>4. ASSUME NEW b \in ActiveBlueprints(blueprints), NEW k \in Keys PROVE RelationFollows(b, k)
  <2>1. b \in BlueprintIds \ {id}
    BY <1>1 DEF ActiveBlueprints
  <2>2. blueprints[b].rels[k] # req.name
    BY <1>1 DEF RegistryInv, BlueprintTargetsResolve, Targets, KnownTargets
  <2> QED
    BY <1>1, <1>2, <2>1, <2>2 DEF RelationFollows, RelationTarget, ActiveBlueprints
<1> QED
  BY <1>1, <1>3, <1>4

LEMMA UpdateBlueprintFollows ==
  ASSUME RegistryInv, NamesInv, NEW id \in BlueprintIds, NEW req \in BlueprintRequest, UpdateBlueprint(id, req)
  PROVE  /\ NamesInv' /\ entities' = entities
         /\ \A b \in ActiveBlueprints(blueprints) \ {id}, k \in Keys : RelationFollows(b, k)
<1> DEFINE old == blueprints[id].name
           new == req.name
<1>1. /\ blueprints \in [BlueprintIds -> BlueprintRow] /\ id \in ActiveBlueprints(blueprints)
      /\ new \in Names /\ None \notin Names /\ entities' = entities /\ old \in Names
      /\ \A b \in ActiveBlueprints(blueprints) \ {id} : blueprints[b].name # new
  BY RegistryAssumption DEF RegistryInv, RegistryTypeOK, UpdateBlueprint, CanUpdateBlueprint, BlueprintNameFree,
     ActiveBlueprints, BlueprintRequest, NamesInv, RowsNamed
<1>2. /\ blueprints'[id].name = new
      /\ \A b \in BlueprintIds : blueprints'[b].st = blueprints[b].st
      /\ \A b \in BlueprintIds \ {id} : blueprints'[b].name = blueprints[b].name
  BY <1>1 DEF UpdateBlueprint, BlueprintReplaced, BlueprintRow
<1>3. ActiveBlueprints(blueprints') = ActiveBlueprints(blueprints)
  BY <1>2 DEF ActiveBlueprints
<1>4. NamesInv'
  BY <1>1, <1>2, <1>3 DEF NamesInv, RowsNamed, UniqueEntityNames, ActiveBlueprints
<1>5. ASSUME NEW b \in ActiveBlueprints(blueprints) \ {id}, NEW k \in Keys PROVE RelationFollows(b, k)
  <2>1. b \in BlueprintIds /\ blueprints[b].st = "active"
    BY DEF ActiveBlueprints
  <2>2. blueprints'[b].rels[k] = IF blueprints[b].rels[k] = old THEN new ELSE blueprints[b].rels[k]
    <3>1. CASE old # new /\ old \in Targets(blueprints[b].rels)
      <4>1. blueprints'[b].rels = RenameTarget(blueprints[b].rels, old, new)
        BY <1>1, <2>1, <3>1 DEF UpdateBlueprint, BlueprintReplaced, BlueprintRow
      <4> QED
        BY <4>1 DEF RenameTarget
    <3>2. CASE ~(old # new /\ old \in Targets(blueprints[b].rels))
      <4>1. blueprints'[b] = blueprints[b]
        BY <1>1, <2>1, <3>2 DEF UpdateBlueprint, BlueprintReplaced
      <4>2. old = new \/ blueprints[b].rels[k] # old
        BY <1>1, <3>2 DEF Targets
      <4> QED
        BY <4>1, <4>2
    <3> QED
      BY <3>1, <3>2
  <2>3. \A t \in ActiveBlueprints(blueprints) :
          blueprints'[t].name = blueprints'[b].rels[k] <=> blueprints[t].name = blueprints[b].rels[k]
    <3> SUFFICES ASSUME NEW t \in ActiveBlueprints(blueprints)
                 PROVE  blueprints'[t].name = blueprints'[b].rels[k] <=> blueprints[t].name = blueprints[b].rels[k]
      OBVIOUS
    <3>1. t # id => blueprints'[t].name = blueprints[t].name /\ blueprints[t].name # new
                    /\ blueprints[t].name # old
      BY <1>1, <1>2 DEF ActiveBlueprints, RegistryInv, UniqueNames
    <3>2. t = id /\ blueprints[b].rels[k] # old => blueprints[b].rels[k] # new
      <4>1. ASSUME blueprints[b].rels[k] = new, new # old PROVE FALSE
        <5>1. new \in Targets(blueprints[b].rels)
          BY <1>1, <4>1 DEF Targets
        <5>2. PICK u \in ActiveBlueprints(blueprints) : blueprints[u].name = new
          BY <5>1 DEF RegistryInv, BlueprintTargetsResolve, KnownTargets
        <5> QED
          BY <1>1, <4>1, <5>2
      <4> QED
        BY <4>1
    <3> QED
      BY <1>2, <2>2, <3>1, <3>2
  <2> QED
    BY <1>3, <2>3 DEF RelationFollows, RelationTarget
<1> QED
  BY <1>1, <1>4, <1>5

LEMMA DeleteBlueprintFollows ==
  ASSUME RegistryInv, NamesInv, NEW id \in BlueprintIds, DeleteBlueprint(id)
  PROVE  /\ NamesInv' /\ entities' = entities
         /\ \A b \in ActiveBlueprints(blueprints) \ {id}, k \in Keys : RelationFollows(b, k)
         /\ id \notin ActiveBlueprints(blueprints')
<1>1. /\ blueprints \in [BlueprintIds -> BlueprintRow] /\ id \in ActiveBlueprints(blueprints)
      /\ None \notin Names /\ entities' = entities
      /\ \A b \in ActiveBlueprints(blueprints) \ {id} : blueprints[id].name \notin Targets(blueprints[b].rels)
  BY RegistryAssumption DEF RegistryInv, RegistryTypeOK, DeleteBlueprint, CanDeleteBlueprint, ActiveBlueprints
<1>2. /\ blueprints'[id].st = "deleted"
      /\ \A b \in BlueprintIds \ {id} : blueprints'[b] = blueprints[b]
  BY <1>1 DEF DeleteBlueprint, BlueprintDeleted, BlueprintRow
<1>3. ActiveBlueprints(blueprints') = ActiveBlueprints(blueprints) \ {id}
  BY <1>2 DEF ActiveBlueprints
<1>4. NamesInv'
  BY <1>1, <1>2, <1>3 DEF NamesInv, RowsNamed, UniqueEntityNames, ActiveBlueprints
<1>5. ASSUME NEW b \in ActiveBlueprints(blueprints) \ {id}, NEW k \in Keys PROVE RelationFollows(b, k)
  <2>1. blueprints[id].name # blueprints[b].rels[k]
    BY <1>1 DEF NamesInv, RowsNamed, Targets
  <2> QED
    BY <1>2, <1>3, <2>1 DEF RelationFollows, RelationTarget, ActiveBlueprints
<1> QED
  BY <1>1, <1>3, <1>4, <1>5

LEMMA CreateEntityFollows ==
  ASSUME RegistryInv, NamesInv, NEW id \in EntityIds, NEW b \in BlueprintIds, NEW req \in EntityRequest,
         CreateEntity(id, b, req)
  PROVE  /\ NamesInv' /\ blueprints' = blueprints
         /\ \A e \in ActiveEntities(entities), k \in Keys : ReferenceFollows(e, k)
<1>1. /\ entities \in [EntityIds -> EntityRow] /\ id \notin ActiveEntities(entities)
      /\ blueprints' = blueprints /\ req.name \in EntityNames
      /\ \A e \in ActiveEntities(entities) : ~(entities[e].bp = b /\ entities[e].name = req.name)
      /\ \A e \in EntityIds \ {id} : entities'[e] = entities[e]
      /\ entities'[id].name = req.name /\ entities'[id].st = "active" /\ entities'[id].bp = b
  BY DEF RegistryInv, RegistryTypeOK, CreateEntity, CanCreateEntity, EntityNameFree,
     ActiveEntities, EntityInserted, EntityRequest
<1>2. ActiveEntities(entities') = ActiveEntities(entities) \cup {id}
  BY <1>1 DEF ActiveEntities
<1>3. NamesInv'
  BY <1>1, <1>2 DEF NamesInv, RowsNamed, UniqueEntityNames, ActiveEntities
<1>4. ASSUME NEW e \in ActiveEntities(entities), NEW k \in Keys,
             RefTargets(blueprints, entities, e, k) # {}
      PROVE  RefTargets(blueprints, entities', e, k) = RefTargets(blueprints, entities, e, k)
  <2> DEFINE T == RelationTarget(blueprints, entities[e].bp, k)
             refers(x) == entities[x].name = entities[e].refs[k] /\ entities[x].bp \in T
  <2>1. RefTargets(blueprints, entities, e, k) = {x \in ActiveEntities(entities) : refers(x)}
    BY RefTargetsOf
  <2>2. PICK x \in ActiveEntities(entities) : refers(x)
    BY <1>4, <2>1
  <2>3. ~(req.name = entities[e].refs[k] /\ b \in T)
    BY <1>1, <2>2 DEF RelationTarget, RegistryInv, UniqueNames
  <2>4. e \in EntityIds \ {id} /\ ActiveEntities(entities) \subseteq EntityIds \ {id}
    BY <1>1 DEF ActiveEntities
  <2>5. RefTargets(blueprints, entities', e, k) =
          {y \in ActiveEntities(entities') :
             entities'[y].name = entities[e].refs[k] /\ entities'[y].bp \in T}
    BY <1>1, <2>4, RefTargetsOf
  <2> QED
    BY <1>1, <1>2, <2>1, <2>3, <2>4, <2>5
<1> QED
  BY <1>1, <1>3, <1>4 DEF ReferenceFollows

LEMMA UpdateEntityFollows ==
  ASSUME RegistryInv, NamesInv, NEW id \in EntityIds, NEW req \in EntityRequest, UpdateEntity(id, req)
  PROVE  /\ NamesInv' /\ blueprints' = blueprints
         /\ \A e \in ActiveEntities(entities) \ {id}, k \in Keys : ReferenceFollows(e, k)
<1> DEFINE old == entities[id].name
           new == req.name
           home == entities[id].bp
<1>1. /\ entities \in [EntityIds -> EntityRow] /\ id \in ActiveEntities(entities)
      /\ blueprints' = blueprints /\ new \in EntityNames /\ home \in ActiveBlueprints(blueprints)
      /\ \A e \in ActiveEntities(entities) \ {id} : ~(entities[e].bp = home /\ entities[e].name = new)
  BY DEF RegistryInv, RegistryTypeOK, UpdateEntity, CanUpdateEntity, EntityNameFree, EntityRow,
     ActiveEntities, ActiveBlueprints, EntityRequest
<1>2. /\ entities'[id].name = new
      /\ \A e \in EntityIds : entities'[e].st = entities[e].st /\ entities'[e].bp = entities[e].bp
      /\ \A e \in EntityIds \ {id} : entities'[e].name = entities[e].name
  BY <1>1 DEF UpdateEntity, EntityReplaced, EntityRow
<1>3. ActiveEntities(entities') = ActiveEntities(entities)
  BY <1>2 DEF ActiveEntities
<1>4. NamesInv'
  BY <1>1, <1>2, <1>3 DEF NamesInv, RowsNamed, UniqueEntityNames, ActiveEntities
<1>5. ASSUME NEW e \in ActiveEntities(entities) \ {id}, NEW k \in Keys,
             RefTargets(blueprints, entities, e, k) # {}
      PROVE  RefTargets(blueprints, entities', e, k) = RefTargets(blueprints, entities, e, k)
  <2> DEFINE T == RelationTarget(blueprints, entities[e].bp, k)
             target == blueprints[entities[e].bp].rels[k]
             ref == entities[e].refs[k]
             follows == target = blueprints[home].name /\ ref = old
             refers(x) == entities[x].name = ref /\ entities[x].bp \in T
  <2>1. e \in EntityIds /\ entities[e].st = "active"
    BY DEF ActiveEntities
  <2>2. entities'[e].refs[k] = IF follows THEN new ELSE ref
    <3>1. CASE old # new
      <4>1. entities'[e].refs =
              RenameRefs(blueprints[entities[e].bp].rels, entities[e].refs, blueprints[home].name, old, new)
        BY <1>1, <2>1, <3>1 DEF UpdateEntity, EntityReplaced, EntityRow
      <4> QED
        BY <4>1 DEF RenameRefs
    <3>2. CASE old = new
      BY <1>1, <2>1, <3>2 DEF UpdateEntity, EntityReplaced
    <3> QED
      BY <3>1, <3>2
  <2>3. RefTargets(blueprints, entities, e, k) = {x \in ActiveEntities(entities) : refers(x)}
    BY RefTargetsOf
  <2>4. PICK x0 \in ActiveEntities(entities) : refers(x0)
    BY <1>5, <2>3
  <2>5. RefTargets(blueprints, entities', e, k) =
          {y \in ActiveEntities(entities') : entities'[y].name = entities'[e].refs[k] /\ entities'[y].bp \in T}
    BY <1>2, <2>1, RefTargetsOf
  <2>6. home \in T <=> target = blueprints[home].name
    BY <1>1 DEF RelationTarget
  <2>7. \A s, t \in T : s = t
    BY DEF RelationTarget, RegistryInv, UniqueNames
  <2>8. ASSUME NEW y \in ActiveEntities(entities)
        PROVE  (entities'[y].name = entities'[e].refs[k] /\ entities'[y].bp \in T) <=> refers(y)
    <3>1. y \in EntityIds /\ entities'[y].bp = entities[y].bp
      BY <1>2 DEF ActiveEntities
    <3>2. CASE y = id
      <4>1. home \in T /\ ref # old => ref # new
        BY <1>1, <2>4, <2>7
      <4> QED
        BY <1>2, <2>2, <2>6, <3>1, <3>2, <4>1
    <3>3. CASE y # id
      <4>1. entities'[y].name = entities[y].name
        BY <1>2, <3>1, <3>3
      <4>2. CASE follows
        <5>1. entities[y].bp \in T => entities[y].name # new /\ entities[y].name # old
          BY <1>1, <2>6, <2>7, <3>3, <4>2 DEF NamesInv, UniqueEntityNames
        <5> QED
          BY <2>2, <3>1, <4>1, <4>2, <5>1
      <4>3. CASE ~follows
        BY <2>2, <3>1, <4>1, <4>3
      <4> QED
        BY <4>2, <4>3
    <3> QED
      BY <3>2, <3>3
  <2> QED
    BY <1>3, <2>3, <2>5, <2>8
<1> QED
  BY <1>1, <1>4, <1>5 DEF ReferenceFollows

LEMMA DeleteEntityFollows ==
  ASSUME RegistryInv, NamesInv, NEW id \in EntityIds, DeleteEntity(id)
  PROVE  /\ NamesInv' /\ blueprints' = blueprints
         /\ \A e \in ActiveEntities(entities) \ {id}, k \in Keys : ReferenceFollows(e, k)
         /\ id \notin ActiveEntities(entities')
<1>1. /\ entities \in [EntityIds -> EntityRow] /\ id \in ActiveEntities(entities) /\ blueprints' = blueprints
      /\ \A x \in ActiveEntities(entities) \ {id} : ~Refers(blueprints, entities, x, id)
  BY DEF RegistryInv, RegistryTypeOK, DeleteEntity, CanDeleteEntity, ActiveEntities
<1>2. /\ entities'[id].st = "deleted"
      /\ \A e \in EntityIds \ {id} : entities'[e] = entities[e]
  BY <1>1 DEF DeleteEntity, EntityDeleted, EntityRow
<1>3. ActiveEntities(entities') = ActiveEntities(entities) \ {id}
  BY <1>2 DEF ActiveEntities
<1>4. NamesInv'
  BY <1>1, <1>2, <1>3 DEF NamesInv, RowsNamed, UniqueEntityNames, ActiveEntities
<1>5. ASSUME NEW e \in ActiveEntities(entities) \ {id}, NEW k \in Keys
      PROVE  RefTargets(blueprints, entities', e, k) = RefTargets(blueprints, entities, e, k)
  <2>1. entities'[e] = entities[e] /\ \A x \in ActiveEntities(entities) \ {id} : entities'[x] = entities[x]
    BY <1>2 DEF ActiveEntities
  <2>2. id \notin RefTargets(blueprints, entities, e, k)
    BY <1>1 DEF RefTargets, Matches, Refers
  <2> QED
    BY <1>3, <2>1, <2>2 DEF RefTargets, Matches
<1> QED
  BY <1>1, <1>3, <1>4, <1>5 DEF ReferenceFollows

\* A write of blueprints moves a reference only if its relation moves.
LEMMA ReferencesFollowRelations ==
  ASSUME UNCHANGED entities, NEW e, NEW k
  PROVE  ReferenceFollows(e, k)
<1>1. RefTargets(blueprints', entities', e, k) =
        {x \in ActiveEntities(entities) :
           entities[x].name = entities[e].refs[k] /\ entities[x].bp \in RelationTarget(blueprints', entities[e].bp, k)}
  BY RefTargetsOf
<1> QED
  BY <1>1, RefTargetsOf DEF ReferenceFollows

LEMMA StillFollows ==
  ASSUME UNCHANGED registryVars
  PROVE  RelationsFollow /\ ReferencesFollow /\ (NamesInv => NamesInv')
BY DEF RelationsFollow, ReferencesFollow, NamesInv, RowsNamed, UniqueEntityNames, registryVars,
       RelationTarget, RefTargets, Matches, ActiveBlueprints, ActiveEntities

LEMMA NextFollows ==
  ASSUME OntologyInv, RegistryInv, NamesInv, Next
  PROVE  RelationsFollow /\ ReferencesFollow /\ NamesInv'
<1>1. PICK w \in Writers :
        \/ \E k \in {"blueprint", "entity"} : Begin(w, k)
        \/ LockBlueprints(w) \/ LockEntities(w)
        \/ Accept(w) \/ Refuse(w) \/ Write(w) \/ Abort(w)
  BY DEF Next
<1> DEFINE p == plan[w]
<1>2. PlanOK(p) /\ (pc[w] = "write" => StillValid(p))
  BY DEF OntologyInv, TypeOK, PlanStillValid
<1>3. Write(w) => pc[w] = "write" /\ pc'[w] = "idle"
  BY DEF OntologyInv, TypeOK, Write, WriteCreateBlueprint, WriteUpdateBlueprint, WriteDeleteBlueprint,
     WriteCreateEntity, WriteUpdateEntity, WriteDeleteEntity, UniqueViolation, Commit, EndTransaction, MoveTo
<1>4. ASSUME UNCHANGED blueprints, \A e \in ActiveEntities(entities) \cap ActiveEntities(entities'), k \in Keys :
               ~Updates("updateEntity", e) => ReferenceFollows(e, k)
      PROVE  RelationsFollow /\ ReferencesFollow
  BY <1>4 DEF RelationsFollow, ReferencesFollow, ReferenceFollows
<1>5. ASSUME UNCHANGED entities,
             \A b \in ActiveBlueprints(blueprints) \cap ActiveBlueprints(blueprints'), k \in Keys :
               ~Updates("updateBlueprint", b) => RelationFollows(b, k)
      PROVE  RelationsFollow /\ ReferencesFollow
  BY <1>5, ReferencesFollowRelations DEF RelationsFollow, RelationFollows, ReferencesFollow, ReferenceFollows
<1>6. CASE WriteCreateBlueprint(w)
  <2>1. CreateBlueprint(p.id, p.req) /\ p.id \in BlueprintIds /\ p.req \in BlueprintRequest
    BY <1>2, <1>6 DEF WriteCreateBlueprint, Commit, StillValid, PlanOK, CreateBlueprint
  <2> QED
    BY <1>5, <2>1, CreateBlueprintFollows
<1>7. CASE WriteUpdateBlueprint(w)
  <2>1. /\ UpdateBlueprint(p.id, p.req) /\ p.id \in BlueprintIds /\ p.req \in BlueprintRequest
        /\ Updates("updateBlueprint", p.id)
    BY <1>2, <1>3, <1>7 DEF WriteUpdateBlueprint, Commit, StillValid, PlanOK, UpdateBlueprint, Updates, Write
  <2> QED
    BY <1>5, <2>1, UpdateBlueprintFollows
<1>8. CASE WriteDeleteBlueprint(w)
  <2>1. DeleteBlueprint(p.id) /\ p.id \in BlueprintIds
    BY <1>2, <1>8 DEF WriteDeleteBlueprint, Commit, StillValid, PlanOK, DeleteBlueprint
  <2> QED
    BY <1>5, <2>1, DeleteBlueprintFollows
<1>9. CASE WriteCreateEntity(w)
  <2>1. /\ CreateEntity(p.id, p.bp, p.req)
        /\ p.id \in EntityIds /\ p.bp \in BlueprintIds /\ p.req \in EntityRequest
    BY <1>2, <1>9 DEF WriteCreateEntity, Commit, StillValid, PlanOK, CreateEntity
  <2> QED
    BY <1>4, <2>1, CreateEntityFollows
<1>10. CASE WriteUpdateEntity(w)
  <2>1. /\ UpdateEntity(p.id, p.req) /\ p.id \in EntityIds /\ p.req \in EntityRequest
        /\ Updates("updateEntity", p.id)
    BY <1>2, <1>3, <1>10 DEF WriteUpdateEntity, Commit, StillValid, PlanOK, UpdateEntity, Updates, Write
  <2> QED
    BY <1>4, <2>1, UpdateEntityFollows
<1>11. CASE WriteDeleteEntity(w)
  <2>1. DeleteEntity(p.id) /\ p.id \in EntityIds
    BY <1>2, <1>11 DEF WriteDeleteEntity, Commit, StillValid, PlanOK, DeleteEntity
  <2> QED
    BY <1>4, <2>1, DeleteEntityFollows
<1>12. CASE UNCHANGED registryVars
  BY <1>12, StillFollows
<1>13. Accept(w) => UNCHANGED registryVars
  BY DEF Accept, Decide, DecideCreateBlueprint, DecideUpdateBlueprint, DecideDeleteBlueprint,
         DecideCreateEntity, DecideUpdateEntity, DecideDeleteEntity
<1>14. (\/ \E k \in {"blueprint", "entity"} : Begin(w, k)
        \/ LockBlueprints(w) \/ LockEntities(w) \/ Refuse(w) \/ Abort(w) \/ UniqueViolation(w))
       => UNCHANGED registryVars
  BY DEF Begin, LockBlueprints, LockEntities, Lock, Refuse, Abort, UniqueViolation
<1> QED
  BY <1>1, <1>6, <1>7, <1>8, <1>9, <1>10, <1>11, <1>12, <1>13, <1>14 DEF Write

\* Whatever writers rename and delete meanwhile, a relation keeps targeting the row it
\* targeted, and a reference keeps resolving to the entity it resolved to, until it is
\* itself rewritten (BlueprintService.update, EntityService.update and delete).
THEOREM FollowingTargets == Spec => ReferencesFollowTheirTarget
<1>1. Init => NamesInv
  BY RegistryAssumption DEF Init, RegistryInit, NamesInv, RowsNamed, UniqueEntityNames, ActiveBlueprints, ActiveEntities,
     SeededTeam, NoBlueprint, NoEntity
<1>2. OntologyInv /\ RegistryInv /\ NamesInv /\ [Next]_vars
        => NamesInv' /\ [RelationsFollow /\ ReferencesFollow]_vars
  <2> SUFFICES ASSUME OntologyInv, RegistryInv, NamesInv, [Next]_vars
               PROVE  NamesInv' /\ [RelationsFollow /\ ReferencesFollow]_vars
    OBVIOUS
  <2>1. CASE Next
    BY <2>1, NextFollows
  <2>2. CASE UNCHANGED vars
    BY <2>2, StillFollows DEF vars, registryVars
  <2> QED
    BY <2>1, <2>2
<1> QED
  BY <1>1, <1>2, OntologyInvariant, PTL DEF Spec, ReferencesFollowTheirTarget

-----------------------------------------------------------------------------
(* The readers *)

\* What is carried away from the tables is named by its revision: it is no later
\* than the tables, and at the tables' own revision it is the tables.
NamesContent(v) ==
  /\ v.rev \in Nat /\ v.rev <= revision
  /\ v.rev = revision => v.bps = blueprints /\ v.ents = entities

WholeView(v) ==
  /\ NamesContent(v)
  /\ \A e \in ActiveEntities(v.ents) : v.ents[e].bp \in ActiveBlueprints(v.bps)

\* A list under way holds a snapshot in which nothing is missing, and has not
\* answered; a page that was answered is named by its revision.
ReaderInv(r) ==
  /\ stage[r] = "list" => WholeView(view[r]) /\ answer[r].as = "none"
  /\ answer[r].as = "page" => NamesContent(answer[r])

SnapshotsInv ==
  /\ DOMAIN stage = Readers /\ DOMAIN view = Readers /\ DOMAIN answer = Readers
  /\ \A r \in Readers : ReaderInv(r)

\* Every change of the tables moves the revision.
LEMMA ChangesMoveTheRevision ==
  ASSUME RegistryTypeOK, [RegistryNext]_registryVars
  PROVE  \/ UNCHANGED registryVars
         \/ revision' = revision + 1
BY DEF RegistryNext, CreateBlueprint, UpdateBlueprint, DeleteBlueprint, CreateEntity, UpdateEntity,
       DeleteEntity, bumpOntologyRevision

LEMMA NamesContentKept ==
  ASSUME RegistryTypeOK, [RegistryNext]_registryVars, NEW v, NamesContent(v)
  PROVE  NamesContent(v)'
<1>1. revision \in Nat
  BY RegistryAssumption DEF RegistryTypeOK
<1>2. CASE UNCHANGED registryVars
  BY <1>2 DEF NamesContent, registryVars
<1>3. CASE revision' = revision + 1
  BY <1>1, <1>3 DEF NamesContent
<1> QED
  BY <1>2, <1>3, ChangesMoveTheRevision

\* The readers see the writers' steps, and answer at leisure.
LEMMA WriterKeepsSnapshots ==
  ASSUME RegistryInv, SnapshotsInv, [RegistryNext]_registryVars, UNCHANGED readVars
  PROVE  SnapshotsInv'
<1>1. \A v : NamesContent(v) => NamesContent(v)'
  BY NamesContentKept DEF RegistryInv
<1>2. ASSUME NEW r \in Readers PROVE ReaderInv(r)'
  <2>1. ReaderInv(r) /\ stage'[r] = stage[r] /\ view'[r] = view[r] /\ answer'[r] = answer[r]
    BY DEF SnapshotsInv, readVars
  <2>2. WholeView(view[r]) => WholeView(view[r])'
    BY <1>1, <2>1 DEF WholeView, readVars
  <2>3. answer[r].as = "page" => NamesContent(answer[r])'
    BY <1>1, <2>1 DEF ReaderInv
  <2> QED
    BY <2>1, <2>2, <2>3 DEF ReaderInv, WholeView, NamesContent
<1> QED
  BY <1>2 DEF SnapshotsInv, readVars

LEMMA ReaderKeepsSnapshots ==
  ASSUME RegistryInv, SnapshotsInv, NEW r \in Readers, Read(r)
  PROVE  /\ SnapshotsInv'
         /\ \A q \in Readers : stage[q] = "list" => answer'[q].as # "error"
<1>1. UNCHANGED registryVars
  BY DEF Read, ReadRow, ReadContext, ListBlueprints, ListRows, vars, registryVars
<1>2. \A v : NamesContent(v)' <=> NamesContent(v)
  BY <1>1 DEF NamesContent, registryVars
<1>3. ASSUME NEW q \in Readers \ {r} PROVE
        ReaderInv(q)' /\ (stage[q] = "list" => answer'[q].as # "error")
  <2>1. ReaderInv(q) /\ stage'[q] = stage[q] /\ view'[q] = view[q] /\ answer'[q] = answer[q]
    BY DEF SnapshotsInv, Read, ReadRow, ReadContext, ListBlueprints, ListRows
  <2> QED
    BY <1>1, <2>1 DEF ReaderInv, WholeView, NamesContent, registryVars
<1>4. ReaderInv(r)' /\ (stage[r] = "list" => answer'[r].as # "error")
  <2>1. CASE \E e \in EntityIds : ReadRow(r, e)
    BY <2>1 DEF ReadRow, ReaderInv, SnapshotsInv, NoAnswer
  <2>2. CASE ReadContext(r)
    BY <2>2 DEF ReadContext, ReaderInv, SnapshotsInv
  <2>3. CASE ListBlueprints(r)
    <3>1. stage'[r] = "list" /\ view'[r] = Now /\ answer'[r] = NoAnswer /\ stage[r] = "idle"
      BY <2>3 DEF ListBlueprints, SnapshotsInv
    <3>2. Now.bps = blueprints /\ Now.ents = entities /\ Now.rev = revision
      BY DEF Now
    <3>3. revision \in Nat
      BY RegistryAssumption DEF RegistryInv, RegistryTypeOK
    <3>4. \A e \in ActiveEntities(entities) : entities[e].bp \in ActiveBlueprints(blueprints)
      BY DEF RegistryInv, RegistryTypeOK, EntitiesHaveTheirBlueprint, ActiveBlueprints, ActiveEntities, EntityRow
    <3>5. WholeView(Now)'
      BY <1>1, <3>2, <3>3, <3>4 DEF WholeView, NamesContent, registryVars, Now
    <3>6. WholeView(view[r])'
      BY <1>1, <3>1, <3>2, <3>3, <3>4 DEF WholeView, NamesContent, registryVars
    <3> QED
      BY <3>1, <3>6 DEF ReaderInv, NoAnswer
  <2>4. CASE ListRows(r)
    <3>1. WholeView(view[r]) /\ stage'[r] = "idle"
      BY <2>4 DEF ListRows, SnapshotsInv, ReaderInv
    <3>2. answer'[r] = [as |-> "page", bps |-> view[r].bps, ents |-> view[r].ents, rev |-> view[r].rev]
      BY <2>4, <3>1 DEF ListRows, SnapshotsInv, WholeView, Visible
    <3>3. answer'[r].as = "page" /\ answer'[r].bps = view[r].bps /\ answer'[r].ents = view[r].ents
          /\ answer'[r].rev = view[r].rev
      BY <3>2
    <3> QED
      BY <1>1, <3>1, <3>3 DEF ReaderInv, WholeView, NamesContent, registryVars
  <2> QED
    BY <2>1, <2>2, <2>3, <2>4 DEF Read
<1>5. DOMAIN stage' = Readers /\ DOMAIN view' = Readers /\ DOMAIN answer' = Readers
  BY DEF SnapshotsInv, Read, ReadRow, ReadContext, ListBlueprints, ListRows
<1> QED
  BY <1>3, <1>4, <1>5 DEF SnapshotsInv

ReadsInv == OntologyInv /\ RegistryInv /\ SnapshotsInv

LEMMA InitReadsInv == ReadsInit => ReadsInv
<1> SUFFICES ASSUME ReadsInit PROVE ReadsInv
  OBVIOUS
<1>1. OntologyInv /\ RegistryInv
  BY InitOntologyInv, InitInv DEF ReadsInit, Init
<1>2. SnapshotsInv
  BY DEF ReadsInit, SnapshotsInv, ReaderInv, NoAnswer
<1> QED
  BY <1>1, <1>2 DEF ReadsInv

LEMMA NextReadsInv ==
  ASSUME ReadsInv, [ReadsNext]_allVars
  PROVE  /\ ReadsInv'
         /\ \A r \in Readers : stage[r] = "list" => answer'[r].as # "error"
<1>1. CASE \E r \in Readers : Read(r)
  <2>1. UNCHANGED vars
    BY <1>1 DEF Read, ReadRow, ReadContext, ListBlueprints, ListRows
  <2>2. OntologyInv' /\ RegistryInv'
    BY <2>1, NextOntologyInv DEF ReadsInv
  <2> QED
    BY <1>1, <2>2, ReaderKeepsSnapshots DEF ReadsInv
<1>2. CASE [Next]_vars /\ UNCHANGED readVars
  <2>1. OntologyInv' /\ RegistryInv'
    BY <1>2, NextOntologyInv DEF ReadsInv
  <2>2. [RegistryNext]_registryVars
    BY <1>2, StepRefines DEF ReadsInv, vars, registryVars
  <2>3. SnapshotsInv'
    BY <1>2, <2>2, WriterKeepsSnapshots DEF ReadsInv
  <2>4. \A r \in Readers : stage[r] = "list" => answer'[r].as # "error"
    BY <1>2 DEF ReadsInv, SnapshotsInv, ReaderInv, readVars
  <2> QED
    BY <2>1, <2>3, <2>4 DEF ReadsInv
<1> QED
  BY <1>1, <1>2 DEF ReadsNext, allVars, vars, readVars

\* A list is one snapshot of the registry: two pages of one revision were cut from
\* one registry, and a list never lacks a definition (ontologyReadTransaction).
THEOREM Snapshots == ReadsSpec => ListsAreSnapshots
<1>1. ReadsInv => RevisionNamesContent
  BY DEF ReadsInv, SnapshotsInv, ReaderInv, NamesContent, RevisionNamesContent
<1>2. ReadsInv /\ [ReadsNext]_allVars => ReadsInv'
  BY NextReadsInv
<1>3. ReadsInv /\ [ReadsNext]_allVars => ListsNeverFail
  BY NextReadsInv DEF ListsNeverFail
<1> QED
  BY <1>1, <1>2, <1>3, InitReadsInv, PTL DEF ReadsSpec, ListsAreSnapshots

-----------------------------------------------------------------------------
(* Catalog files *)

FileRows == [document : FileDocuments, source : Sources \cup {Nil}, updatedAt : Nat, lastSyncedAt : Nat,
             baseline : FileDocuments \cup {Nil}, revision : Nat, deleted : BOOLEAN]

ToldRows == [name : FileNames, body : Bodies, source : Sources \cup {Nil}]
Events == [type : {"CREATED", "UPDATED", "SYNCED", "DELETED"}, from : ToldRows, to : ToldRows, synced : BOOLEAN,
           revision : Nat]

\* Every sync so far lies in the past.
TablesOK ==
  /\ files \in [Ids -> FileRows \cup {NoFile}]
  /\ rowLock \in [Ids -> Clients \cup {Nil}]
  /\ DOMAIN inFlight = Clients
  /\ now \in Nat \ {0}
  /\ \A id \in Ids : Exists(id) => files[id].lastSyncedAt < now

\* A row that was read is the row there is, or an earlier one.
SeenOK(seen) ==
  \/ seen = ExpectsNothing
  \/ seen.kind = "absent"
  \/ /\ seen.kind = "row" /\ seen.id \in Ids /\ Exists(seen.id)
     /\ seen.row.revision \in Nat /\ seen.row.revision <= files[seen.id].revision
     /\ seen.row.revision = files[seen.id].revision => seen.row = files[seen.id]

\* A request about to write holds the lock of the row it has checked.
RequestOK(c, r) ==
  /\ SeenOK(r.seen)
  /\ r.stage \in {"located", "write"} =>
       /\ DOMAIN r = {"stage", "op", "id", "name", "seen"}
       /\ r.id \in Ids /\ r.seen.kind # "absent" /\ (r.seen.kind = "row" => r.seen.id = r.id)
  /\ r.stage = "write" =>
       /\ rowLock[r.id] = c /\ ActiveFile(r.id)
       /\ r.seen.kind = "row" => r.seen.row = files[r.id]

RequestsInv == \A c \in Clients : RequestOK(c, inFlight[c])

-----------------------------------------------------------------------------
(* Histories, of a sequence of events and a row *)

Whole(told, record) ==
  /\ told \in Seq(Events) /\ Len(told) >= 1
  /\ \A k \in DOMAIN told : (told[k].type = "CREATED" <=> k = 1) /\ (told[k].type = "DELETED" => k = Len(told))
  /\ \A k \in 2 .. Len(told) : told[k].from = told[k - 1].to
  /\ \A k \in DOMAIN told : told[k].from = told[k].to => told[k].type # "UPDATED"
  /\ told[Len(told)].to = Told(record) /\ (told[Len(told)].type = "DELETED" <=> record.deleted)

\* The m-th event is the last that synced.
SyncedLast(told, m) == told[m].synced /\ \A k \in DOMAIN told : told[k].synced => k <= m

ModifiedSince(told, m) == \E k \in DOMAIN told : k > m /\ told[k].from # told[k].to

\* What would be told of a row that still were its baseline.
Base(record) == Told([record EXCEPT !.document = record.baseline])

\* The m-th event is the sync the row is compared with.
ShownSince(told, m, record) ==
  LET modified == record.updatedAt > record.lastSyncedAt
  IN /\ told[m].to = Base(record) /\ told[m].revision <= record.revision
     /\ record.document # record.baseline => modified
     /\ ModifiedSince(told, m) => modified
     /\ record.deleted \/ (modified <=> record.revision > told[m].revision)

Shown(told, record) ==
  IF record.lastSyncedAt = 0 THEN record.baseline = Nil
  ELSE \E m \in DOMAIN told : SyncedLast(told, m) /\ ShownSince(told, m, record)

HistoryInv == \A id \in Ids :
  IF Exists(id) THEN Whole(events[id], files[id]) /\ Shown(events[id], files[id]) ELSE events[id] = <<>>

FilesInv == TablesOK /\ RequestsInv /\ DOMAIN events = Ids /\ HistoryInv

\* A row is no missing row.
LEMMA RowsExist == \A record \in FileRows : record # NoFile
<1> SUFFICES ASSUME NEW record \in FileRows, record = NoFile PROVE FALSE
  OBVIOUS
<1>1. "revision" \in DOMAIN record
  BY DEF FileRows
<1>2. DOMAIN record = {"name"}
  BY DEF NoFile
<1> QED
  BY <1>1, <1>2

LEMMA MaxIs ==
  ASSUME NEW S \in SUBSET Nat, NEW m \in S, \A k \in S : k <= m
  PROVE  Max(S) = m
<1>1. \A y \in S : m >= y
  OBVIOUS
<1>2. \A x \in S : (\A y \in S : x >= y) => x = m
  BY <1>1
<1> QED
  BY <1>1, <1>2 DEF Max

LEMMA Appended ==
  ASSUME NEW told \in Seq(Events), NEW e \in Events
  PROVE  /\ told \o <<e>> \in Seq(Events)
         /\ Len(told \o <<e>>) = Len(told) + 1
         /\ DOMAIN told = 1 .. Len(told) /\ DOMAIN (told \o <<e>>) = 1 .. (Len(told) + 1)
         /\ \A k \in 1 .. Len(told) : (told \o <<e>>)[k] = told[k]
         /\ (told \o <<e>>)[Len(told) + 1] = e
OBVIOUS

\* One more event keeps a history whole.
LEMMA AppendKeepsWhole ==
  ASSUME NEW told, NEW record, Whole(told, record), ~record.deleted, NEW written, NEW e \in Events,
         e.from = Told(record), e.to = Told(written), e.type # "CREATED",
         e.type = "UPDATED" => e.from # e.to, e.type = "DELETED" <=> written.deleted
  PROVE  Whole(told \o <<e>>, written)
<1> DEFINE more == told \o <<e>>
           n == Len(told)
<1>1. /\ more \in Seq(Events) /\ Len(more) = n + 1
      /\ DOMAIN told = 1 .. n /\ DOMAIN more = 1 .. (n + 1)
      /\ \A k \in 1 .. n : more[k] = told[k]
      /\ more[n + 1] = e
  BY Appended DEF Whole
<1>2. n \in Nat /\ n >= 1
  BY DEF Whole
<1> HIDE DEF more, n
<1>3. /\ \A k \in 1 .. n : (told[k].type = "CREATED" <=> k = 1) /\ (told[k].type = "DELETED" => k = n)
      /\ \A k \in 2 .. n : told[k].from = told[k - 1].to
      /\ \A k \in 1 .. n : told[k].from = told[k].to => told[k].type # "UPDATED"
      /\ told[n].to = Told(record) /\ told[n].type # "DELETED"
  BY <1>1 DEF Whole, n
<1>4. \A k \in 1 .. (n + 1) : (more[k].type = "CREATED" <=> k = 1) /\ (more[k].type = "DELETED" => k = n + 1)
  BY <1>1, <1>2, <1>3
<1>5. \A k \in 2 .. (n + 1) : more[k].from = more[k - 1].to
  BY <1>1, <1>2, <1>3
<1>6. \A k \in 1 .. (n + 1) : more[k].from = more[k].to => more[k].type # "UPDATED"
  BY <1>1, <1>2, <1>3
<1> QED
  BY <1>1, <1>2, <1>4, <1>5, <1>6 DEF Whole, more

\* An event that synced is the last one that did.
LEMMA SyncShows ==
  ASSUME NEW told \in Seq(Events), NEW written \in FileRows, NEW e \in Events, e.synced, e.to = Told(written),
         e.revision = written.revision, written.baseline = written.document,
         written.updatedAt = written.lastSyncedAt, written.lastSyncedAt # 0
  PROVE  Shown(told \o <<e>>, written)
<1> DEFINE more == told \o <<e>>
           m == Len(told) + 1
<1>1. DOMAIN more = 1 .. m /\ more[m] = e /\ m \in 1 .. m
  BY Appended
<1> HIDE DEF more, m
<1>2. \A k \in DOMAIN more : k <= m /\ ~(k > m)
  BY <1>1 DEF m
<1>3. SyncedLast(more, m) /\ ~ModifiedSince(more, m)
  BY <1>1, <1>2 DEF SyncedLast, ModifiedSince
<1>4. written.updatedAt \in Nat /\ written.lastSyncedAt \in Nat /\ written.revision \in Nat
  BY DEF FileRows
<1>5. ~(written.updatedAt > written.lastSyncedAt) /\ written.revision <= written.revision
      /\ ~(written.revision > written.revision)
  BY <1>4
<1>6. [written EXCEPT !.document = written.baseline] = written
  BY DEF FileRows
<1>7. ShownSince(more, m, written)
  BY <1>1, <1>3, <1>5, <1>6 DEF ShownSince, Base
<1> QED
  BY <1>1, <1>3, <1>7 DEF Shown, more

\* Of two revisions and a sync: a change moves the later one past the sync, no change leaves it there.
LEMMA Later ==
  ASSUME NEW last \in Nat, NEW before \in Nat, NEW after \in Nat, last <= before, after >= before
  PROVE  last <= after /\ (after = before + 1 => after > last)
OBVIOUS

\* What did not sync leaves the last sync where it was, whether an event tells of it or,
\* of another order alone, none.
LEMMA EditShows ==
  ASSUME NEW told \in Seq(Events), NEW record \in FileRows, Shown(told, record), ~record.deleted,
         NEW written \in FileRows, NEW more,
         \/ more = told
         \/ \E e \in Events : more = told \o <<e>> /\ ~e.synced /\ (e.from # e.to => written.document # record.document),
         written.lastSyncedAt = record.lastSyncedAt, written.baseline = record.baseline, written.source = record.source,
         written.revision >= record.revision,
         IF written.document # record.document
         THEN written.updatedAt > written.lastSyncedAt /\ written.revision = record.revision + 1
         ELSE written.updatedAt = record.updatedAt /\ (written.deleted \/ written.revision = record.revision)
  PROVE  Shown(more, written)
<1>1. CASE record.lastSyncedAt = 0
  BY <1>1 DEF Shown
<1>2. CASE record.lastSyncedAt # 0
  <2>1. PICK m \in DOMAIN told : SyncedLast(told, m) /\ ShownSince(told, m, record)
    BY <1>2 DEF Shown
  <2>2. /\ m \in DOMAIN more /\ more[m] = told[m] /\ SyncedLast(more, m)
        /\ ModifiedSince(more, m) => ModifiedSince(told, m) \/ written.document # record.document
    <3>1. CASE more = told
      BY <2>1, <3>1
    <3>2. ASSUME NEW e \in Events, more = told \o <<e>>, ~e.synced, e.from # e.to => written.document # record.document
          PROVE  <2>2!:
      <4> DEFINE n == Len(told)
      <4>1. /\ DOMAIN told = 1 .. n /\ DOMAIN more = 1 .. (n + 1) /\ n \in Nat
            /\ \A k \in 1 .. n : more[k] = told[k]
            /\ more[n + 1] = e
        BY <3>2, Appended
      <4> HIDE DEF n
      <4>2. m \in 1 .. n /\ m \in 1 .. (n + 1) /\ more[m] = told[m]
        BY <2>1, <4>1
      <4>3. \A k \in 1 .. (n + 1) : k \in 1 .. n \/ k = n + 1
        BY <4>1
      <4>4. SyncedLast(more, m)
        BY <2>1, <3>2, <4>1, <4>2, <4>3 DEF SyncedLast
      <4>5. ModifiedSince(more, m) => ModifiedSince(told, m) \/ e.from # e.to
        BY <4>1, <4>3 DEF ModifiedSince
      <4> QED
        BY <3>2, <4>1, <4>2, <4>4, <4>5
    <3> QED
      BY <3>1, <3>2
  <2>3. Base(written) = Base(record)
    <3>1. /\ [written EXCEPT !.document = written.baseline].document = written.baseline
          /\ [written EXCEPT !.document = written.baseline].source = written.source
          /\ [record EXCEPT !.document = record.baseline].document = record.baseline
          /\ [record EXCEPT !.document = record.baseline].source = record.source
      BY DEF FileRows
    <3> QED
      BY <3>1 DEF Base, Told
  <2>4. told[m].revision \in Nat /\ record.revision \in Nat /\ written.revision \in Nat /\ told[m].revision <= record.revision
    <3>1. told[m] \in Events
      BY <2>1
    <3>2. told[m].revision \in Nat
      BY <3>1 DEF Events
    <3> QED
      BY <2>1, <3>2 DEF ShownSince, FileRows
  <2>5. told[m].revision <= written.revision
        /\ (written.revision = record.revision + 1 => written.revision > told[m].revision)
    BY <2>4, Later
  <2>6. /\ told[m].to = Base(record)
        /\ record.document # record.baseline => record.updatedAt > record.lastSyncedAt
        /\ ModifiedSince(told, m) => record.updatedAt > record.lastSyncedAt
        /\ record.updatedAt > record.lastSyncedAt <=> record.revision > told[m].revision
    BY <2>1 DEF ShownSince
  <2>7. ShownSince(more, m, written)
    <3>1. CASE written.document # record.document
      BY <2>2, <2>3, <2>5, <2>6, <3>1 DEF ShownSince
    <3>2. CASE written.document = record.document
      BY <2>2, <2>3, <2>5, <2>6, <3>2 DEF ShownSince
    <3> QED
      BY <3>1, <3>2
  <2> QED
    BY <1>2, <2>2, <2>7 DEF Shown
<1> QED
  BY <1>1, <1>2

-----------------------------------------------------------------------------
(* Steps that write nothing *)

\* A request that moves, or ends, leaves the tables and the other requests alone.
LEMMA MoveKeeps ==
  ASSUME FilesInv, NEW c \in Clients, NEW r,
         UNCHANGED <<files, events, now>>, inFlight' = [inFlight EXCEPT ![c] = r],
         rowLock' \in [Ids -> Clients \cup {Nil}],
         \A id \in Ids : rowLock[id] \in Clients \ {c} => rowLock'[id] = rowLock[id],
         RequestOK(c, r)'
  PROVE  FilesInv'
<1>1. TablesOK'
  BY DEF FilesInv, TablesOK, Exists
<1>2. inFlight'[c] = r /\ \A d \in Clients \ {c} : inFlight'[d] = inFlight[d]
  BY DEF FilesInv, TablesOK
<1>3. ASSUME NEW d \in Clients \ {c} PROVE RequestOK(d, inFlight[d])'
  <2>1. RequestOK(d, inFlight[d])
    BY DEF FilesInv, RequestsInv
  <2> QED
    BY <1>2, <2>1 DEF RequestOK, SeenOK, ActiveFile, Exists
<1>4. RequestsInv'
  BY <1>2, <1>3 DEF RequestsInv
<1>5. DOMAIN events' = Ids /\ HistoryInv'
  BY DEF FilesInv, HistoryInv, Exists
<1> QED
  BY <1>1, <1>4, <1>5 DEF FilesInv

LEMMA NoRequestOK ==
  ASSUME NEW c
  PROVE  RequestOK(c, NoRequest)
BY DEF RequestOK, SeenOK, NoRequest

\* What a request has seen it still has.
LEMMA SeenStays ==
  ASSUME FilesInv, NEW c \in Clients
  PROVE  SeenOK(Seen(c))
BY DEF FilesInv, RequestsInv, RequestOK, Seen

LEMMA EndKeeps ==
  ASSUME FilesInv, NEW c \in Clients, EndsUnwritten(c)
  PROVE  FilesInv'
<1>1. rowLock' \in [Ids -> Clients \cup {Nil}] /\ \A id \in Ids : rowLock[id] \in Clients \ {c} => rowLock'[id] = rowLock[id]
  BY DEF EndsUnwritten, Unlocks, FilesInv, TablesOK
<1>2. RequestOK(c, NoRequest)'
  BY DEF RequestOK, SeenOK, NoRequest
<1> QED
  BY <1>1, <1>2, MoveKeeps DEF EndsUnwritten, Ends

LEMMA ReadKeeps ==
  ASSUME FilesInv, NEW c \in Clients, Reads(c)
  PROVE  FilesInv'
<1>1. rowLock' \in [Ids -> Clients \cup {Nil}] /\ \A id \in Ids : rowLock[id] \in Clients \ {c} => rowLock'[id] = rowLock[id]
  BY DEF Reads, FilesInv, TablesOK
<1>2. CASE \E id \in Ids : ActiveFile(id) /\ Moves(c, [stage |-> "read", seen |-> SeenRow(id)])
  <2>1. PICK id \in Ids : ActiveFile(id) /\ Moves(c, [stage |-> "read", seen |-> SeenRow(id)])
    BY <1>2
  <2> PICK r : r = [stage |-> "read", seen |-> SeenRow(id)]
    OBVIOUS
  <2>2. r.stage = "read" /\ r.seen.kind = "row" /\ r.seen.id = id /\ r.seen.row = files[id]
    BY DEF SeenRow
  <2>3. files[id] \in FileRows /\ Exists(id)
    BY <2>1 DEF FilesInv, TablesOK, ActiveFile, Exists
  <2>4. files[id].revision \in Nat /\ UNCHANGED <<files, events, now>>
    BY <2>1, <2>3 DEF FileRows, Moves
  <2>5. inFlight' = [inFlight EXCEPT ![c] = r]
    BY <2>1 DEF Moves
  <2>6. RequestOK(c, r)'
    BY <2>2, <2>3, <2>4 DEF RequestOK, SeenOK, Exists
  <2> QED
    BY <1>1, <2>4, <2>5, <2>6, MoveKeeps
<1>3. CASE \E name \in FileNames : Moves(c, [stage |-> "read", seen |-> SeenAbsent(name)])
  <2>1. PICK name \in FileNames : Moves(c, [stage |-> "read", seen |-> SeenAbsent(name)])
    BY <1>3
  <2>2. RequestOK(c, [stage |-> "read", seen |-> SeenAbsent(name)])'
    BY DEF RequestOK, SeenOK, SeenAbsent
  <2> QED
    BY <1>1, <2>1, <2>2, MoveKeeps DEF Moves
<1> QED
  BY <1>2, <1>3 DEF Reads

\* A lock is granted on a row nobody holds, checked against what was seen.
LEMMA LockKeeps ==
  ASSUME FilesInv, NEW c \in Clients, NEW id \in Ids, NEW r, LocksRow(c, id, r),
         DOMAIN r = {"stage", "op", "id", "name", "seen"}, r.stage = "write", r.id = id, SeenOK(r.seen),
         r.seen.kind # "absent", r.seen.kind = "row" => r.seen.id = id
  PROVE  FilesInv'
<1>1. /\ rowLock[id] = Nil /\ ActiveFile(id) /\ requireExpectedRevision(r.seen, id)
      /\ rowLock' = [rowLock EXCEPT ![id] = c] /\ UNCHANGED <<files, events, now>>
      /\ inFlight' = [inFlight EXCEPT ![c] = r]
  BY DEF LocksRow, Moves
<1>2. rowLock' \in [Ids -> Clients \cup {Nil}] /\ \A q \in Ids : rowLock[q] \in Clients \ {c} => rowLock'[q] = rowLock[q]
  BY <1>1, FilesAssumption DEF FilesInv, TablesOK
<1>3. rowLock'[id] = c
  BY <1>1 DEF FilesInv, TablesOK
<1>4. r.seen.kind = "row" => r.seen.row = files[id]
  BY <1>1 DEF requireExpectedRevision, SeenOK, ExpectsNothing
<1>5. RequestOK(c, r)'
  BY <1>1, <1>3, <1>4 DEF RequestOK, SeenOK, ActiveFile, Exists
<1> QED
  BY <1>1, <1>2, <1>5, MoveKeeps

LEMMA LockRowKeeps ==
  ASSUME FilesInv, NEW c \in Clients, LockRow(c)
  PROVE  FilesInv'
<1>1. PICK id \in Ids, op \in {"save", "sync", "delete"} :
        /\ (Seen(c).kind = "row" => Seen(c).id = id) /\ Seen(c).kind # "absent"
        /\ LocksRow(c, id, [stage |-> "write", op |-> op, id |-> id, name |-> Nil, seen |-> Seen(c)])
  BY DEF LockRow
<1> DEFINE r == [stage |-> "write", op |-> op, id |-> id, name |-> Nil, seen |-> Seen(c)]
<1>2. DOMAIN r = {"stage", "op", "id", "name", "seen"} /\ r.stage = "write" /\ r.id = id /\ r.seen = Seen(c)
  OBVIOUS
<1>3. LocksRow(c, id, r)
  BY <1>1
<1> HIDE DEF r
<1> QED
  BY <1>1, <1>2, <1>3, SeenStays, LockKeeps

LEMMA LocateKeeps ==
  ASSUME FilesInv, NEW c \in Clients, Locate(c)
  PROVE  FilesInv'
<1> DEFINE found(name) == IF Holders(name) = {} THEN Nil ELSE CHOOSE i \in Holders(name) : TRUE
           next(name) == [stage |-> IF found(name) = Nil THEN "insert" ELSE "located", op |-> "import",
                          id |-> found(name), name |-> name, seen |-> Seen(c)]
<1>1. PICK name \in FileNames, overwrites \in BOOLEAN :
        \/ EndsUnwritten(c)
        \/ /\ ~staleReason(Seen(c), found(name), overwrites) /\ (found(name) # Nil => overwrites)
           /\ Moves(c, next(name)) /\ UNCHANGED rowLock
  BY DEF Locate
<1>2. CASE EndsUnwritten(c)
  BY <1>2, EndKeeps
<1>3. CASE /\ ~staleReason(Seen(c), found(name), overwrites) /\ (found(name) # Nil => overwrites)
           /\ Moves(c, next(name)) /\ UNCHANGED rowLock
  <2> PICK r : r = next(name)
    OBVIOUS
  <2> PICK id : id = found(name)
    OBVIOUS
  <2>1. r.stage = (IF id = Nil THEN "insert" ELSE "located") /\ r.id = id /\ r.seen = Seen(c)
        /\ DOMAIN r = {"stage", "op", "id", "name", "seen"}
    OBVIOUS
  <2>2. id # Nil => id \in Ids
    BY DEF Holders
  <2>3. UNCHANGED <<files, events, now>> /\ inFlight' = [inFlight EXCEPT ![c] = r]
    BY <1>3 DEF Moves
  <2>4. SeenOK(Seen(c))
    BY SeenStays
  <2>5. id # Nil => Seen(c).kind # "absent" /\ (Seen(c).kind = "row" => Seen(c).id = id)
    <3>1. ~staleReason(Seen(c), id, overwrites) /\ (id # Nil => overwrites)
      BY <1>3
    <3> HIDE DEF found
    <3> QED
      BY <3>1 DEF staleReason
  <2>6. RequestOK(c, r)'
    BY <2>1, <2>2, <2>3, <2>4, <2>5 DEF RequestOK, SeenOK, Exists
  <2> QED
    BY <1>3, <2>3, <2>6, MoveKeeps DEF FilesInv, TablesOK
<1> QED
  BY <1>1, <1>2, <1>3

LEMMA LockLocatedKeeps ==
  ASSUME FilesInv, NEW c \in Clients, LockLocated(c)
  PROVE  FilesInv'
<1> PICK r : r = inFlight[c]
  OBVIOUS
<1> DEFINE w == [r EXCEPT !.stage = "write"]
           i == [r EXCEPT !.stage = "insert"]
<1>1. r.stage = "located" /\ RequestOK(c, r)
  BY DEF LockLocated, FilesInv, RequestsInv
<1>2. /\ DOMAIN r = {"stage", "op", "id", "name", "seen"} /\ r.id \in Ids /\ SeenOK(r.seen)
      /\ r.seen.kind # "absent" /\ (r.seen.kind = "row" => r.seen.id = r.id)
  BY <1>1 DEF RequestOK
<1>3. /\ w.stage = "write" /\ w.id = r.id /\ w.seen = r.seen /\ DOMAIN w = DOMAIN r
      /\ i.stage = "insert" /\ i.seen = r.seen
  BY <1>2
<1>4. CASE LocksRow(c, r.id, w)
  <2> HIDE DEF w, i
  <2> QED
    BY <1>2, <1>3, <1>4, LockKeeps
<1>5. CASE Moves(c, i) /\ UNCHANGED rowLock
  <2>1. RequestOK(c, i)'
    <3> HIDE DEF i, w
    <3> QED
      BY <1>2, <1>3, <1>5 DEF RequestOK, SeenOK, Exists, Moves
  <2> QED
    BY <1>5, <2>1, MoveKeeps DEF Moves, FilesInv, TablesOK
<1> QED
  BY <1>4, <1>5 DEF LockLocated

-----------------------------------------------------------------------------
(* Steps that write *)

\* What a commit must bring: a row that is new, the same or of a later revision, written
\* past every other request's lock, and told in full.
LEMMA CommitKeeps ==
  ASSUME FilesInv, NEW c \in Clients, NEW id \in Ids, NEW record \in FileRows, NEW told, Commits(c, id, record, told),
         Exists(id) => record.revision >= files[id].revision /\ (record.revision = files[id].revision => record = files[id]),
         \A d \in Clients \ {c} : ~(inFlight[d].stage = "write" /\ inFlight[d].id = id),
         record.lastSyncedAt <= now,
         Whole(events[id] \o told, record), Shown(events[id] \o told, record)
  PROVE  FilesInv'
<1>1. /\ files' = [files EXCEPT ![id] = record] /\ events' = [events EXCEPT ![id] = events[id] \o told]
      /\ now' = now + (IF record = files[id] THEN 0 ELSE 1) /\ inFlight' = [inFlight EXCEPT ![c] = NoRequest]
      /\ rowLock' = [q \in Ids |-> IF rowLock[q] = c THEN Nil ELSE rowLock[q]]
  BY DEF Commits, Ends, Unlocks
<1>2. /\ files \in [Ids -> FileRows \cup {NoFile}] /\ rowLock \in [Ids -> Clients \cup {Nil}] /\ DOMAIN inFlight = Clients
      /\ now \in Nat \ {0} /\ (\A q \in Ids : Exists(q) => files[q].lastSyncedAt < now) /\ DOMAIN events = Ids
  BY DEF FilesInv, TablesOK
<1>3. /\ files'[id] = record /\ \A q \in Ids \ {id} : files'[q] = files[q]
      /\ events'[id] = events[id] \o told /\ \A q \in Ids \ {id} : events'[q] = events[q]
      /\ inFlight'[c] = NoRequest /\ \A d \in Clients \ {c} : inFlight'[d] = inFlight[d]
  BY <1>1, <1>2
<1>4. Exists(id)' /\ \A q \in Ids \ {id} : Exists(q)' <=> Exists(q)
  BY <1>3, RowsExist DEF Exists
<1>5. TablesOK'
  <2>1. files' \in [Ids -> FileRows \cup {NoFile}] /\ rowLock' \in [Ids -> Clients \cup {Nil}] /\ DOMAIN inFlight' = Clients
    BY <1>1, <1>2
  <2>2. now' \in Nat \ {0} /\ now' >= now
    BY <1>1, <1>2
  <2>3. ASSUME NEW q \in Ids, Exists(q)' PROVE files'[q].lastSyncedAt < now'
    <3>1. CASE q = id /\ record = files[id]
      BY <1>1, <1>2, <1>3, <3>1, RowsExist DEF Exists
    <3>2. CASE q = id /\ record # files[id]
      <4>1. record.lastSyncedAt \in Nat
        BY DEF FileRows
      <4> QED
        BY <1>1, <1>2, <1>3, <3>2, <4>1
    <3>3. CASE q # id
      <4>1. files[q] \in FileRows /\ files[q].lastSyncedAt < now /\ files'[q] = files[q]
        BY <1>2, <1>3, <1>4, <2>3, <3>3 DEF Exists
      <4>2. files[q].lastSyncedAt \in Nat
        BY <4>1 DEF FileRows
      <4> QED
        BY <1>2, <2>2, <4>1, <4>2
    <3> QED
      BY <3>1, <3>2, <3>3
  <2> QED
    BY <2>1, <2>2, <2>3 DEF TablesOK
<1>6. \A seen : SeenOK(seen) => SeenOK(seen)'
  <2> SUFFICES ASSUME NEW seen, seen.kind = "row", seen.id \in Ids, Exists(seen.id), seen.row.revision \in Nat,
                      seen.row.revision <= files[seen.id].revision,
                      seen.row.revision = files[seen.id].revision => seen.row = files[seen.id]
               PROVE  /\ Exists(seen.id)' /\ seen.row.revision <= files'[seen.id].revision
                      /\ seen.row.revision = files'[seen.id].revision => seen.row = files'[seen.id]
    BY DEF SeenOK
  <2>1. CASE seen.id # id
    BY <1>3, <1>4, <2>1
  <2>2. CASE seen.id = id
    <3>1. files[id].revision \in Nat /\ record.revision \in Nat
      BY <1>2, <2>2 DEF FileRows, Exists
    <3> QED
      BY <1>3, <1>4, <2>2, <3>1
  <2> QED
    BY <2>1, <2>2
<1>7. ASSUME NEW d \in Clients \ {c} PROVE RequestOK(d, inFlight[d])'
  <2> PICK r : r = inFlight[d]
    OBVIOUS
  <2>1. RequestOK(d, r) /\ inFlight'[d] = r
    BY <1>3 DEF FilesInv, RequestsInv
  <2>2. r.stage = "write" => r.id \in Ids \ {id} /\ rowLock'[r.id] = rowLock[r.id]
    BY <1>1, <1>2, <2>1 DEF RequestOK
  <2> QED
    BY <1>3, <1>4, <1>6, <2>1, <2>2 DEF RequestOK, ActiveFile
<1>8. RequestsInv'
  BY <1>3, <1>7 DEF RequestsInv, RequestOK, SeenOK, NoRequest
<1>9. DOMAIN events' = Ids /\ HistoryInv'
  BY <1>1, <1>2, <1>3, <1>4 DEF FilesInv, HistoryInv
<1> QED
  BY <1>5, <1>8, <1>9 DEF FilesInv

\* A request that writes is alone with its row, which stands as it was checked.
LEMMA Writer ==
  ASSUME FilesInv, NEW c \in Clients, inFlight[c].stage = "write"
  PROVE  LET id == inFlight[c].id
         IN /\ id \in Ids /\ ActiveFile(id) /\ Exists(id) /\ files[id] \in FileRows /\ ~files[id].deleted
            /\ \A d \in Clients \ {c} : ~(inFlight[d].stage = "write" /\ inFlight[d].id = id)
            /\ Whole(events[id], files[id]) /\ Shown(events[id], files[id])
            /\ files[id].lastSyncedAt < now
<1> DEFINE id == inFlight[c].id
<1>1. id \in Ids /\ rowLock[id] = c /\ ActiveFile(id)
  BY DEF FilesInv, RequestsInv, RequestOK
<1>2. Exists(id) /\ files[id] \in FileRows /\ ~files[id].deleted /\ files[id].lastSyncedAt < now
  BY <1>1 DEF FilesInv, TablesOK, ActiveFile, Exists
<1>3. \A d \in Clients \ {c} : ~(inFlight[d].stage = "write" /\ inFlight[d].id = id)
  BY <1>1 DEF FilesInv, RequestsInv, RequestOK
<1>4. Whole(events[id], files[id]) /\ Shown(events[id], files[id])
  BY <1>1, <1>2 DEF FilesInv, HistoryInv
<1> QED
  BY <1>1, <1>2, <1>3, <1>4

LEMMA ToldOK == \A record \in FileRows : Told(record) \in ToldRows
BY DEF Told, ToldRows, FileRows, FileDocuments

LEMMA EventOK ==
  ASSUME NEW from \in FileRows, NEW to \in FileRows, NEW type \in {"CREATED", "UPDATED", "SYNCED", "DELETED"},
         NEW stamped \in BOOLEAN
  PROVE  LET e == Event(type, from, to, stamped)
         IN e \in Events /\ e.type = type /\ e.from = Told(from) /\ e.to = Told(to) /\ e.synced = stamped
            /\ e.revision = to.revision
<1>1. Told(from) \in ToldRows /\ Told(to) \in ToldRows
  BY ToldOK
<1>2. to.revision \in Nat
  BY DEF FileRows
<1> QED
  BY <1>1, <1>2 DEF Event, Events

\* What a save, a sync or an import leaves of the row.
LEMMA WrittenRow ==
  ASSUME FilesInv, NEW record \in FileRows, ~record.deleted, record.lastSyncedAt < now, NEW op, NEW d \in FileDocuments,
         NEW source \in Sources \cup {Nil}
  PROVE  LET written == Written(op, record, d, source)
         IN /\ written \in FileRows /\ ~written.deleted /\ written.document = d
            /\ written.revision >= record.revision /\ (written.revision = record.revision => written = record)
            /\ synced(op, source) => /\ written.baseline = d
                                     /\ written.updatedAt = now /\ written.lastSyncedAt = now
            /\ ~synced(op, source) => written.lastSyncedAt \in {0, record.lastSyncedAt}
            /\ ~synced(op, source) /\ written.source # record.source => written.lastSyncedAt = 0 /\ written.baseline = Nil
            /\ ~synced(op, source) /\ written.source = record.source =>
                 /\ written.lastSyncedAt = record.lastSyncedAt /\ written.baseline = record.baseline
                 /\ written.updatedAt = IF record.document # d THEN now ELSE record.updatedAt
                 /\ written.revision = record.revision + (IF record.document # d THEN 1 ELSE 0)
<1> DEFINE written == Written(op, record, d, source)
           kept == sourceOf(op, source, record)
           content == record.document # d
           moved == record.source # kept
           stamped == synced(op, source)
<1>1. kept \in Sources \cup {Nil} /\ now \in Nat \ {0} /\ stamped \in BOOLEAN
  BY DEF sourceOf, FileRows, FilesInv, TablesOK, synced
<1>2. /\ record.document \in FileDocuments /\ record.source \in Sources \cup {Nil} /\ record.updatedAt \in Nat
      /\ record.lastSyncedAt \in Nat /\ record.baseline \in FileDocuments \cup {Nil} /\ record.revision \in Nat
      /\ record.deleted = FALSE
  BY DEF FileRows
<1>3. written = [document |-> d, source |-> kept,
                 updatedAt |-> IF content \/ stamped THEN now ELSE record.updatedAt,
                 lastSyncedAt |-> IF stamped THEN now ELSE IF moved THEN 0 ELSE record.lastSyncedAt,
                 baseline |-> IF stamped THEN d ELSE IF moved THEN Nil ELSE record.baseline,
                 revision |-> record.revision + (IF content \/ moved \/ stamped THEN 1 ELSE 0),
                 deleted |-> FALSE]
  BY DEF Written, Bumps
<1> HIDE DEF written, kept, stamped
<1>4. /\ written.document = d /\ written.source = kept /\ written.deleted = FALSE
      /\ written.updatedAt = (IF content \/ stamped THEN now ELSE record.updatedAt)
      /\ written.lastSyncedAt = (IF stamped THEN now ELSE IF moved THEN 0 ELSE record.lastSyncedAt)
      /\ written.baseline = (IF stamped THEN d ELSE IF moved THEN Nil ELSE record.baseline)
      /\ written.revision = record.revision + (IF content \/ moved \/ stamped THEN 1 ELSE 0)
  BY <1>3
<1>5. written \in FileRows
  BY <1>1, <1>2, <1>3 DEF FileRows
<1>6. written.revision = record.revision <=> ~(content \/ moved \/ stamped)
  BY <1>2, <1>4
<1>7. ASSUME ~content, ~moved, ~stamped PROVE written = record
  <2>1. record.revision + (IF content \/ moved \/ stamped THEN 1 ELSE 0) = record.revision
    BY <1>2, <1>7
  <2>2. written = [document |-> record.document, source |-> record.source, updatedAt |-> record.updatedAt,
                   lastSyncedAt |-> record.lastSyncedAt, baseline |-> record.baseline,
                   revision |-> record.revision, deleted |-> record.deleted]
    BY <1>2, <1>3, <1>7, <2>1
  <2> QED
    BY <2>2 DEF FileRows
<1> QED
  BY <1>1, <1>2, <1>4, <1>5, <1>6, <1>7 DEF written, stamped

LEMMA WriteKeeps ==
  ASSUME FilesInv, NEW c \in Clients, WriteFile(c)
  PROVE  FilesInv'
<1> DEFINE r == inFlight[c]
           id == r.id
           record == files[id]
<1>1. PICK d \in FileDocuments, source \in Sources \cup {Nil} :
        /\ r.stage = "write" /\ r.op # "delete" /\ (r.op = "sync" => source = Nil)
        /\ \/ EndsUnwritten(c)
           \/ LET written == Written(r.op, record, d, source)
              IN Commits(c, id, written, EventsOf(r.op, record, written, synced(r.op, source)))
  BY DEF WriteFile
<1> DEFINE written == Written(r.op, record, d, source)
           stamped == synced(r.op, source)
           told == EventsOf(r.op, record, written, stamped)
<1>2. CASE EndsUnwritten(c)
  BY <1>2, EndKeeps
<1>3. CASE Commits(c, id, written, told)
  <2>1. /\ id \in Ids /\ Exists(id) /\ record \in FileRows /\ ~record.deleted /\ record.lastSyncedAt < now
        /\ \A q \in Clients \ {c} : ~(inFlight[q].stage = "write" /\ inFlight[q].id = id)
        /\ Whole(events[id], record) /\ Shown(events[id], record)
    BY <1>1, Writer
  <2>2. /\ written \in FileRows /\ ~written.deleted /\ written.document = d
        /\ written.revision >= record.revision /\ (written.revision = record.revision => written = record)
        /\ stamped => written.baseline = d /\ written.updatedAt = now /\ written.lastSyncedAt = now
        /\ ~stamped => written.lastSyncedAt \in {0, record.lastSyncedAt}
        /\ ~stamped /\ written.source # record.source => written.lastSyncedAt = 0 /\ written.baseline = Nil
        /\ ~stamped /\ written.source = record.source =>
             /\ written.lastSyncedAt = record.lastSyncedAt /\ written.baseline = record.baseline
             /\ written.updatedAt = IF record.document # d THEN now ELSE record.updatedAt
             /\ written.revision = record.revision + (IF record.document # d THEN 1 ELSE 0)
    BY <2>1, WrittenRow
  <2>3. stamped \in BOOLEAN /\ now \in Nat \ {0} /\ (r.op = "sync" => stamped)
    BY DEF synced, FilesInv, TablesOK
  <2>4. /\ \/ told = <<Event("UPDATED", record, written, stamped)>> /\ Told(record) # Told(written)
           \/ told = <<Event("SYNCED", record, written, stamped)>> /\ stamped
           \/ told = <<>> /\ ~stamped /\ Told(record) = Told(written)
    BY <2>3 DEF EventsOf
  <2> HIDE DEF written, stamped, told, record, id, r
  <2>5. record.lastSyncedAt \in Nat /\ record.revision \in Nat /\ written.lastSyncedAt <= now
    <3>1. record.lastSyncedAt \in Nat /\ record.revision \in Nat
      BY <2>1 DEF FileRows
    <3>2. written.lastSyncedAt \in {0, now, record.lastSyncedAt}
      BY <2>2
    <3> QED
      BY <2>1, <2>3, <3>1, <3>2
  <2>6. ASSUME ~stamped, written.source = record.source
        PROVE  IF written.document # record.document
               THEN written.updatedAt > written.lastSyncedAt /\ written.revision = record.revision + 1
               ELSE written.updatedAt = record.updatedAt /\ (written.deleted \/ written.revision = record.revision)
    BY <2>1, <2>2, <2>3, <2>5, <2>6
  <2>7. CASE told = <<>> /\ ~stamped /\ Told(record) = Told(written)
    <3>1. written.source = record.source
      BY <2>7 DEF Told
    <3>2. events[id] \in Seq(Events) /\ events[id] \o told = events[id]
      BY <2>1, <2>7 DEF Whole
    <3>3. Whole(events[id], written)
      BY <2>1, <2>2, <2>7 DEF Whole
    <3>4. Shown(events[id], written)
      BY <2>1, <2>2, <2>6, <2>7, <3>1, <3>2, EditShows
    <3> QED
      BY <1>3, <2>1, <2>2, <2>5, <3>2, <3>3, <3>4, CommitKeeps DEF record
  <2>8. ASSUME NEW type \in {"UPDATED", "SYNCED"}, told = <<Event(type, record, written, stamped)>>,
               type = "UPDATED" => Told(record) # Told(written), type = "SYNCED" => stamped
        PROVE  FilesInv'
    <3> DEFINE e == Event(type, record, written, stamped)
    <3>1. /\ e \in Events /\ e.type = type /\ e.from = Told(record) /\ e.to = Told(written) /\ e.synced = stamped
          /\ e.revision = written.revision
      BY <2>1, <2>2, <2>3, EventOK
    <3> HIDE DEF e
    <3>2. Whole(events[id] \o <<e>>, written)
      BY <2>1, <2>2, <2>8, <3>1, AppendKeepsWhole
    <3>3. events[id] \in Seq(Events)
      BY <2>1 DEF Whole
    <3>4. Shown(events[id] \o <<e>>, written)
      <4>1. CASE stamped
        BY <2>2, <2>3, <3>1, <3>3, <4>1, SyncShows
      <4>2. CASE ~stamped /\ written.source # record.source
        BY <2>2, <4>2 DEF Shown
      <4>3. CASE ~stamped /\ written.source = record.source
        <5>1. e.from # e.to => written.document # record.document
          BY <3>1, <4>3 DEF Told
        <5> QED
          BY <2>1, <2>2, <2>6, <3>1, <3>3, <4>3, <5>1, EditShows
      <4> QED
        BY <4>1, <4>2, <4>3
    <3> QED
      BY <1>3, <2>1, <2>2, <2>5, <2>8, <3>2, <3>4, CommitKeeps DEF record, e
  <2> QED
    BY <2>4, <2>7, <2>8
<1> QED
  BY <1>1, <1>2, <1>3

LEMMA DeleteKeeps ==
  ASSUME FilesInv, NEW c \in Clients, Delete(c)
  PROVE  FilesInv'
<1> DEFINE id == inFlight[c].id
           record == files[id]
           gone == Removed(record)
           e == Event("DELETED", record, record, FALSE)
<1>1. inFlight[c].stage = "write" /\ Commits(c, id, gone, <<e>>)
  BY DEF Delete
<1>2. /\ id \in Ids /\ Exists(id) /\ record \in FileRows /\ ~record.deleted /\ record.lastSyncedAt < now
      /\ \A q \in Clients \ {c} : ~(inFlight[q].stage = "write" /\ inFlight[q].id = id)
      /\ Whole(events[id], record) /\ Shown(events[id], record)
  BY <1>1, Writer
<1>3. /\ gone \in FileRows /\ gone.revision = record.revision + 1 /\ gone.deleted
      /\ gone.lastSyncedAt = record.lastSyncedAt /\ gone.baseline = record.baseline /\ gone.source = record.source
      /\ gone.updatedAt = record.updatedAt /\ gone.document = record.document
  <2> HIDE DEF record
  <2>1. /\ record.document \in FileDocuments /\ record.source \in Sources \cup {Nil} /\ record.updatedAt \in Nat
        /\ record.lastSyncedAt \in Nat /\ record.baseline \in FileDocuments \cup {Nil} /\ record.revision \in Nat
    BY <1>2 DEF FileRows
  <2> QED
    BY <2>1 DEF Removed, FileRows
<1>4. now \in Nat \ {0} /\ record.lastSyncedAt \in Nat /\ record.revision \in Nat
  BY <1>2 DEF FilesInv, TablesOK, FileRows
<1>5. /\ e \in Events /\ e.type = "DELETED" /\ e.from = Told(record) /\ e.to = Told(record) /\ ~e.synced
  <2> HIDE DEF record
  <2>1. FALSE \in BOOLEAN /\ "DELETED" \in {"CREATED", "UPDATED", "SYNCED", "DELETED"}
    OBVIOUS
  <2>2. e = Event("DELETED", record, record, FALSE)
    OBVIOUS
  <2> HIDE DEF e
  <2>3. e \in Events /\ e.type = "DELETED" /\ e.from = Told(record) /\ e.to = Told(record)
    BY <1>2, <2>1, <2>2, EventOK
  <2>4. ~e.synced
    BY <1>2, <2>1, <2>2, EventOK
  <2> QED
    BY <2>3, <2>4
<1> HIDE DEF e, gone, record, id
<1>6. Told(gone) = Told(record)
  BY <1>3 DEF Told
<1>7. events[id] \in Seq(Events) /\ Whole(events[id] \o <<e>>, gone)
  <2>1. e.type # "CREATED" /\ e.type # "UPDATED"
    BY <1>5
  <2>2. events[id] \in Seq(Events)
    BY <1>2 DEF Whole
  <2> QED
    BY <1>2, <1>3, <1>5, <1>6, <2>1, <2>2, AppendKeepsWhole
<1>8. Shown(events[id] \o <<e>>, gone)
  <2>1. gone.revision >= record.revision
    BY <1>3, <1>4
  <2> QED
    BY <1>2, <1>3, <1>5, <1>7, <2>1, EditShows
<1>9. gone.lastSyncedAt <= now
  BY <1>2, <1>3, <1>4
<1> QED
  BY <1>1, <1>2, <1>3, <1>4, <1>7, <1>8, <1>9, CommitKeeps DEF record

LEMMA InsertKeeps ==
  ASSUME FilesInv, NEW c \in Clients, Insert(c)
  PROVE  FilesInv'
<1>1. PICK id \in Ids, d \in FileDocuments, source \in Sources \cup {Nil}, op \in {"create", "import"} :
        /\ ~Exists(id)
        /\ \/ EndsUnwritten(c)
           \/ LET record == Created(d, source, synced(op, source))
              IN Commits(c, id, record, <<Event("CREATED", record, record, synced(op, source))>>)
  BY DEF Insert
<1> DEFINE stamped == synced(op, source)
           record == Created(d, source, stamped)
           e == Event("CREATED", record, record, stamped)
<1>2. CASE EndsUnwritten(c)
  BY <1>2, EndKeeps
<1>3. CASE Commits(c, id, record, <<e>>)
  <2>1. now \in Nat \ {0} /\ stamped \in BOOLEAN
    BY DEF FilesInv, TablesOK, synced
  <2>2. record \in FileRows /\ ~record.deleted /\ record.document = d
        /\ record.updatedAt = now /\ record.lastSyncedAt = (IF stamped THEN now ELSE 0)
        /\ record.baseline = IF stamped THEN d ELSE Nil
    BY <2>1 DEF Created, FileRows
  <2> HIDE DEF record
  <2>3. /\ e \in Events /\ e.type = "CREATED" /\ e.from = Told(record) /\ e.to = Told(record) /\ e.synced = stamped
        /\ e.revision = record.revision
    BY <2>1, <2>2, EventOK
  <2> HIDE DEF e, stamped
  <2>4. events[id] = <<>>
    BY <1>1 DEF FilesInv, HistoryInv
  <2>5. <<>> \in Seq(Events) /\ Len(<<>>) = 0 /\ <<>> \o <<e>> = <<e>> /\ <<e>> \in Seq(Events)
    BY <2>3
  <2>6. Len(<<e>>) = 1 /\ DOMAIN <<e>> = 1 .. 1 /\ <<e>>[1] = e
    OBVIOUS
  <2>7. Whole(<<e>>, record)
    BY <2>2, <2>3, <2>5, <2>6 DEF Whole
  <2>8. Shown(<<e>>, record)
    <3>1. CASE stamped
      BY <2>1, <2>2, <2>3, <2>5, <3>1, SyncShows
    <3>2. CASE ~stamped
      BY <2>2, <3>2 DEF Shown
    <3> QED
      BY <3>1, <3>2
  <2>9. \A q \in Clients \ {c} : ~(inFlight[q].stage = "write" /\ inFlight[q].id = id)
    BY <1>1 DEF FilesInv, RequestsInv, RequestOK, ActiveFile
  <2>10. record.lastSyncedAt <= now
    BY <2>1, <2>2
  <2>11. events[id] \o <<e>> = <<e>>
    BY <2>4, <2>5
  <2>12. Whole(events[id] \o <<e>>, record) /\ Shown(events[id] \o <<e>>, record)
    BY <2>7, <2>8, <2>11
  <2> QED
    BY <1>1, <1>3, <2>2, <2>9, <2>10, <2>12, CommitKeeps
<1> QED
  BY <1>1, <1>2, <1>3

-----------------------------------------------------------------------------
(* Theorems *)

LEMMA InitFilesInv == FilesInit => FilesInv
<1> SUFFICES ASSUME FilesInit PROVE FilesInv
  OBVIOUS
<1> PICK d \in FileDocuments, s \in Sources \cup {Nil} :
      LET record == [document |-> d, source |-> s, updatedAt |-> 1, lastSyncedAt |-> IF s = Nil THEN 0 ELSE 1,
                  baseline |-> IF s = Nil THEN Nil ELSE d, revision |-> 1, deleted |-> FALSE]
      IN /\ files = [id \in Ids |-> IF id = Min(Ids) THEN record ELSE NoFile]
         /\ events = [id \in Ids |-> IF id = Min(Ids) THEN <<Event("CREATED", record, record, s # Nil)>> ELSE <<>>]
  BY DEF FilesInit
<1> DEFINE record == [document |-> d, source |-> s, updatedAt |-> 1, lastSyncedAt |-> IF s = Nil THEN 0 ELSE 1,
                   baseline |-> IF s = Nil THEN Nil ELSE d, revision |-> 1, deleted |-> FALSE]
           e == Event("CREATED", record, record, s # Nil)
<1>1. /\ files = [id \in Ids |-> IF id = Min(Ids) THEN record ELSE NoFile]
      /\ events = [id \in Ids |-> IF id = Min(Ids) THEN <<e>> ELSE <<>>]
      /\ rowLock = [id \in Ids |-> Nil] /\ inFlight = [c \in Clients |-> NoRequest] /\ now = 2
  BY DEF FilesInit
<1>2. /\ record \in FileRows /\ ~record.deleted /\ record.document = d /\ record.updatedAt = 1
      /\ record.lastSyncedAt = (IF s = Nil THEN 0 ELSE 1) /\ record.baseline = (IF s = Nil THEN Nil ELSE d)
  BY DEF FileRows
<1> HIDE DEF record
<1>3. /\ e \in Events /\ e.type = "CREATED" /\ e.from = Told(record) /\ e.to = Told(record) /\ (e.synced <=> s # Nil)
      /\ e.revision = record.revision
  <2>1. CASE s = Nil
    <3>1. e = Event("CREATED", record, record, FALSE)
      BY <2>1
    <3> HIDE DEF e
    <3>2. /\ e \in Events /\ e.type = "CREATED" /\ e.from = Told(record) /\ e.to = Told(record) /\ e.synced = FALSE
          /\ e.revision = record.revision
      BY <1>2, <3>1, EventOK, ZenonT(60)
    <3> QED
      BY <2>1, <3>2
  <2>2. CASE s # Nil
    <3>1. e = Event("CREATED", record, record, TRUE)
      BY <2>2
    <3> HIDE DEF e
    <3>2. /\ e \in Events /\ e.type = "CREATED" /\ e.from = Told(record) /\ e.to = Told(record) /\ e.synced = TRUE
          /\ e.revision = record.revision
      BY <1>2, <3>1, EventOK, ZenonT(60)
    <3> QED
      BY <2>2, <3>2
  <2> QED
    BY <2>1, <2>2
<1> HIDE DEF e
<1>4. /\ <<>> \in Seq(Events) /\ <<>> \o <<e>> = <<e>> /\ <<e>> \in Seq(Events)
      /\ Len(<<e>>) = 1 /\ DOMAIN <<e>> = 1 .. 1 /\ <<e>>[1] = e
  BY <1>3
<1>5. Whole(<<e>>, record)
  BY <1>2, <1>3, <1>4 DEF Whole
<1>6. Shown(<<e>>, record)
  <2>1. CASE s # Nil
    <3>1. e.synced /\ record.baseline = record.document /\ record.updatedAt = record.lastSyncedAt /\ record.lastSyncedAt # 0
      BY <1>2, <1>3, <2>1
    <3>2. Shown(<<>> \o <<e>>, record)
      BY <1>2, <1>3, <1>4, <3>1, SyncShows
    <3> QED
      BY <1>4, <3>2
  <2>2. CASE s = Nil
    BY <1>2, <2>2 DEF Shown
  <2> QED
    BY <2>1, <2>2
<1>7. \A id \in Ids : Exists(id) <=> id = Min(Ids)
  BY <1>1, <1>2, RowsExist DEF Exists
<1>8. TablesOK
  <2>1. files \in [Ids -> FileRows \cup {NoFile}] /\ rowLock \in [Ids -> Clients \cup {Nil}] /\ DOMAIN inFlight = Clients
    BY <1>1, <1>2
  <2>2. \A id \in Ids : Exists(id) => files[id] = record
    BY <1>1, <1>7
  <2>3. record.lastSyncedAt < 2
    BY <1>2
  <2>4. now = 2
    BY <1>1
  <2>5. now \in Nat \ {0} /\ \A id \in Ids : Exists(id) => files[id].lastSyncedAt < now
    BY <2>2, <2>3, <2>4
  <2> QED
    BY <2>1, <2>5 DEF TablesOK
<1>9. RequestsInv
  BY <1>1, NoRequestOK DEF RequestsInv
<1>10. DOMAIN events = Ids /\ HistoryInv
  BY <1>1, <1>5, <1>6, <1>7 DEF HistoryInv
<1> QED
  BY <1>8, <1>9, <1>10 DEF FilesInv

LEMMA NextFilesInv == FilesInv /\ [FilesNext]_filesVars => FilesInv'
<1> SUFFICES ASSUME FilesInv, [FilesNext]_filesVars PROVE FilesInv'
  OBVIOUS
<1>1. CASE UNCHANGED filesVars
  BY <1>1 DEF filesVars, FilesInv, TablesOK, RequestsInv, RequestOK, SeenOK, HistoryInv, Exists, ActiveFile
<1>2. ASSUME NEW c \in Clients,
             Reads(c) \/ LockRow(c) \/ Locate(c) \/ LockLocated(c) \/ WriteFile(c) \/ Delete(c) \/ Insert(c) \/ Fails(c)
      PROVE  FilesInv'
  BY <1>2, ReadKeeps, LockRowKeeps, LocateKeeps, LockLocatedKeeps, WriteKeeps, DeleteKeeps, InsertKeeps, EndKeeps
     DEF Fails
<1> QED
  BY <1>1, <1>2 DEF FilesNext, Rests

THEOREM FilesInvariant == FilesSpec => []FilesInv
BY InitFilesInv, NextFilesInv, PTL DEF FilesSpec

\* Whatever other clients save, sync, delete and import meanwhile, a request that carried a
\* revision, or expected a row, wrote over exactly the row its client had read
\* (requireExpectedRevision; CatalogFileService.update, syncFromRepo, delete).
THEOREM GuardHolds == FilesSpec => RevisionsGuard
<1>1. FilesInv /\ [FilesNext]_filesVars =>
        [\A c \in Clients :
           /\ inFlight[c].stage = "write" /\ inFlight'[c] = NoRequest /\ files' # files
           /\ inFlight[c].seen # ExpectsNothing
           => files[inFlight[c].id] = inFlight[c].seen.row]_filesVars
  BY DEF FilesInv, RequestsInv, RequestOK, SeenOK
<1> QED
  BY <1>1, FilesInvariant, PTL DEF FilesSpec, RevisionsGuard

\* The events of a file account for it: an unbroken chain from its creation to every field
\* of the row as it stands, whose last sync is the baseline the row is compared with and,
\* by its revision, tells whether the file was changed since
\* (CatalogFileEventService.recordInTransaction).
THEOREM HistoryHolds == FilesSpec => []HistoryAccountsForFiles
<1>1. FilesInv => HistoryAccountsForFiles
  <2> SUFFICES ASSUME FilesInv, NEW id \in Ids, Exists(id) PROVE HistoryIsWhole(id) /\ DriftIsShown(id)
    BY DEF HistoryAccountsForFiles
  <2> DEFINE told == events[id]
             record == files[id]
             syncs == {k \in DOMAIN told : told[k].synced}
  <2>1. Whole(told, record) /\ Shown(told, record)
    BY DEF FilesInv, HistoryInv
  <2>2. HistoryIsWhole(id)
    BY <2>1 DEF HistoryIsWhole, Whole
  <2>3. DriftIsShown(id)
    <3>1. CASE record.lastSyncedAt = 0
      BY <2>1, <3>1 DEF DriftIsShown, Shown
    <3>2. CASE record.lastSyncedAt # 0
      <4>1. PICK m \in DOMAIN told : SyncedLast(told, m) /\ ShownSince(told, m, record)
        BY <2>1, <3>2 DEF Shown
      <4>2. syncs \in SUBSET Nat /\ m \in syncs /\ \A k \in syncs : k <= m
        BY <2>1, <4>1 DEF SyncedLast, Whole
      <4>3. Max(syncs) = m
        BY <4>2, MaxIs
      <4> QED
        BY <3>2, <4>1, <4>2, <4>3 DEF DriftIsShown, ShownSince, ModifiedSince, Base
    <3> QED
      BY <3>1, <3>2
  <2> QED
    BY <2>2, <2>3
<1> QED
  BY <1>1, FilesInvariant, PTL

-----------------------------------------------------------------------------
(* Imports of entities *)

\* A client that read the workspace knows versions before the import began.
GuardsAreOld == \A i \in Indices : expected[i] # Absent => expected[i] \in {0, 1}

\* What others have written is there, or was, and is newer than what the client read.
ForeignIsLate ==
  \A r \in foreign : table[r] # NoRow /\ (r \in Active(table) => table[r].at \in Nat /\ table[r].at >= 2)

StampsArePast == \A i \in Indices : stored[i] # Absent => stamps[i] \in Nat /\ stamps[i] < clock

\* A row that others wrote after pass 1 stored it no longer has the stamp of pass 1.
ForeignOvertakes ==
  \A i \in Indices : stored[i] \in foreign /\ stored[i] \in Active(table) => table[stored[i]].at > stamps[i]

ImportInv ==
  /\ clock \in Nat /\ since \in Nat /\ 2 <= since /\ since <= clock
  /\ DOMAIN table = Rows /\ foreign \subseteq Rows
  /\ stored \in [Indices -> Rows \cup {Absent}] /\ DOMAIN stamps = Indices
  /\ GuardsAreOld /\ ForeignIsLate /\ StampsArePast /\ ForeignOvertakes

\* A written row is a row, whatever was written.
LEMMA StampedRow == \A d, t : Stamped(d, t).at = t /\ Stamped(d, t) # NoRow
<1> SUFFICES ASSUME NEW d, NEW t PROVE Stamped(d, t).at = t /\ Stamped(d, t) # NoRow
  OBVIOUS
<1>1. DOMAIN Stamped(d, t) # DOMAIN NoRow
  <2>1. "at" \in DOMAIN Stamped(d, t)
    BY DEF Stamped
  <2>2. "at" \notin DOMAIN NoRow
    BY DEF NoRow
  <2> QED
    BY <2>1, <2>2
<1> QED
  BY <1>1 DEF Stamped

\* What an update writes: the row and those that name it, all of them with its stamp.
LEMMA UpdateStamps ==
  ASSUME NEW es, NEW r, NEW d, NEW t, NEW q \in Rows
  PROVE  \/ updated(es, r, d, t)[q] = es[q]
         \/ updated(es, r, d, t)[q].at = t /\ updated(es, r, d, t)[q] # NoRow
<1>1. q = r => \E c : updated(es, r, d, t)[q] = Stamped(c, t)
  BY DEF updated
<1>2. q # r => updated(es, r, d, t)[q] = es[q] \/ \E c : updated(es, r, d, t)[q] = Stamped(c, t)
  BY DEF updated
<1> QED
  BY <1>1, <1>2, StampedRow

\* An accepted update is of an active row, one that still has the version it is held to.
LEMMA UpdateGuarded ==
  ASSUME NEW es, NEW r, NEW d, NEW version, updateVerdict(es, r, d, version) = "UPDATED"
  PROVE  r \in Active(es) /\ (version # Absent => es[r].at = version)
  BY DEF updateVerdict

\* A step that changes no row, and at most lets time pass.
LEMMA NothingWritten ==
  ASSUME ImportInv, UNCHANGED <<table, clock, batch, expected, stored, stamps, foreign>>,
         since' \in {since, clock}
  PROVE  ImportInv'
<1>1. /\ Indices' = Indices /\ \A r : (r \in Active(table))' <=> r \in Active(table)
      /\ NoRow' = NoRow
  BY DEF Indices, Active, NoRow
<1>2. GuardsAreOld' /\ ForeignIsLate' /\ StampsArePast' /\ ForeignOvertakes'
  BY <1>1 DEF ImportInv, GuardsAreOld, ForeignIsLate, StampsArePast, ForeignOvertakes
<1>3. since' \in Nat /\ 2 <= since' /\ since' <= clock'
  BY DEF ImportInv
<1> QED
  BY <1>1, <1>2, <1>3 DEF ImportInv

\* A step that writes rows at the current millisecond, of others or of the import: what
\* is foreign afterwards was so before, or is written by the step.
LEMMA RowsWritten ==
  ASSUME ImportInv, UNCHANGED <<batch, expected>>,
         DOMAIN table' = Rows, clock' = clock + 1, since' \in {since, clock'},
         foreign' \subseteq Rows,
         stored' \in [Indices -> Rows \cup {Absent}], DOMAIN stamps' = Indices,
         \A r \in foreign' :
           \/ r \in foreign /\ table'[r] = table[r]
           \/ table'[r] # NoRow /\ (r \in Active(table') => table'[r].at = clock),
         \A i \in Indices :
           \/ stored'[i] = stored[i] /\ stamps'[i] = stamps[i]
           \/ stored'[i] \notin foreign' /\ stamps'[i] \in Nat /\ stamps'[i] <= clock
  PROVE  ImportInv'
<1>1. Indices' = Indices /\ NoRow' = NoRow /\ Active(table)' = Active(table')
  BY DEF Indices, Active, NoRow
<1>2. clock' \in Nat /\ since' \in Nat /\ 2 <= since' /\ since' <= clock' /\ 2 <= clock /\ clock \in Nat
  BY DEF ImportInv
<1>3. GuardsAreOld'
  BY <1>1 DEF ImportInv, GuardsAreOld
<1>4. ForeignIsLate'
  <2> SUFFICES ASSUME NEW r \in foreign'
               PROVE  table'[r] # NoRow /\ (r \in Active(table') => table'[r].at \in Nat /\ table'[r].at >= 2)
    BY <1>1 DEF ForeignIsLate
  <2>1. CASE r \in foreign /\ table'[r] = table[r]
    <3>1. r \in Active(table') => r \in Active(table)
      BY <2>1 DEF Active
    <3> QED
      BY <2>1, <3>1 DEF ImportInv, ForeignIsLate
  <2>2. CASE table'[r] # NoRow /\ (r \in Active(table') => table'[r].at = clock)
    BY <2>2, <1>2
  <2> QED
    BY <2>1, <2>2
<1>5. StampsArePast'
  <2> SUFFICES ASSUME NEW i \in Indices, stored'[i] # Absent PROVE stamps'[i] \in Nat /\ stamps'[i] < clock'
    BY <1>1 DEF StampsArePast
  <2>1. CASE stored'[i] = stored[i] /\ stamps'[i] = stamps[i]
    BY <2>1, <1>2 DEF ImportInv, StampsArePast
  <2>2. CASE stamps'[i] \in Nat /\ stamps'[i] <= clock
    BY <2>2, <1>2
  <2> QED
    BY <2>1, <2>2
<1>6. ForeignOvertakes'
  <2> SUFFICES ASSUME NEW i \in Indices, stored'[i] \in foreign', stored'[i] \in Active(table')
               PROVE  table'[stored'[i]].at > stamps'[i]
    BY <1>1 DEF ForeignOvertakes
  <2>1. stored'[i] = stored[i] /\ stamps'[i] = stamps[i] /\ stored[i] \in Rows
    OBVIOUS
  <2>2. stamps[i] \in Nat /\ stamps[i] < clock
    <3>1. stored[i] # Absent
      BY <2>1, ImportAssumption
    <3> QED
      BY <3>1 DEF ImportInv, StampsArePast
  <2>3. CASE stored[i] \in foreign /\ table'[stored[i]] = table[stored[i]]
    <3>1. stored[i] \in Active(table)
      BY <2>1, <2>3 DEF Active
    <3> QED
      BY <2>1, <2>3, <3>1 DEF ImportInv, ForeignOvertakes
  <2>4. CASE table'[stored[i]].at = clock
    BY <2>1, <2>2, <2>4, <1>2
  <2> QED
    BY <2>1, <2>3, <2>4
<1> QED
  BY <1>1, <1>2, <1>3, <1>4, <1>5, <1>6 DEF ImportInv

\* A committed row of pass 1, of a row that nobody else holds or that is written whole.
LEMMA RowCommitted ==
  ASSUME ImportInv, UNCHANGED <<batch, expected>>, NEW i \in Indices, NEW r \in Rows, NEW es, NEW t \in Nat,
         CommitsRow(i, r, es, t), t <= clock, since' \in {since, clock'}, DOMAIN es = Rows,
         \A q \in Rows \ {r} : es[q] = table[q] \/ (es[q].at = clock /\ es[q] # NoRow)
  PROVE  ImportInv'
<1>1. /\ table' = es /\ clock' = clock + 1 /\ foreign' = foreign \ {r}
      /\ stored' = [stored EXCEPT ![i] = r] /\ stamps' = [stamps EXCEPT ![i] = t]
  BY DEF CommitsRow
<1>2. foreign \subseteq Rows /\ stored \in [Indices -> Rows \cup {Absent}] /\ DOMAIN stamps = Indices
  BY DEF ImportInv
<1>3. \A q \in foreign' : \/ q \in foreign /\ table'[q] = table[q]
                          \/ table'[q] # NoRow /\ (q \in Active(table') => table'[q].at = clock)
  BY <1>1, <1>2
<1>4. \A j \in Indices : \/ stored'[j] = stored[j] /\ stamps'[j] = stamps[j]
                         \/ stored'[j] \notin foreign' /\ stamps'[j] \in Nat /\ stamps'[j] <= clock
  BY <1>1, <1>2
<1>5. /\ DOMAIN table' = Rows /\ foreign' \subseteq Rows
      /\ stored' \in [Indices -> Rows \cup {Absent}] /\ DOMAIN stamps' = Indices
  BY <1>1, <1>2
<1> QED
  BY <1>1, <1>3, <1>4, <1>5, RowsWritten

LEMMA ProceedsOn == Proceed => since' = clock' /\ UNCHANGED <<batch, expected>>
  BY DEF Proceed, request

LEMMA UpdatedRows == \A es, r, d, t : DOMAIN updated(es, r, d, t) = Rows
  BY DEF updated

\* A counterpart is a row of the snapshot, whatever the snapshot.
LEMMA CounterpartIsRow ==
  ASSUME NEW es, NEW d, existingId(es, d) # Absent PROVE existingId(es, d) \in Active(es)
  BY DEF existingId, Counterparts

-----------------------------------------------------------------------------
(* The steps of an import *)

LEMMA CreateRowKeeps ==
  ASSUME ImportInv, NEW i \in Indices, CreateRow(i)
  PROVE  ImportInv' /\ foreign' = foreign
<1>1. since' = clock' /\ UNCHANGED <<batch, expected>>
  BY ProceedsOn DEF CreateRow
<1>2. CASE RollsBack
  <2>1. ImportInv'
    BY <1>1, <1>2, NothingWritten DEF RollsBack
  <2> QED
    BY <1>2, <2>1 DEF RollsBack
<1>3. CASE \E r \in Fresh(table), t \in since .. clock :
             CommitsRow(i, r, [table EXCEPT ![r] = Stamped(withDeferredStripped(i), t)], t)
  <2>1. PICK r \in Fresh(table), t \in since .. clock :
          CommitsRow(i, r, [table EXCEPT ![r] = Stamped(withDeferredStripped(i), t)], t)
    BY <1>3
  <2>2. r \in Rows /\ r \notin foreign
    BY DEF Fresh, Free, ImportInv, ForeignIsLate
  <2>3. t \in Nat /\ t <= clock
    BY DEF ImportInv
  <2> DEFINE es == [table EXCEPT ![r] = Stamped(withDeferredStripped(i), t)]
  <2>4. DOMAIN es = Rows /\ \A q \in Rows \ {r} : es[q] = table[q]
    BY DEF ImportInv
  <2>5. CommitsRow(i, r, es, t)
    BY <2>1
  <2> HIDE DEF es
  <2>6. ImportInv'
    BY <1>1, <2>2, <2>3, <2>4, <2>5, RowCommitted
  <2>7. foreign' = foreign
    BY <2>2, <2>5 DEF CommitsRow
  <2> QED
    BY <2>6, <2>7
<1> QED
  BY <1>2, <1>3 DEF CreateRow

LEMMA ReplaceRowKeeps ==
  ASSUME ImportInv, NEW i \in Indices, ReplaceRow(i)
  PROVE  /\ ImportInv'
         /\ \A r \in foreign \ foreign' : phase = "pass1" /\ expected[Head(queue)] = Absent
<1>1. since' = clock' /\ UNCHANGED <<batch, expected>> /\ phase = "pass1" /\ i = Head(queue)
  BY ProceedsOn DEF ReplaceRow, Turn
<1>2. CASE RollsBack
  <2>1. ImportInv'
    BY <1>1, <1>2, NothingWritten DEF RollsBack
  <2> QED
    BY <1>2, <2>1 DEF RollsBack
<1>3. CASE \E r : /\ updateVerdict(table, r, withDeferredStripped(i), expected[i]) = "UPDATED"
                  /\ CommitsRow(i, r, updated(table, r, withDeferredStripped(i), clock), clock)
  <2>1. PICK r : /\ updateVerdict(table, r, withDeferredStripped(i), expected[i]) = "UPDATED"
                 /\ CommitsRow(i, r, updated(table, r, withDeferredStripped(i), clock), clock)
    BY <1>3
  <2>2. r \in Active(table) /\ (expected[i] # Absent => table[r].at = expected[i])
    BY <2>1, UpdateGuarded
  <2>3. r \in Rows /\ clock \in Nat
    BY <2>2 DEF Active, ImportInv
  <2> PICK es : es = updated(table, r, withDeferredStripped(i), clock)
    OBVIOUS
  <2>4. DOMAIN es = Rows /\ \A q \in Rows \ {r} : es[q] = table[q] \/ (es[q].at = clock /\ es[q] # NoRow)
    BY UpdatedRows, UpdateStamps
  <2>5. ImportInv'
    BY <1>1, <2>1, <2>3, <2>4, RowCommitted
  <2>6. foreign' = foreign \ {r}
    BY <2>1 DEF CommitsRow
  <2>7. r \in foreign => expected[i] = Absent
    <3> SUFFICES ASSUME r \in foreign, expected[i] # Absent PROVE FALSE
      OBVIOUS
    <3>1. table[r].at >= 2
      BY <2>2 DEF ImportInv, ForeignIsLate
    <3>2. expected[i] \in {0, 1}
      BY DEF ImportInv, GuardsAreOld
    <3> QED
      BY <2>2, <3>1, <3>2
  <2> QED
    BY <1>1, <2>5, <2>6, <2>7
<1> QED
  BY <1>2, <1>3 DEF ReplaceRow

LEMMA CompleteRowKeeps ==
  ASSUME ImportInv, NEW i \in Indices, CompleteRow(i)
  PROVE  ImportInv' /\ foreign' = foreign
<1>1. since' = clock' /\ UNCHANGED <<batch, expected>>
  BY ProceedsOn DEF CompleteRow
<1>2. CASE RollsBack
  <2>1. ImportInv'
    BY <1>1, <1>2, NothingWritten DEF RollsBack
  <2> QED
    BY <1>2, <2>1 DEF RollsBack
<1>3. CASE /\ updateVerdict(table, stored[i], batch[i], stamps[i]) = "UPDATED"
           /\ table' = updated(table, stored[i], batch[i], clock) /\ clock' = clock + 1
           /\ foreign' = foreign \ {stored[i]} /\ UNCHANGED <<stored, stamps>>
  <2>1. stored[i] \in Active(table) /\ (stamps[i] # Absent => table[stored[i]].at = stamps[i])
    BY <1>3, UpdateGuarded
  <2>2. stored[i] \in Rows /\ stamps[i] \in Nat
    <3>1. stored[i] \in Rows
      BY <2>1 DEF Active
    <3>2. stored[i] # Absent
      BY <3>1, ImportAssumption
    <3> QED
      BY <3>1, <3>2 DEF ImportInv, StampsArePast
  <2>3. stored[i] \notin foreign
    BY <2>1, <2>2, ImportAssumption DEF ImportInv, ForeignOvertakes
  <2>4. foreign' = foreign
    BY <1>3, <2>3
  <2>5. DOMAIN table' = Rows
    BY <1>3, UpdatedRows
  <2>6. \A q \in Rows : table'[q] = table[q] \/ (table'[q].at = clock /\ table'[q] # NoRow)
    BY <1>3, UpdateStamps
  <2>7. ImportInv'
    BY <1>1, <1>3, <2>4, <2>5, <2>6, RowsWritten DEF ImportInv
  <2> QED
    BY <2>4, <2>7
<1> QED
  BY <1>2, <1>3 DEF CompleteRow

-----------------------------------------------------------------------------
(* The steps of others *)

LEMMA OthersKeep ==
  ASSUME ImportInv, Others, clock' = clock + 1, DOMAIN table' = Rows, NEW changed \in SUBSET Rows,
         foreign' = foreign \cup changed,
         \A q \in Rows \ changed : table'[q] = table[q],
         \A q \in changed : table'[q] # NoRow /\ (q \in Active(table') => table'[q].at = clock)
  PROVE  ImportInv' /\ foreign \subseteq foreign'
<1>1. UNCHANGED <<batch, expected, stored, stamps, since>>
  BY DEF Others, request
<1>2. /\ foreign \subseteq Rows /\ stored \in [Indices -> Rows \cup {Absent}] /\ DOMAIN stamps = Indices
  BY DEF ImportInv
<1>3. \A r \in foreign' : \/ r \in foreign /\ table'[r] = table[r]
                          \/ table'[r] # NoRow /\ (r \in Active(table') => table'[r].at = clock)
  BY <1>2
<1> QED
  BY <1>1, <1>2, <1>3, RowsWritten

LEMMA OtherCreatesKeeps ==
  ASSUME ImportInv, NEW d, OtherCreates(d)
  PROVE  ImportInv' /\ foreign \subseteq foreign'
<1>1. PICK r \in Fresh(table) : table' = [table EXCEPT ![r] = Stamped(d, clock)] /\ foreign' = foreign \cup {r}
  BY DEF OtherCreates
<1>2. r \in Rows
  BY DEF Fresh, Free
<1>3. DOMAIN table' = Rows /\ \A q \in Rows \ {r} : table'[q] = table[q]
  BY <1>1, <1>2 DEF ImportInv
<1>4. table'[r] # NoRow /\ table'[r].at = clock
  BY <1>1, <1>2, StampedRow DEF ImportInv
<1>5. Others /\ clock' = clock + 1
  BY DEF OtherCreates
<1> PICK changed \in SUBSET Rows : changed = {r}
  BY <1>2
<1>6. \A q \in changed : table'[q] # NoRow /\ (q \in Active(table') => table'[q].at = clock)
  BY <1>4
<1> QED
  BY <1>1, <1>3, <1>5, <1>6, OthersKeep

LEMMA OtherUpdatesKeeps ==
  ASSUME ImportInv, NEW r \in Rows, NEW d, OtherUpdates(r, d)
  PROVE  ImportInv' /\ foreign \subseteq foreign'
<1> DEFINE changed == {q \in Rows : table'[q] # table[q]}
<1>1. Others /\ clock' = clock + 1 /\ table' = updated(table, r, d, clock) /\ foreign' = foreign \cup changed
  BY DEF OtherUpdates
<1>2. DOMAIN table' = Rows /\ \A q \in Rows : table'[q] = table[q] \/ (table'[q].at = clock /\ table'[q] # NoRow)
  BY <1>1, UpdatedRows, UpdateStamps
<1>3. /\ \A q \in Rows \ changed : table'[q] = table[q]
      /\ \A q \in changed : table'[q] # NoRow /\ (q \in Active(table') => table'[q].at = clock)
  BY <1>2
<1> QED
  BY <1>1, <1>2, <1>3, OthersKeep

LEMMA OtherDeletesKeeps ==
  ASSUME ImportInv, NEW r \in Rows, OtherDeletes(r)
  PROVE  ImportInv' /\ foreign \subseteq foreign'
<1>1. /\ Others /\ clock' = clock + 1 /\ table' = [table EXCEPT ![r] = Deleted] /\ foreign' = foreign \cup {r}
  BY DEF OtherDeletes
<1>2. DOMAIN table' = Rows /\ table'[r] = Deleted /\ \A q \in Rows \ {r} : table'[q] = table[q]
  BY <1>1 DEF ImportInv
<1>3. Deleted # NoRow /\ r \notin Active(table')
  <2>1. "deleted" \in DOMAIN Deleted /\ "deleted" \notin DOMAIN NoRow
    BY DEF Deleted, NoRow
  <2>2. Deleted.name = Absent
    BY DEF Deleted
  <2> QED
    BY <1>2, <2>1, <2>2 DEF Active
<1> PICK changed \in SUBSET Rows : changed = {r}
  OBVIOUS
<1>4. \A q \in changed : table'[q] # NoRow /\ (q \in Active(table') => table'[q].at = clock)
  BY <1>2, <1>3
<1> QED
  BY <1>1, <1>2, <1>4, OthersKeep

-----------------------------------------------------------------------------
(* The theorem *)

\* Rows of a workspace before the import were written at 1, and only their versions are known.
LEMMA InitImportInv == ImportInit => ImportInv
<1> SUFFICES ASSUME ImportInit PROVE ImportInv
  OBVIOUS
<1>1. PICK ds, b, replace, guards :
        Start(Table(ds), b, replace, guards) /\ guards \in {Versions(Table(ds), b), [i \in DOMAIN b |-> Absent]}
  BY DEF ImportInit, Workspaces
<1>2. /\ table = Table(ds) /\ clock = 2 /\ since = 2 /\ batch = b /\ expected = guards /\ foreign = {}
      /\ stored = [i \in DOMAIN b |-> Absent] /\ stamps = stored
  BY <1>1 DEF Start
<1>3. \A i \in DOMAIN b : Versions(Table(ds), b)[i] \in {0, 1}
  <2> SUFFICES ASSUME NEW i \in DOMAIN b PROVE Versions(Table(ds), b)[i] \in {0, 1}
    OBVIOUS
  <2>1. CASE existingId(Table(ds), b[i]) = Absent
    BY <2>1 DEF Versions
  <2>2. CASE existingId(Table(ds), b[i]) # Absent
    <3> PICK r : r = existingId(Table(ds), b[i])
      OBVIOUS
    <3>1. r \in Rows /\ Table(ds)[r].name # Absent
      BY <2>2, CounterpartIsRow DEF Active
    <3>2. Table(ds)[r] = Stamped(ds[r], 1)
      BY <3>1 DEF Table, NoRow
    <3> QED
      BY <2>2, <3>2, StampedRow DEF Versions
  <2> QED
    BY <2>1, <2>2
<1>4. GuardsAreOld
  BY <1>1, <1>2, <1>3 DEF GuardsAreOld, Indices
<1>5. DOMAIN table = Rows
  BY <1>2 DEF Table
<1> QED
  BY <1>2, <1>4, <1>5 DEF ImportInv, ForeignIsLate, StampsArePast, ForeignOvertakes, Indices

LEMMA NextImportInv ==
  ASSUME ImportInv, [ImportNext]_importVars
  PROVE  /\ ImportInv'
         /\ \A r \in foreign \ foreign' : phase = "pass1" /\ expected[Head(queue)] = Absent
<1>1. CASE UNCHANGED importVars
  BY <1>1, NothingWritten DEF importVars
<1>2. CASE Plan
  BY <1>2, NothingWritten DEF Plan, request
<1>3. ASSUME NEW i \in Indices, CreateRow(i) \/ ReplaceRow(i) \/ CompleteRow(i)
      PROVE  /\ ImportInv'
             /\ \A r \in foreign \ foreign' : phase = "pass1" /\ expected[Head(queue)] = Absent
  BY <1>3, CreateRowKeeps, ReplaceRowKeeps, CompleteRowKeeps
<1>4. ASSUME NEW i \in Indices, StorageFails(i)
      PROVE  ImportInv' /\ foreign' = foreign
  <2>1. since' = clock' /\ UNCHANGED <<batch, expected>> /\ RollsBack
    BY <1>4, ProceedsOn DEF StorageFails
  <2> QED
    BY <2>1, NothingWritten DEF RollsBack
<1>5. ASSUME NEW d \in Edits, OtherCreates(d)
      PROVE  ImportInv' /\ foreign \subseteq foreign'
  BY <1>5, OtherCreatesKeeps
<1>6. ASSUME NEW r \in Rows, NEW d \in Edits, OtherUpdates(r, d)
      PROVE  ImportInv' /\ foreign \subseteq foreign'
  BY <1>6, OtherUpdatesKeeps
<1>7. ASSUME NEW r \in Rows, OtherDeletes(r)
      PROVE  ImportInv' /\ foreign \subseteq foreign'
  BY <1>7, OtherDeletesKeeps
<1> QED
  BY <1>1, <1>2, <1>3, <1>4, <1>5, <1>6, <1>7 DEF ImportNext, Answered

\* A write that is guarded, by the version the client read or by the stamp pass 1 left,
\* never replaces what somebody else has written meanwhile (EntityService.import).
THEOREM ImportsGuarded == ImportSpec => NothingOverwritten
<1>1. ImportInv /\ [ImportNext]_importVars => ImportInv'
  BY NextImportInv
<1>2. ImportInv /\ [ImportNext]_importVars
        => [\A r \in foreign \ foreign' : phase = "pass1" /\ expected[Head(queue)] = Absent]_importVars
  BY NextImportInv
<1> QED
  BY InitImportInv, <1>1, <1>2, PTL DEF ImportSpec, NothingOverwritten
=============================================================================
