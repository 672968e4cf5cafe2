----------------------------- MODULE MCOntology -----------------------------
(***************************************************************************)
(* Small instances of Ontology for TLC.                                    *)
(***************************************************************************)
EXTENDS Ontology, TLC

\* Writers are interchangeable, and so are the rows other than the seeded one.
WriterSymmetry == Permutations(Writers)

Symmetry == Permutations(Writers) \cup Permutations(EntityIds) \cup Permutations(EntityNames)
              \cup Permutations(BlueprintIds \ {TeamId}) \cup Permutations(Names \ {TeamName})
=============================================================================
