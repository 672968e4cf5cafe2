---------------------------- MODULE MCDictionaries ----------------------------
(***************************************************************************)
(* Small instances of Dictionaries for TLC: a behaviour is one of the      *)
(* HIERARCHY dictionary, whose replaces take the table lock, or one of     *)
(* NAMESPACE, whose replaces do not.                                       *)
(***************************************************************************)
EXTENDS Dictionaries, TLC

H == INSTANCE Dictionaries WITH Locked <- TRUE, UsesDefault <- FALSE

VARIABLE dictionary

\* Ids, transactions and blueprints are interchangeable; one value stands in unused rows.
Symmetry == Permutations(Ids) \cup Permutations(Requests) \cup Permutations(Blueprints)

\* Two entries of a namespace dictionary are enough for a swap.
Touched == {i \in Ids : rows[i].state # "unused" \/ \E t \in Requests : txs[t].own[i] # None}

\* The dictionary without and with a lock; no blueprint names a namespace.
MCInit ==
  \/ dictionary = "hierarchies" /\ H!Init
  \/ dictionary = "namespaces" /\ Init /\ Cardinality(Touched) <= 2

Namespaces == dictionary = "namespaces" /\ dictionary' = dictionary /\ Cardinality(Touched') <= 2

MCNext ==
  \/ dictionary = "hierarchies" /\ dictionary' = dictionary /\ H!Next
  \/ \E t \in Requests, items \in Documents : Read(t, items) /\ Namespaces
  \/ \E t \in Requests : Proceeds(t) /\ Namespaces

MCSpec == MCInit /\ [][MCNext]_<<vars, dictionary>>

\* A replace under the table lock (DictionaryService.replaceLocked of HIERARCHY) leaves
\* stored the document it answers 204 to, with no row of anybody else's mixed in.
HierarchiesStoreTheirDocument == [][dictionary = "hierarchies" => StoresItsDocument]_<<vars, dictionary>>
=============================================================================
