---------------------------- MODULE Dictionaries ----------------------------
(***************************************************************************)
(* The whole-document replace of one global dictionary, statement by       *)
(* statement under READ COMMITTED, and the blueprint writes that name its  *)
(* values.  HIERARCHY (Locked) is replaced under the table lock blueprint  *)
(* writes take; NAMESPACE and LIFECYCLE are replaced without one, and only *)
(* row locks and the partial unique indexes come between two replaces.     *)
(*                                                                         *)
(* A transaction's rows are its own until it commits.  A failed one is not *)
(* run again: it is answered an error, and what follows is a new request.  *)
(***************************************************************************)
EXTENDS Naturals, Sequences, FiniteSets

CONSTANTS Ids, Values, Requests, Blueprints,
          None,
          Locked,        \* the dictionary is HIERARCHY
          UsesDefault,   \* the dictionary is NAMESPACE
          MaxItems       \* entries of a document

ASSUME DictionariesAssumption ==
  /\ Locked \in BOOLEAN /\ UsesDefault \in BOOLEAN
  /\ MaxItems \in Nat \ {0}
  /\ None \notin Ids /\ Values # {}

VARIABLES rows,      \* dictionary_entries, as committed
          txs,       \* the replaces under way
          named,     \* hierarchyRelations of the active blueprints: the values named
          writing    \* the blueprint write under way, or None

vars == <<rows, txs, named, writing>>

RowStates == {"unused", "active", "deleted"}
Rows == [state : RowStates, value : Values, isDefault : BOOLEAN, position : 0 .. MaxItems - 1]

\* SQL's NULL is no row.
ASSUME RowsAssumption == None \notin Rows

\* PUT items: an id updates that entry, None inserts one.
Items == [id : Ids \cup {None}, value : Values, isDefault : BOOLEAN]

NoRow == [state |-> "unused", value |-> CHOOSE v \in Values : TRUE, isDefault |-> FALSE, position |-> 0]
Idle == [at |-> "idle", items |-> <<>>, todo |-> {}, own |-> [i \in Ids |-> None], next |-> 1]

ItemIds(items) == {items[n].id : n \in DOMAIN items} \ {None}

\* validateDictionaryUpdate and requirePayloadIds, for the ids of this dictionary.
Valid(items) ==
  /\ \A m, n \in DOMAIN items : m # n =>
       items[m].value # items[n].value /\ (items[m].id = items[n].id => items[m].id = None)
  /\ LET flagged == {n \in DOMAIN items : items[n].isDefault} IN
     IF UsesDefault THEN items # <<>> => Cardinality(flagged) = 1 ELSE flagged = {}

Drafts == UNION {[1 .. n -> Items] : n \in 0 .. MaxItems}
Documents == {items \in Drafts : Valid(items)}

Txs == [at : {"idle", "delete", "clear"}, items : Documents, todo : SUBSET Ids,
        own : [Ids -> Rows \cup {None}], next : 1 .. MaxItems + 1]

\* Entries, transactions and blueprints have their types.
TypeOK ==
  /\ rows \in [Ids -> Rows]
  /\ txs \in [Requests -> Txs]
  /\ named \in [Blueprints -> SUBSET Values]
  /\ writing \in {None} \cup [blueprint : Blueprints, names : SUBSET Values]

ActiveIds == {i \in Ids : rows[i].state = "active"}
ActiveValues == {rows[i].value : i \in ActiveIds}

-----------------------------------------------------------------------------
(* What a transaction sees and may touch *)

\* The last committed version of a row, or the transaction's own.
See(t, i) == IF txs[t].own[i] # None THEN txs[t].own[i] ELSE rows[i]

RowFree(t, i) == \A s \in Requests \ {t} : txs[s].own[i] = None

\* The unique indexes over the active values and over the active default flag.
Conflict(p, q) ==
  /\ p.state = "active" /\ q.state = "active"
  /\ p.value = q.value \/ (p.isDefault /\ q.isDefault)

\* A row conflicting with one that another transaction has in hand waits for it.
Storable(t, i, row) ==
  \A j \in Ids \ {i} :
    /\ ~Conflict(row, See(t, j))
    /\ \A s \in Requests \ {t} : txs[s].own[j] # None => ~Conflict(row, txs[s].own[j])

\* Mutant: nobody takes the lock of `blueprints'.
TableNeverLocked == TRUE

\* SHARE ROW EXCLUSIVE on `blueprints' conflicts with itself.
TableFree == Locked => writing = None /\ \A t \in Requests : txs[t].at = "idle"

-----------------------------------------------------------------------------
Init ==
  /\ rows \in [Ids -> {NoRow} \cup
       {[state |-> "active", value |-> v, isDefault |-> d, position |-> p] :
          v \in Values, d \in BOOLEAN, p \in 0 .. MaxItems - 1}]
  /\ \A i, j \in ActiveIds : i # j => ~Conflict(rows[i], rows[j]) /\ rows[i].position # rows[j].position
  /\ \A i \in ActiveIds : rows[i].position < Cardinality(ActiveIds)
  /\ Cardinality({i \in ActiveIds : rows[i].isDefault}) = IF UsesDefault /\ ActiveIds # {} THEN 1 ELSE 0
  /\ txs = [t \in Requests |-> Idle]
  /\ named = [b \in Blueprints |-> {}]
  /\ writing = None

\* Mutant: renamed values are not counted as disappearing.
RemovedOnly(items) == {rows[i].value : i \in ActiveIds \ ItemIds(items)}

\* Values this document removes or renames.
Disappearing(items) ==
  {rows[i].value : i \in {j \in ActiveIds :
     \A n \in DOMAIN items : items[n].id = j => items[n].value # rows[j].value}}

StillNamed(items) == Locked /\ \E b \in Blueprints : named[b] \cap Disappearing(items) # {}

Becomes(t, tx) == txs' = [txs EXCEPT ![t] = tx]

\* The snapshot of the active entries, and what is decided on it.
Read(t, items) ==
  /\ txs[t].at = "idle" /\ TableFree
  /\ ItemIds(items) \subseteq ActiveIds /\ ~StillNamed(items)
  /\ Becomes(t, [Idle EXCEPT !.at = "delete", !.items = items, !.todo = ActiveIds \ ItemIds(items)])
  /\ UNCHANGED <<rows, named, writing>>

Takes(t, i, row) ==
  Becomes(t, [txs[t] EXCEPT !.own = [txs[t].own EXCEPT ![i] = row], !.todo = txs[t].todo \ {i}])

\* A row is locked, and re-read, one at a time.
DeleteRow(t, i) ==
  /\ txs[t].at = "delete" /\ i \in txs[t].todo /\ RowFree(t, i)
  /\ Takes(t, i, [rows[i] EXCEPT !.state = "deleted"])
  /\ UNCHANGED <<rows, named, writing>>

\* The next statement sees what has been committed by now.
StartClear(t) ==
  /\ txs[t].at = "delete" /\ txs[t].todo = {}
  /\ Becomes(t, [txs[t] EXCEPT !.at = "clear", !.todo = {i \in Ids : See(t, i).state = "active"}])
  /\ UNCHANGED <<rows, named, writing>>

\* Mutant: the flags are left for the items to overwrite.
LeaveRow(t, i) ==
  /\ txs[t].at = "clear" /\ i \in txs[t].todo /\ RowFree(t, i)
  /\ Takes(t, i, rows[i])
  /\ UNCHANGED <<rows, named, writing>>

ClearRow(t, i) ==
  /\ txs[t].at = "clear" /\ i \in txs[t].todo /\ RowFree(t, i)
  /\ Takes(t, i, IF rows[i].state = "active" THEN [rows[i] EXCEPT !.isDefault = FALSE] ELSE rows[i])
  /\ UNCHANGED <<rows, named, writing>>

Entry(t) ==
  LET n == txs[t].next
      item == txs[t].items[n] IN
  [state |-> "active", value |-> item.value, isDefault |-> item.isDefault, position |-> n - 1]

Puts(t) == txs[t].at = "clear" /\ txs[t].todo = {} /\ txs[t].next <= Len(txs[t].items)

Stores(t, i, row) ==
  /\ Storable(t, i, row)
  /\ Becomes(t, [txs[t] EXCEPT !.own = [txs[t].own EXCEPT ![i] = row], !.next = txs[t].next + 1])

\* An entry deleted since the snapshot is not updated, and nobody is told.
UpdateItem(t) ==
  LET i == txs[t].items[txs[t].next].id IN
  /\ Puts(t) /\ i # None /\ RowFree(t, i)
  /\ IF See(t, i).state = "active" THEN Stores(t, i, Entry(t))
     ELSE Becomes(t, [txs[t] EXCEPT !.next = txs[t].next + 1])
  /\ UNCHANGED <<rows, named, writing>>

InsertItem(t, i) ==
  /\ Puts(t) /\ txs[t].items[txs[t].next].id = None
  /\ \A s \in Requests : See(s, i).state = "unused"
  /\ Stores(t, i, Entry(t))
  /\ UNCHANGED <<rows, named, writing>>

Finished(t) == txs[t].at = "clear" /\ txs[t].todo = {} /\ txs[t].next > Len(txs[t].items)

Commit(t) ==
  /\ Finished(t)
  /\ rows' = [i \in Ids |-> See(t, i)]
  /\ Becomes(t, Idle)
  /\ UNCHANGED <<named, writing>>

\* A unique violation, a deadlock or a lost connection.
Abort(t) ==
  /\ txs[t].at # "idle"
  /\ Becomes(t, Idle)
  /\ UNCHANGED <<rows, named, writing>>

-----------------------------------------------------------------------------
(* Blueprints that name hierarchies *)

\* The write holds the lock from its check to its commit.
CheckHierarchies(b, names) ==
  /\ writing = None /\ TableFree
  /\ names \subseteq ActiveValues
  /\ writing' = [blueprint |-> b, names |-> names]
  /\ UNCHANGED <<rows, txs, named>>

StoreBlueprint ==
  /\ writing # None
  /\ named' = [named EXCEPT ![writing.blueprint] = writing.names]
  /\ writing' = None
  /\ UNCHANGED <<rows, txs>>

-----------------------------------------------------------------------------
Proceeds(t) ==
  \/ \E i \in Ids : DeleteRow(t, i) \/ ClearRow(t, i) \/ InsertItem(t, i)
  \/ StartClear(t)
  \/ UpdateItem(t)
  \/ Commit(t)
  \/ Abort(t)

Replaces(t) == Proceeds(t) \/ \E items \in Documents : Read(t, items)

Next ==
  \/ \E t \in Requests : Replaces(t)
  \/ \E b \in Blueprints, names \in SUBSET Values : CheckHierarchies(b, names)
  \/ StoreBlueprint

Spec == Init /\ [][Next]_vars

-----------------------------------------------------------------------------
(* Properties *)

\* A hierarchy value an active blueprint names is never removed or renamed under it.
HierarchiesStayKnown == \A b \in Blueprints : named[b] \subseteq ActiveValues

Image(r) == {[value |-> r[i].value, isDefault |-> r[i].isDefault, position |-> r[i].position] :
               i \in {j \in Ids : r[j].state = "active"}}

\* What a replace under the table lock answers 204 to is what it leaves stored.
StoresItsDocument ==
  \A t \in Requests : Commit(t)
    => Image(rows') = {[value |-> txs[t].items[n].value, isDefault |-> txs[t].items[n].isDefault,
                        position |-> n - 1] : n \in DOMAIN txs[t].items}

\* Moving the default flag never trips its unique index, as clearing first promises,
\* and a value trips its own only in the documented swap, where a later item is to
\* give it up, or when another replace has added it meanwhile.
OnlySwapsConflict ==
  \A t \in Requests : Puts(t) =>
    LET items == txs[t].items  n == txs[t].next IN
    \A j \in Ids \ {items[n].id} :
      txs[t].own[j] # None /\ Conflict(Entry(t), txs[t].own[j]) =>
        /\ ~txs[t].own[j].isDefault
        /\ \/ \E m \in n + 1 .. Len(items) : items[m].id = j
           \/ j \notin ItemIds(items) /\ rows[j].state = "active"

\* Blank namespaces resolve to "exactly one" entry of a document that has any.
ExactlyOneDefault == ActiveIds # {} => Cardinality({i \in ActiveIds : rows[i].isDefault}) = 1
=============================================================================
