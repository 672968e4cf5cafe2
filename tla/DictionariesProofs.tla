------------------------- MODULE DictionariesProofs -------------------------
(***************************************************************************)
(* Proofs for any number of entries, blueprints, replaces and blueprint    *)
(* writes.  A hierarchy an active blueprint names is never removed or      *)
(* renamed under it: the table lock leaves one writer at a time, and every *)
(* value named when a replace decided belongs to an entry that its         *)
(* document keeps under the same value, whichever of its rows it has       *)
(* rewritten so far.  The default flag never meets its unique index, and a *)
(* value only in a swap.  A replace that holds the lock stores its         *)
(* document whole: the rows it has yet to touch are those it has read.     *)
(***************************************************************************)
EXTENDS Dictionaries, SequenceTheorems, FiniteSetTheorems, TLAPS

\* The row that carries v through the replace t.
Carries(t, i, v) ==
  /\ rows[i].state = "active" /\ rows[i].value = v
  /\ txs[t].own[i] # None => txs[t].own[i].state = "active" /\ txs[t].own[i].value = v
  /\ txs[t].at = "delete" => i \notin txs[t].todo
  /\ \E n \in DOMAIN txs[t].items : txs[t].items[n].id = i /\ txs[t].items[n].value = v

Kept(t) ==
  txs[t].at # "idle" =>
    \A b \in Blueprints : \A v \in named[b] : \E i \in Ids : Carries(t, i, v)

\* One writer at a time.
Alone ==
  /\ writing # None => \A t \in Requests : txs[t].at = "idle"
  /\ \A s, t \in Requests : txs[s].at # "idle" /\ txs[t].at # "idle" => s = t

WritingKnown == writing # None => writing.names \subseteq ActiveValues

DictInv ==
  /\ TypeOK /\ Alone /\ HierarchiesStayKnown /\ WritingKnown
  /\ \A t \in Requests : Kept(t)

-----------------------------------------------------------------------------
(* Documents and rows *)

LEMMA DocumentFacts ==
  ASSUME NEW items \in Documents
  PROVE  /\ DOMAIN items = 1 .. Len(items) /\ Len(items) \in Nat /\ Len(items) <= MaxItems
         /\ \A n \in DOMAIN items : items[n] \in Items
         /\ \A m, n \in DOMAIN items : items[m].id = items[n].id /\ items[m].id # None => m = n
<1>1. PICK k \in 0 .. MaxItems : items \in [1 .. k -> Items]
  BY DEF Documents, Drafts
<1>2. k \in Nat
  BY <1>1, DictionariesAssumption
<1>3. Len(items) = k /\ DOMAIN items = 1 .. k
  BY <1>1, <1>2
<1>4. Valid(items)
  BY DEF Documents
<1>5. \A m, n \in DOMAIN items : m # n => (items[m].id = items[n].id => items[m].id = None)
  BY <1>4 DEF Valid
<1> QED
  BY <1>1, <1>2, <1>3, <1>5, DictionariesAssumption

LEMMA IdleType == Idle \in Txs /\ Idle.at = "idle"
<1>1. <<>> \in Documents
  <2>1. <<>> \in [1 .. 0 -> Items]
    OBVIOUS
  <2>2. <<>> \in Drafts
    BY <2>1, DictionariesAssumption DEF Drafts
  <2>3. {n \in DOMAIN <<>> : <<>>[n].isDefault} = {}
    OBVIOUS
  <2>4. Valid(<<>>)
    BY <2>3 DEF Valid
  <2> QED
    BY <2>2, <2>4 DEF Documents
<1>2. 1 \in 1 .. MaxItems + 1
  BY DictionariesAssumption
<1> QED
  BY <1>1, <1>2 DEF Idle, Txs

LEMMA EntryType ==
  ASSUME TypeOK, NEW t \in Requests, Puts(t)
  PROVE  /\ Entry(t) \in Rows /\ Entry(t).state = "active"
         /\ Entry(t).value = txs[t].items[txs[t].next].value
         /\ txs[t].next \in DOMAIN txs[t].items /\ txs[t].next + 1 \in 1 .. MaxItems + 1
         /\ txs[t].items[txs[t].next].id \in Ids \cup {None}
<1>1. txs[t].items \in Documents /\ txs[t].next \in 1 .. MaxItems + 1 /\ txs[t].next <= Len(txs[t].items)
  BY DEF TypeOK, Txs, Puts
<1>2. txs[t].next \in DOMAIN txs[t].items /\ txs[t].next <= MaxItems
  BY <1>1, DocumentFacts, DictionariesAssumption
<1>3. txs[t].items[txs[t].next] \in Items
  BY <1>1, <1>2, DocumentFacts
<1>4. txs[t].next - 1 \in 0 .. MaxItems - 1 /\ txs[t].next + 1 \in 1 .. MaxItems + 1
  BY <1>1, <1>2, DictionariesAssumption
<1> QED
  BY <1>2, <1>3, <1>4 DEF Entry, Rows, RowStates, Items

LEMMA BecomesFacts ==
  ASSUME TypeOK, NEW t \in Requests, NEW tx \in Txs, Becomes(t, tx)
  PROVE  /\ txs' \in [Requests -> Txs] /\ txs'[t] = tx
         /\ \A s \in Requests \ {t} : txs'[s] = txs[s]
  BY DEF TypeOK, Becomes

-----------------------------------------------------------------------------
(* Steps of a replace that leave the committed tables alone *)

LEMMA ReplaceSteps ==
  ASSUME DictInv, NEW t \in Requests, NEW tx \in Txs, Becomes(t, tx), tx.at # "idle", txs[t].at # "idle",
         UNCHANGED <<rows, named, writing>>,
         \A i \in Ids, v \in Values : Carries(t, i, v) =>
           /\ tx.own[i] # None => tx.own[i].state = "active" /\ tx.own[i].value = v
           /\ tx.at = "delete" => i \notin tx.todo
           /\ tx.items = txs[t].items
  PROVE  DictInv'
<1>1. /\ txs' \in [Requests -> Txs] /\ txs'[t] = tx
      /\ \A s \in Requests \ {t} : txs'[s] = txs[s]
  BY BecomesFacts DEF DictInv
<1>2. TypeOK' /\ HierarchiesStayKnown' /\ WritingKnown'
  BY <1>1 DEF DictInv, TypeOK, HierarchiesStayKnown, WritingKnown, ActiveValues, ActiveIds
<1>3. Alone'
  BY <1>1 DEF DictInv, Alone
<1>4. Kept(t)'
  <2>1. ASSUME NEW b \in Blueprints, NEW v \in named[b] PROVE \E i \in Ids : Carries(t, i, v)'
    <3>1. v \in Values
      BY DEF DictInv, TypeOK
    <3>2. PICK i \in Ids : Carries(t, i, v)
      BY DEF DictInv, Kept
    <3>3. Carries(t, i, v)'
      BY <1>1, <3>1, <3>2 DEF Carries
    <3> QED
      BY <3>3
  <2> QED
    BY <2>1 DEF Kept
<1>5. \A s \in Requests \ {t} : Kept(s)'
  BY <1>1 DEF DictInv, Alone, Kept
<1> QED
  BY <1>2, <1>3, <1>4, <1>5 DEF DictInv

LEMMA DeleteStep ==
  ASSUME DictInv, NEW t \in Requests, NEW i \in Ids, DeleteRow(t, i)
  PROVE  DictInv'
<1> DEFINE row == [rows[i] EXCEPT !.state = "deleted"]
           tx == [txs[t] EXCEPT !.own = [txs[t].own EXCEPT ![i] = row], !.todo = txs[t].todo \ {i}]
<1>1. row \in Rows
  BY DEF DictInv, TypeOK, Rows, RowStates
<1>2. txs[t] \in Txs
  BY DEF DictInv, TypeOK
<1>3. tx \in Txs /\ tx.at = txs[t].at /\ tx.items = txs[t].items /\ tx.todo \subseteq txs[t].todo
      /\ \A j \in Ids \ {i} : tx.own[j] = txs[t].own[j]
  BY <1>1, <1>2 DEF Txs
<1>4. Becomes(t, tx) /\ txs[t].at = "delete" /\ i \in txs[t].todo /\ UNCHANGED <<rows, named, writing>>
  BY DEF DeleteRow, Takes
<1>5. \A j \in Ids, v \in Values : Carries(t, j, v) =>
        /\ tx.own[j] # None => tx.own[j].state = "active" /\ tx.own[j].value = v
        /\ tx.at = "delete" => j \notin tx.todo
        /\ tx.items = txs[t].items
  BY <1>3, <1>4 DEF Carries
<1> HIDE DEF tx
<1> QED
  BY <1>3, <1>4, <1>5, ReplaceSteps

LEMMA StartClearStep ==
  ASSUME DictInv, NEW t \in Requests, StartClear(t)
  PROVE  DictInv'
<1> DEFINE tx == [txs[t] EXCEPT !.at = "clear", !.todo = {i \in Ids : See(t, i).state = "active"}]
<1>1. txs[t] \in Txs
  BY DEF DictInv, TypeOK
<1>2. tx \in Txs /\ tx.at = "clear" /\ tx.items = txs[t].items /\ tx.own = txs[t].own
  BY <1>1 DEF Txs
<1>3. Becomes(t, tx) /\ txs[t].at = "delete" /\ UNCHANGED <<rows, named, writing>>
  BY DEF StartClear
<1>4. \A j \in Ids, v \in Values : Carries(t, j, v) =>
        /\ tx.own[j] # None => tx.own[j].state = "active" /\ tx.own[j].value = v
        /\ tx.at = "delete" => j \notin tx.todo
        /\ tx.items = txs[t].items
  BY <1>2 DEF Carries
<1> HIDE DEF tx
<1> QED
  BY <1>2, <1>3, <1>4, ReplaceSteps

LEMMA ClearStep ==
  ASSUME DictInv, NEW t \in Requests, NEW i \in Ids, ClearRow(t, i)
  PROVE  DictInv'
<1> DEFINE row == IF rows[i].state = "active" THEN [rows[i] EXCEPT !.isDefault = FALSE] ELSE rows[i]
           tx == [txs[t] EXCEPT !.own = [txs[t].own EXCEPT ![i] = row], !.todo = txs[t].todo \ {i}]
<1>1. row \in Rows /\ row.state = rows[i].state /\ row.value = rows[i].value
  BY DEF DictInv, TypeOK, Rows
<1>2. txs[t] \in Txs
  BY DEF DictInv, TypeOK
<1> HIDE DEF row
<1>3. tx \in Txs /\ tx.at = txs[t].at /\ tx.items = txs[t].items /\ tx.own[i] = row
      /\ \A j \in Ids \ {i} : tx.own[j] = txs[t].own[j]
  BY <1>1, <1>2 DEF Txs
<1>4. Becomes(t, tx) /\ txs[t].at = "clear" /\ UNCHANGED <<rows, named, writing>>
  BY DEF ClearRow, Takes, row
<1>5. \A j \in Ids, v \in Values : Carries(t, j, v) =>
        /\ tx.own[j] # None => tx.own[j].state = "active" /\ tx.own[j].value = v
        /\ tx.at = "delete" => j \notin tx.todo
        /\ tx.items = txs[t].items
  BY <1>1, <1>3, <1>4 DEF Carries
<1> HIDE DEF tx
<1> QED
  BY <1>3, <1>4, <1>5, ReplaceSteps

\* An item rewrites the row that carries a value only under that value: no two
\* items of a document have one id.
LEMMA StoresStep ==
  ASSUME DictInv, NEW t \in Requests, NEW i \in Ids, Puts(t), Stores(t, i, Entry(t)),
         UNCHANGED <<rows, named, writing>>,
         \/ txs[t].items[txs[t].next].id = i
         \/ See(t, i).state = "unused"
  PROVE  DictInv'
<1> DEFINE row == Entry(t)
           tx == [txs[t] EXCEPT !.own = [txs[t].own EXCEPT ![i] = row], !.next = txs[t].next + 1]
<1>1. /\ row \in Rows /\ row.state = "active" /\ row.value = txs[t].items[txs[t].next].value
      /\ txs[t].next \in DOMAIN txs[t].items /\ txs[t].next + 1 \in 1 .. MaxItems + 1
  BY EntryType DEF DictInv
<1>2. txs[t] \in Txs
  BY DEF DictInv, TypeOK
<1> HIDE DEF row
<1>3. tx \in Txs /\ tx.at = txs[t].at /\ tx.items = txs[t].items /\ tx.own[i] = row
      /\ \A j \in Ids \ {i} : tx.own[j] = txs[t].own[j]
  BY <1>1, <1>2 DEF Txs
<1>4. Becomes(t, tx) /\ txs[t].at = "clear"
  BY DEF Stores, Puts, row
<1>5. ASSUME NEW v \in Values, Carries(t, i, v) PROVE row.state = "active" /\ row.value = v
  <2>1. See(t, i).state = "active"
    BY <1>5 DEF Carries, See
  <2>2. txs[t].items[txs[t].next].id = i
    BY <2>1
  <2>3. PICK n \in DOMAIN txs[t].items : txs[t].items[n].id = i /\ txs[t].items[n].value = v
    BY <1>5 DEF Carries
  <2>4. n = txs[t].next
    BY <1>1, <1>2, <2>2, <2>3, DocumentFacts, DictionariesAssumption DEF Txs
  <2> QED
    BY <1>1, <2>3, <2>4
<1>6. \A j \in Ids, v \in Values : Carries(t, j, v) =>
        /\ tx.own[j] # None => tx.own[j].state = "active" /\ tx.own[j].value = v
        /\ tx.at = "delete" => j \notin tx.todo
        /\ tx.items = txs[t].items
  BY <1>3, <1>4, <1>5 DEF Carries
<1> HIDE DEF tx
<1> QED
  BY <1>3, <1>4, <1>6, ReplaceSteps

LEMMA UpdateStep ==
  ASSUME DictInv, NEW t \in Requests, UpdateItem(t)
  PROVE  DictInv'
<1> DEFINE i == txs[t].items[txs[t].next].id
<1>1. Puts(t) /\ i # None /\ UNCHANGED <<rows, named, writing>>
  BY DEF UpdateItem
<1>2. i \in Ids
  BY <1>1, EntryType DEF DictInv
<1>3. CASE Stores(t, i, Entry(t))
  BY <1>1, <1>2, <1>3, StoresStep
<1>4. CASE Becomes(t, [txs[t] EXCEPT !.next = txs[t].next + 1])
  <2> DEFINE tx == [txs[t] EXCEPT !.next = txs[t].next + 1]
  <2>1. txs[t] \in Txs /\ txs[t].next + 1 \in 1 .. MaxItems + 1
    BY <1>1, EntryType DEF DictInv, TypeOK
  <2>2. tx \in Txs /\ tx.at = txs[t].at /\ tx.items = txs[t].items /\ tx.own = txs[t].own
    BY <2>1 DEF Txs
  <2>3. txs[t].at = "clear"
    BY <1>1 DEF Puts
  <2>4. \A j \in Ids, v \in Values : Carries(t, j, v) =>
          /\ tx.own[j] # None => tx.own[j].state = "active" /\ tx.own[j].value = v
          /\ tx.at = "delete" => j \notin tx.todo
          /\ tx.items = txs[t].items
    BY <2>2, <2>3 DEF Carries
  <2>5. Becomes(t, tx)
    BY <1>4
  <2> HIDE DEF tx
  <2> QED
    BY <1>1, <2>2, <2>3, <2>4, <2>5, ReplaceSteps
<1> QED
  BY <1>3, <1>4 DEF UpdateItem

LEMMA InsertStep ==
  ASSUME DictInv, NEW t \in Requests, NEW i \in Ids, InsertItem(t, i)
  PROVE  DictInv'
<1>1. /\ Puts(t) /\ Stores(t, i, Entry(t)) /\ UNCHANGED <<rows, named, writing>>
      /\ See(t, i).state = "unused"
  BY DEF InsertItem
<1> QED
  BY <1>1, StoresStep

-----------------------------------------------------------------------------
(* The first and the last step of a replace *)

LEMMA ReadStep ==
  ASSUME DictInv, Locked, NEW t \in Requests, NEW items \in Documents, Read(t, items)
  PROVE  DictInv'
<1> DEFINE tx == [Idle EXCEPT !.at = "delete", !.items = items, !.todo = ActiveIds \ ItemIds(items)]
<1>1. /\ tx \in Txs /\ tx.at = "delete" /\ tx.items = items /\ tx.todo = ActiveIds \ ItemIds(items)
      /\ \A i \in Ids : tx.own[i] = None
  BY IdleType DEF Txs, Idle, ActiveIds
<1>2. /\ Becomes(t, tx) /\ UNCHANGED <<rows, named, writing>>
      /\ writing = None /\ (\A s \in Requests : txs[s].at = "idle") /\ ~StillNamed(items)
  BY DEF Read, TableFree
<1> HIDE DEF tx
<1>3. /\ txs' \in [Requests -> Txs] /\ txs'[t] = tx
      /\ \A s \in Requests \ {t} : txs'[s] = txs[s]
  BY <1>1, <1>2, BecomesFacts DEF DictInv
<1>4. TypeOK' /\ HierarchiesStayKnown' /\ WritingKnown'
  BY <1>2, <1>3 DEF DictInv, TypeOK, HierarchiesStayKnown, WritingKnown, ActiveValues, ActiveIds
<1>5. Alone'
  BY <1>2, <1>3 DEF Alone
<1>6. Kept(t)'
  <2>1. ASSUME NEW b \in Blueprints, NEW v \in named[b] PROVE \E i \in Ids : Carries(t, i, v)'
    <3>1. v \in ActiveValues /\ v \notin Disappearing(items)
      BY <1>2 DEF DictInv, HierarchiesStayKnown, StillNamed
    <3>2. PICK i \in ActiveIds : rows[i].value = v
      BY <3>1 DEF ActiveValues
    <3>3. PICK n \in DOMAIN items : items[n].id = i /\ items[n].value = v
      BY <3>1, <3>2 DEF Disappearing
    <3>4. i \in Ids /\ rows[i].state = "active" /\ i \in ItemIds(items)
      BY <3>2, <3>3, DictionariesAssumption DEF ActiveIds, ItemIds
    <3>5. Carries(t, i, v)'
      BY <1>1, <1>2, <1>3, <3>2, <3>3, <3>4 DEF Carries
    <3> QED
      BY <3>4, <3>5
  <2> QED
    BY <1>2, <2>1 DEF Kept
<1>7. \A s \in Requests \ {t} : Kept(s)'
  BY <1>2, <1>3 DEF Kept
<1> QED
  BY <1>4, <1>5, <1>6, <1>7 DEF DictInv

LEMMA EndStep ==
  ASSUME DictInv, NEW t \in Requests, Commit(t) \/ Abort(t)
  PROVE  DictInv'
<1>1. Becomes(t, Idle) /\ UNCHANGED <<named, writing>> /\ txs[t].at # "idle"
  BY DEF Commit, Abort, Finished
<1>2. /\ txs' \in [Requests -> Txs] /\ txs'[t].at = "idle"
      /\ \A s \in Requests \ {t} : txs'[s] = txs[s]
  BY <1>1, IdleType, BecomesFacts DEF DictInv
<1>3. \A s \in Requests : txs'[s].at = "idle"
  BY <1>1, <1>2 DEF DictInv, Alone
<1>4. writing = None
  BY <1>1 DEF DictInv, Alone
<1>5. rows' \in [Ids -> Rows]
  <2>1. CASE Commit(t)
    <3>1. \A i \in Ids : See(t, i) \in Rows
      BY DEF See, DictInv, TypeOK, Txs
    <3> QED
      BY <2>1, <3>1 DEF Commit
  <2>2. CASE Abort(t)
    BY <2>2 DEF Abort, DictInv, TypeOK
  <2> QED
    BY <2>1, <2>2
<1>6. HierarchiesStayKnown'
  <2>1. CASE Commit(t)
    <3>1. ASSUME NEW b \in Blueprints, NEW v \in named[b] PROVE v \in ActiveValues'
      <4>1. PICK i \in Ids : Carries(t, i, v)
        BY <1>1 DEF DictInv, Kept
      <4>2. rows'[i].state = "active" /\ rows'[i].value = v
        BY <2>1, <4>1 DEF Commit, Carries, See
      <4> QED
        BY <4>2 DEF ActiveValues, ActiveIds
    <3> QED
      BY <1>1, <3>1 DEF HierarchiesStayKnown
  <2>2. CASE Abort(t)
    BY <1>1, <2>2 DEF Abort, DictInv, HierarchiesStayKnown, ActiveValues, ActiveIds
  <2> QED
    BY <2>1, <2>2
<1> QED
  BY <1>1, <1>2, <1>3, <1>4, <1>5, <1>6 DEF DictInv, TypeOK, Alone, WritingKnown, Kept

LEMMA BlueprintStep ==
  ASSUME DictInv, Locked,
         StoreBlueprint \/ \E b \in Blueprints, names \in SUBSET Values : CheckHierarchies(b, names)
  PROVE  DictInv'
<1>1. rows' = rows /\ txs' = txs /\ \A t \in Requests : txs[t].at = "idle"
  BY DEF DictInv, Alone, StoreBlueprint, CheckHierarchies, TableFree
<1>2. CASE StoreBlueprint
  <2>1. writing \in [blueprint : Blueprints, names : SUBSET Values] /\ writing.names \subseteq ActiveValues
    BY <1>2 DEF StoreBlueprint, DictInv, TypeOK, WritingKnown
  <2> QED
    BY <1>1, <1>2, <2>1 DEF StoreBlueprint, DictInv, TypeOK, Alone, HierarchiesStayKnown, WritingKnown,
                           Kept, ActiveValues, ActiveIds
<1>3. CASE \E b \in Blueprints, names \in SUBSET Values : CheckHierarchies(b, names)
  <2>1. PICK b \in Blueprints, names \in SUBSET Values : CheckHierarchies(b, names)
    BY <1>3
  <2>2. named' = named /\ writing' = [blueprint |-> b, names |-> names] /\ names \subseteq ActiveValues
    BY <2>1 DEF CheckHierarchies
  <2> QED
    BY <1>1, <2>2 DEF DictInv, TypeOK, Alone, HierarchiesStayKnown, WritingKnown,
                      Kept, ActiveValues, ActiveIds
<1> QED
  BY <1>2, <1>3

-----------------------------------------------------------------------------
LEMMA InvInit == Init => DictInv
<1> SUFFICES ASSUME Init PROVE DictInv
  OBVIOUS
<1>1. rows \in [Ids -> Rows]
  <2>1. NoRow \in Rows
    BY DictionariesAssumption DEF NoRow, Rows, RowStates
  <2>2. \A v \in Values, d \in BOOLEAN, p \in 0 .. MaxItems - 1 :
          [state |-> "active", value |-> v, isDefault |-> d, position |-> p] \in Rows
    BY DEF Rows, RowStates
  <2> QED
    BY <2>1, <2>2 DEF Init
<1> QED
  BY <1>1, IdleType DEF Init, DictInv, TypeOK, Alone, HierarchiesStayKnown, WritingKnown, Kept

LEMMA InvStep == Locked /\ DictInv /\ [Next]_vars => DictInv'
<1>1. ASSUME Locked, DictInv, Next PROVE DictInv'
  BY <1>1, ReadStep, DeleteStep, StartClearStep, ClearStep, UpdateStep, InsertStep, EndStep, BlueprintStep
     DEF Next, Replaces, Proceeds
<1>2. ASSUME DictInv, UNCHANGED vars PROVE DictInv'
  BY <1>2 DEF vars, DictInv, TypeOK, Alone, HierarchiesStayKnown, WritingKnown, ActiveValues, ActiveIds,
              Kept, Carries
<1> QED
  BY <1>1, <1>2

\* Under the table lock, a hierarchy an active blueprint names is never removed or
\* renamed under it.
THEOREM HierarchiesKnown == ASSUME Locked PROVE Spec => []HierarchiesStayKnown
<1>1. DictInv /\ [Next]_vars => DictInv'
  BY InvStep
<1>2. DictInv => HierarchiesStayKnown
  BY DEF DictInv
<1> QED
  BY InvInit, <1>1, <1>2, PTL DEF Spec

-----------------------------------------------------------------------------
(* Only swaps conflict, with the table lock or without it: a row that a replace has *)
(* in hand belongs to nobody else, and is one of its document's entries already     *)
(* written, or a committed row whose flag it has cleared and which no item written  *)
(* so far was to replace.                                                           *)

OwnsAlone ==
  \A s, t \in Requests : s # t => \A i \in Ids : txs[s].own[i] = None \/ txs[t].own[i] = None

\* An earlier item of the document wrote this row.
Written(tx, i) ==
  \E m \in 1 .. tx.next - 1 :
    tx.own[i].value = tx.items[m].value /\ tx.own[i].isDefault = tx.items[m].isDefault

\* No item has come to this row yet; its flag is cleared.
Cleared(tx, i) ==
  /\ ~tx.own[i].isDefault /\ rows[i].state = "active"
  /\ \A m \in 1 .. tx.next - 1 : tx.items[m].id # i

Orderly(tx) ==
  /\ \A i \in Ids : tx.own[i] # None => tx.own[i].state # "unused"
  /\ tx.at # "idle" => \A i \in tx.todo : rows[i].state # "unused"
  /\ tx.at = "idle" => \A i \in Ids : tx.own[i] = None
  /\ tx.at = "delete" => tx.next = 1 /\ \A i \in Ids : tx.own[i] # None => tx.own[i].state = "deleted"
  /\ tx.at = "clear" =>
       /\ tx.todo = {} \/ tx.next = 1
       /\ \A i \in Ids : tx.own[i] # None /\ tx.own[i].state = "active" => Written(tx, i) \/ Cleared(tx, i)

OwnInv == TypeOK /\ OwnsAlone /\ \A t \in Requests : Orderly(txs[t])

\* A step of t that leaves the committed tables alone, takes free rows only, and stays orderly.
LEMMA OwnStep ==
  ASSUME OwnInv, NEW t \in Requests, NEW tx \in Txs, Becomes(t, tx), UNCHANGED <<rows, named, writing>>,
         Orderly(tx),
         \A i \in Ids : tx.own[i] # None => txs[t].own[i] # None \/ RowFree(t, i)
  PROVE  OwnInv'
<1>1. /\ txs' \in [Requests -> Txs] /\ txs'[t] = tx
      /\ \A s \in Requests \ {t} : txs'[s] = txs[s]
  BY BecomesFacts DEF OwnInv
<1>2. TypeOK'
  BY <1>1 DEF OwnInv, TypeOK
<1>3. \A s \in Requests : Orderly(txs[s])'
  BY <1>1 DEF OwnInv, Orderly, Written, Cleared
<1>4. ASSUME NEW s \in Requests \ {t}, NEW i \in Ids PROVE txs[s].own[i] = None \/ tx.own[i] = None
  BY <1>4 DEF OwnInv, OwnsAlone, RowFree
<1>5. OwnsAlone'
  <2> SUFFICES ASSUME NEW r \in Requests, NEW s \in Requests, r # s, NEW i \in Ids
               PROVE  txs'[r].own[i] = None \/ txs'[s].own[i] = None
    BY DEF OwnsAlone
  <2>1. CASE r = t
    BY <1>1, <1>4, <2>1
  <2>2. CASE s = t
    BY <1>1, <1>4, <2>2
  <2>3. CASE r # t /\ s # t
    BY <1>1, <2>3 DEF OwnInv, OwnsAlone
  <2> QED
    BY <2>1, <2>2, <2>3
<1> QED
  BY <1>2, <1>3, <1>5 DEF OwnInv

LEMMA OwnRead ==
  ASSUME OwnInv, NEW t \in Requests, NEW items \in Documents, Read(t, items)
  PROVE  OwnInv'
<1> DEFINE tx == [Idle EXCEPT !.at = "delete", !.items = items, !.todo = ActiveIds \ ItemIds(items)]
<1>1. /\ tx \in Txs /\ tx.at = "delete" /\ tx.next = 1 /\ tx.todo \subseteq ActiveIds
      /\ \A i \in Ids : tx.own[i] = None
  BY IdleType DEF Txs, Idle, ActiveIds
<1>2. Becomes(t, tx) /\ UNCHANGED <<rows, named, writing>>
  BY DEF Read
<1> HIDE DEF tx
<1>3. Orderly(tx)
  BY <1>1 DEF Orderly, ActiveIds
<1> QED
  BY <1>1, <1>2, <1>3, OwnStep

LEMMA OwnDelete ==
  ASSUME OwnInv, NEW t \in Requests, NEW i \in Ids, DeleteRow(t, i)
  PROVE  OwnInv'
<1> DEFINE row == [rows[i] EXCEPT !.state = "deleted"]
           tx == [txs[t] EXCEPT !.own = [txs[t].own EXCEPT ![i] = row], !.todo = txs[t].todo \ {i}]
<1>1. row \in Rows /\ row.state = "deleted"
  BY DEF OwnInv, TypeOK, Rows, RowStates
<1>2. txs[t] \in Txs /\ Orderly(txs[t])
  BY DEF OwnInv, TypeOK
<1>3. Becomes(t, tx) /\ txs[t].at = "delete" /\ RowFree(t, i) /\ UNCHANGED <<rows, named, writing>>
  BY DEF DeleteRow, Takes
<1> HIDE DEF row
<1>4. /\ tx \in Txs /\ tx.at = "delete" /\ tx.next = txs[t].next /\ tx.todo \subseteq txs[t].todo
      /\ tx.own[i] = row /\ \A j \in Ids \ {i} : tx.own[j] = txs[t].own[j]
  BY <1>1, <1>2, <1>3 DEF Txs
<1> HIDE DEF tx
<1>5. Orderly(tx)
  BY <1>1, <1>2, <1>3, <1>4 DEF Orderly
<1> QED
  BY <1>3, <1>4, <1>5, OwnStep

LEMMA OwnStartClear ==
  ASSUME OwnInv, NEW t \in Requests, StartClear(t)
  PROVE  OwnInv'
<1> DEFINE seen == {i \in Ids : See(t, i).state = "active"}
           tx == [txs[t] EXCEPT !.at = "clear", !.todo = seen]
<1>1. txs[t] \in Txs /\ Orderly(txs[t]) /\ txs[t].at = "delete"
  BY DEF OwnInv, TypeOK, StartClear
<1>2. Becomes(t, tx) /\ UNCHANGED <<rows, named, writing>>
  BY DEF StartClear
<1>3. \A i \in seen : rows[i].state # "unused"
  BY <1>1 DEF See, Orderly
<1> HIDE DEF seen
<1>4. seen \subseteq Ids
  BY DEF seen
<1>5. tx \in Txs /\ tx.at = "clear" /\ tx.next = txs[t].next /\ tx.todo = seen /\ tx.own = txs[t].own
  BY <1>1, <1>4 DEF Txs
<1> HIDE DEF tx
<1>6. Orderly(tx)
  BY <1>1, <1>3, <1>5 DEF Orderly
<1> QED
  BY <1>2, <1>5, <1>6, OwnStep

LEMMA OwnClear ==
  ASSUME OwnInv, NEW t \in Requests, NEW i \in Ids, ClearRow(t, i)
  PROVE  OwnInv'
<1> DEFINE row == IF rows[i].state = "active" THEN [rows[i] EXCEPT !.isDefault = FALSE] ELSE rows[i]
           tx == [txs[t] EXCEPT !.own = [txs[t].own EXCEPT ![i] = row], !.todo = txs[t].todo \ {i}]
<1>1. /\ row \in Rows /\ row.state = rows[i].state
      /\ row.state = "active" => ~row.isDefault
  BY DEF OwnInv, TypeOK, Rows
<1>2. txs[t] \in Txs /\ Orderly(txs[t]) /\ txs[t].at = "clear" /\ i \in txs[t].todo
  BY DEF OwnInv, TypeOK, ClearRow
<1>3. Becomes(t, tx) /\ RowFree(t, i) /\ UNCHANGED <<rows, named, writing>>
  BY DEF ClearRow, Takes
<1> HIDE DEF row
<1>4. /\ tx \in Txs /\ tx.at = "clear" /\ tx.next = txs[t].next /\ tx.todo = txs[t].todo \ {i}
      /\ tx.items = txs[t].items
      /\ tx.own[i] = row /\ \A j \in Ids \ {i} : tx.own[j] = txs[t].own[j]
  BY <1>1, <1>2 DEF Txs
<1>5. rows[i].state # "unused" /\ txs[t].next = 1
  BY <1>2 DEF Orderly
<1> HIDE DEF tx
<1>6. \A j \in Ids \ {i} : Written(txs[t], j) \/ Cleared(txs[t], j) => Written(tx, j) \/ Cleared(tx, j)
  BY <1>4 DEF Written, Cleared
<1>7. row.state = "active" => Cleared(tx, i)
  BY <1>1, <1>4, <1>5 DEF Cleared
<1>8. Orderly(tx)
  BY <1>1, <1>2, <1>4, <1>5, <1>6, <1>7 DEF Orderly
<1> QED
  BY <1>3, <1>4, <1>8, OwnStep

\* Whatever the item, the rows cleared before stay so unless it names them.
LEMMA NextItem ==
  ASSUME OwnInv, NEW t \in Requests, Puts(t), NEW i \in Ids, NEW tx \in Txs,
         tx.at = "clear", tx.next = txs[t].next + 1, tx.todo = {}, tx.items = txs[t].items,
         tx.own[i] # None => tx.own[i].state # "unused" /\ (tx.own[i].state = "active" => Written(tx, i)),
         \A j \in Ids \ {i} : tx.own[j] = txs[t].own[j] /\ txs[t].items[txs[t].next].id # j
  PROVE  Orderly(tx)
<1>1. txs[t] \in Txs /\ Orderly(txs[t]) /\ txs[t].at = "clear" /\ txs[t].next \in Nat \ {0}
  BY DictionariesAssumption DEF OwnInv, TypeOK, Puts, Txs
<1>2. ASSUME NEW j \in Ids \ {i}, tx.own[j] # None, tx.own[j].state = "active"
      PROVE  Written(tx, j) \/ Cleared(tx, j)
  <2>1. txs[t].own[j] = tx.own[j] /\ txs[t].items[txs[t].next].id # j
    BY <1>2
  <2>2. CASE Written(txs[t], j)
    BY <1>1, <2>1, <2>2 DEF Written
  <2>3. CASE Cleared(txs[t], j)
    <3>1. \A m \in 1 .. tx.next - 1 : m \in 1 .. txs[t].next - 1 \/ m = txs[t].next
      BY <1>1
    <3> QED
      BY <2>1, <2>3, <3>1 DEF Cleared
  <2> QED
    BY <1>1, <1>2, <2>1, <2>2, <2>3 DEF Orderly
<1>3. \A j \in Ids : tx.own[j] # None => tx.own[j].state # "unused"
  BY <1>1 DEF Orderly
<1> QED
  BY <1>2, <1>3 DEF Orderly

LEMMA OwnStores ==
  ASSUME OwnInv, NEW t \in Requests, NEW i \in Ids, Puts(t), Stores(t, i, Entry(t)),
         UNCHANGED <<rows, named, writing>>, RowFree(t, i),
         txs[t].items[txs[t].next].id \in {i, None}
  PROVE  OwnInv'
<1> DEFINE row == Entry(t)
           tx == [txs[t] EXCEPT !.own = [txs[t].own EXCEPT ![i] = row], !.next = txs[t].next + 1]
<1>1. /\ row \in Rows /\ row.state = "active"
      /\ txs[t].next \in DOMAIN txs[t].items /\ txs[t].next + 1 \in 1 .. MaxItems + 1
  BY EntryType DEF OwnInv
<1>2. row.value = txs[t].items[txs[t].next].value /\ row.isDefault = txs[t].items[txs[t].next].isDefault
  BY DEF Entry
<1>3. txs[t] \in Txs /\ txs[t].at = "clear" /\ txs[t].todo = {} /\ txs[t].next \in Nat \ {0}
  BY DictionariesAssumption DEF OwnInv, TypeOK, Puts, Txs
<1>4. Becomes(t, tx)
  BY DEF Stores
<1> HIDE DEF row
<1>5. /\ tx \in Txs /\ tx.at = "clear" /\ tx.next = txs[t].next + 1 /\ tx.todo = {}
      /\ tx.items = txs[t].items
      /\ tx.own[i] = row /\ \A j \in Ids \ {i} : tx.own[j] = txs[t].own[j]
  BY <1>1, <1>3 DEF Txs
<1> HIDE DEF tx
<1>6. Written(tx, i)
  <2>1. txs[t].next \in 1 .. tx.next - 1
    BY <1>3, <1>5
  <2> QED
    BY <1>2, <1>5, <2>1 DEF Written
<1>7. \A j \in Ids \ {i} : txs[t].items[txs[t].next].id # j
  BY DictionariesAssumption
<1>8. Orderly(tx)
  BY <1>1, <1>5, <1>6, <1>7, NextItem
<1> QED
  BY <1>4, <1>5, <1>8, OwnStep

LEMMA OwnUpdate ==
  ASSUME OwnInv, NEW t \in Requests, UpdateItem(t)
  PROVE  OwnInv'
<1> DEFINE i == txs[t].items[txs[t].next].id
<1>1. Puts(t) /\ i # None /\ RowFree(t, i) /\ UNCHANGED <<rows, named, writing>>
  BY DEF UpdateItem
<1>2. i \in Ids
  BY <1>1, EntryType DEF OwnInv
<1>3. CASE See(t, i).state = "active"
  <2>1. Stores(t, i, Entry(t))
    BY <1>3 DEF UpdateItem
  <2> QED
    BY <1>1, <1>2, <2>1, OwnStores
<1>4. CASE See(t, i).state # "active"
  <2> DEFINE tx == [txs[t] EXCEPT !.next = txs[t].next + 1]
  <2>1. txs[t] \in Txs /\ txs[t].next + 1 \in 1 .. MaxItems + 1 /\ Orderly(txs[t])
    BY <1>1, EntryType DEF OwnInv, TypeOK
  <2>2. Becomes(t, tx)
    BY <1>4 DEF UpdateItem
  <2>3. txs[t].at = "clear" /\ txs[t].todo = {}
    BY <1>1 DEF Puts
  <2>4. /\ tx \in Txs /\ tx.at = "clear" /\ tx.next = txs[t].next + 1 /\ tx.todo = {}
        /\ tx.items = txs[t].items /\ tx.own = txs[t].own
    BY <2>1, <2>3 DEF Txs
  <2> HIDE DEF tx
  <2>5. txs[t].own[i] # None => txs[t].own[i].state \notin {"active", "unused"}
    BY <1>2, <1>4, <2>1 DEF See, Orderly
  <2>6. Orderly(tx)
    BY <1>1, <1>2, <2>4, <2>5, NextItem
  <2> QED
    BY <1>1, <2>2, <2>4, <2>6, OwnStep
<1> QED
  BY <1>3, <1>4

LEMMA OwnInsert ==
  ASSUME OwnInv, NEW t \in Requests, NEW i \in Ids, InsertItem(t, i)
  PROVE  OwnInv'
<1>1. /\ Puts(t) /\ Stores(t, i, Entry(t)) /\ UNCHANGED <<rows, named, writing>>
      /\ txs[t].items[txs[t].next].id = None
      /\ \A s \in Requests : See(s, i).state = "unused"
  BY DEF InsertItem
<1>2. RowFree(t, i)
  BY <1>1 DEF RowFree, See, OwnInv, Orderly
<1> QED
  BY <1>1, <1>2, OwnStores

\* A commit changes the rows its transaction had in hand, and nobody else had those.
LEMMA OwnEnd ==
  ASSUME OwnInv, NEW t \in Requests, Commit(t) \/ Abort(t)
  PROVE  OwnInv'
<1>1. Becomes(t, Idle) /\ UNCHANGED <<named, writing>>
  BY DEF Commit, Abort
<1>2. /\ txs' \in [Requests -> Txs] /\ txs'[t] = Idle
      /\ \A s \in Requests \ {t} : txs'[s] = txs[s]
  BY <1>1, IdleType, BecomesFacts DEF OwnInv
<1>3. rows' \in [Ids -> Rows] /\ \A i \in Ids : rows'[i] = rows[i] \/ (txs[t].own[i] # None /\ rows'[i] = txs[t].own[i])
  <2>1. CASE Commit(t)
    <3>1. \A i \in Ids : See(t, i) \in Rows
      BY DEF See, OwnInv, TypeOK, Txs
    <3> QED
      BY <2>1, <3>1 DEF Commit, See
  <2>2. CASE Abort(t)
    BY <2>2 DEF Abort, OwnInv, TypeOK
  <2> QED
    BY <2>1, <2>2
<1>4. TypeOK'
  BY <1>1, <1>2, <1>3 DEF OwnInv, TypeOK
<1>5. \A i \in Ids : Idle.own[i] = None
  BY DEF Idle
<1>6. OwnsAlone'
  BY <1>2, <1>5 DEF OwnInv, OwnsAlone
<1>7. \A i \in Ids : rows[i].state # "unused" => rows'[i].state # "unused"
  BY <1>3 DEF OwnInv, Orderly
<1>8. ASSUME NEW s \in Requests \ {t} PROVE Orderly(txs[s])'
  <2>1. Orderly(txs[s]) /\ txs'[s] = txs[s] /\ txs[s] \in Txs
    BY <1>2 DEF OwnInv, TypeOK
  <2>2. \A i \in Ids : txs[s].own[i] # None => rows'[i] = rows[i]
    BY <1>3 DEF OwnInv, OwnsAlone
  <2>3. txs[s].at # "idle" => \A i \in txs[s].todo : rows'[i].state # "unused"
    BY <1>7, <2>1 DEF Orderly, Txs
  <2>4. \A i \in Ids : txs[s].own[i] # None /\ Cleared(txs[s], i) => Cleared(txs[s], i)'
    BY <2>1, <2>2 DEF Cleared
  <2>5. \A i \in Ids : Written(txs[s], i) => Written(txs[s], i)'
    BY <2>1 DEF Written
  <2> QED
    BY <2>1, <2>3, <2>4, <2>5 DEF Orderly
<1>9. Orderly(txs[t])'
  BY <1>2, <1>5, IdleType DEF Orderly
<1> QED
  BY <1>4, <1>6, <1>8, <1>9 DEF OwnInv

LEMMA OwnInvStep == OwnInv /\ [Next]_vars => OwnInv'
<1>1. ASSUME OwnInv, NEW t \in Requests, Replaces(t) PROVE OwnInv'
  BY <1>1, OwnRead, OwnDelete, OwnStartClear, OwnClear, OwnUpdate, OwnInsert, OwnEnd DEF Replaces, Proceeds
<1>2. ASSUME OwnInv, StoreBlueprint \/ \E b \in Blueprints, names \in SUBSET Values : CheckHierarchies(b, names)
      PROVE  OwnInv'
  <2>1. UNCHANGED <<rows, txs>> /\ named' \in [Blueprints -> SUBSET Values]
        /\ writing' \in {None} \cup [blueprint : Blueprints, names : SUBSET Values]
    BY <1>2 DEF StoreBlueprint, CheckHierarchies, OwnInv, TypeOK
  <2> QED
    BY <1>2, <2>1 DEF OwnInv, TypeOK, OwnsAlone, Orderly, Written, Cleared
<1>3. ASSUME OwnInv, UNCHANGED vars PROVE OwnInv'
  BY <1>3 DEF vars, OwnInv, TypeOK, OwnsAlone, Orderly, Written, Cleared
<1> QED
  BY <1>1, <1>2, <1>3 DEF Next

\* At most one item of a valid document carries the default flag.
LEMMA OneFlag ==
  ASSUME NEW items \in Documents, NEW m \in DOMAIN items, NEW n \in DOMAIN items,
         items[m].isDefault, items[n].isDefault
  PROVE  m = n
<1> DEFINE flagged == {k \in DOMAIN items : items[k].isDefault}
<1>1. m \in flagged /\ n \in flagged /\ items # <<>>
  BY DocumentFacts
<1>2. Cardinality(flagged) = 1
  <2>1. Valid(items)
    BY DEF Documents
  <2> QED
    BY <1>1, <2>1 DEF Valid
<1>3. IsFiniteSet(flagged)
  <2>1. IsFiniteSet(DOMAIN items)
    BY DocumentFacts, FS_Interval
  <2> QED
    BY <2>1, FS_Subset
<1>4. PICK x : flagged = {x}
  BY <1>2, <1>3, FS_Singleton
<1> QED
  BY <1>1, <1>4

LEMMA OnlySwaps ==
  ASSUME OwnInv
  PROVE  OnlySwapsConflict
<1> SUFFICES ASSUME NEW t \in Requests, Puts(t),
                    NEW j \in Ids \ {txs[t].items[txs[t].next].id},
                    txs[t].own[j] # None, Conflict(Entry(t), txs[t].own[j])
             PROVE  /\ ~txs[t].own[j].isDefault
                    /\ \/ \E m \in txs[t].next + 1 .. Len(txs[t].items) : txs[t].items[m].id = j
                       \/ j \notin ItemIds(txs[t].items) /\ rows[j].state = "active"
  BY DEF OnlySwapsConflict
<1> DEFINE tx == txs[t]
           items == tx.items
           n == tx.next
<1>1. tx \in Txs /\ items \in Documents /\ Orderly(tx) /\ tx.at = "clear"
  BY DEF OwnInv, TypeOK, Txs, Puts
<1>2. n \in DOMAIN items /\ DOMAIN items = 1 .. Len(items) /\ Len(items) \in Nat
  BY EntryType, <1>1, DocumentFacts DEF OwnInv
<1>3. tx.own[j].state = "active"
  BY DEF Conflict
<1>4. ~Written(tx, j)
  <2> SUFFICES ASSUME NEW m \in 1 .. n - 1, tx.own[j].value = items[m].value,
                      tx.own[j].isDefault = items[m].isDefault
               PROVE  FALSE
    BY DEF Written
  <2>1. m \in DOMAIN items /\ m # n
    BY <1>2
  <2>2. items[m].value # items[n].value
    BY <1>1, <1>2, <2>1 DEF Documents, Valid
  <2>3. items[m].isDefault /\ items[n].isDefault
    BY <2>2 DEF Conflict, Entry
  <2> QED
    BY <1>1, <1>2, <2>1, <2>3, OneFlag
<1>5. Cleared(tx, j)
  BY <1>1, <1>3, <1>4 DEF Orderly
<1>6. ASSUME j \in ItemIds(items) PROVE \E m \in n + 1 .. Len(items) : items[m].id = j
  <2>1. PICK m \in DOMAIN items : items[m].id = j
    BY <1>6 DEF ItemIds
  <2>2. m # n /\ m \notin 1 .. n - 1
    BY <1>5, <2>1 DEF Cleared
  <2>3. m \in n + 1 .. Len(items)
    BY <1>2, <2>1, <2>2
  <2> QED
    BY <2>1, <2>3
<1> QED
  BY <1>5, <1>6 DEF Cleared

LEMMA OwnInit == Init => OwnInv
<1> SUFFICES ASSUME Init PROVE OwnInv
  OBVIOUS
<1>1. TypeOK
  BY InvInit DEF DictInv
<1>2. \A t \in Requests : txs[t].at = "idle" /\ \A i \in Ids : txs[t].own[i] = None
  BY DEF Init, Idle
<1> QED
  BY <1>1, <1>2 DEF OwnInv, OwnsAlone, Orderly

\* Moving the default flag never trips its unique index, and a value trips its own only
\* in a swap or over a row another replace has added meanwhile
\* (DictionaryService.kt, clearing the flags before the items are written), with the
\* table lock and without it.
THEOREM SwapsAlone == Spec => []OnlySwapsConflict
<1>1. OwnInv => OnlySwapsConflict
  BY OnlySwaps
<1> QED
  BY OwnInit, OwnInvStep, <1>1, PTL DEF Spec

-----------------------------------------------------------------------------
(* What a replace under the table lock leaves stored: nobody else writes an entry   *)
(* while it runs, so every entry it sees is one its document names or one it has    *)
(* inserted, and each item written so far has its entry.                            *)

SeenBy(tx, i) == IF tx.own[i] # None THEN tx.own[i] ELSE rows[i]

\* The entry that item m is to become.
EntryOf(tx, m) ==
  [state |-> "active", value |-> tx.items[m].value, isDefault |-> tx.items[m].isDefault, position |-> m - 1]

\* Item m is in the row it names, or in one that was not in use.
Placed(tx, m, i) ==
  /\ tx.own[i] # None /\ tx.own[i] = EntryOf(tx, m)
  /\ tx.items[m].id = i \/ (tx.items[m].id = None /\ rows[i].state = "unused")

\* The entries a document names stay there throughout.
NamedThere(tx) ==
  \A i \in ItemIds(tx.items) : i \in Ids /\ rows[i].state = "active" /\ SeenBy(tx, i).state = "active"

Deleting(tx) ==
  /\ tx.todo \cap ItemIds(tx.items) = {}
  /\ \A i \in ActiveIds : i \in ItemIds(tx.items) \/ i \in tx.todo \/ tx.own[i] # None

Clearing(tx) ==
  /\ tx.next - 1 <= Len(tx.items)
  /\ \A i \in tx.todo : tx.own[i] = None
  /\ \A i \in Ids : SeenBy(tx, i).state = "active" =>
       i \in ItemIds(tx.items) \/ \E m \in 1 .. tx.next - 1 : Placed(tx, m, i)
  /\ \A m \in 1 .. tx.next - 1 : \E i \in Ids : Placed(tx, m, i)

Faithful(tx) ==
  tx.at # "idle" =>
    /\ NamedThere(tx)
    /\ tx.at = "delete" => Deleting(tx)
    /\ tx.at = "clear" => Clearing(tx)

StoreInv == DictInv /\ OwnInv /\ \A t \in Requests : Faithful(txs[t])

\* A step of one replace that leaves the committed tables alone.
LEMMA FaithfulStep ==
  ASSUME TypeOK, \A s \in Requests : Faithful(txs[s]), NEW t \in Requests, NEW tx \in Txs, Becomes(t, tx),
         rows' = rows, Faithful(tx)
  PROVE  \A s \in Requests : Faithful(txs[s])'
<1>1. /\ txs'[t] = tx /\ \A s \in Requests \ {t} : txs'[s] = txs[s]
  BY BecomesFacts
<1>2. \A s \in Requests : Faithful(txs'[s])
  BY <1>1
<1>3. ASSUME NEW s \in Requests PROVE Faithful(txs'[s]) <=> Faithful(txs[s])'
  BY DEF Faithful, NamedThere, Deleting, Clearing, Placed, SeenBy, EntryOf, ActiveIds
<1> QED
  BY <1>2, <1>3

LEMMA ReadFaithful ==
  ASSUME StoreInv, NEW t \in Requests, NEW items \in Documents, Read(t, items)
  PROVE  \A s \in Requests : Faithful(txs[s])'
<1> DEFINE tx == [Idle EXCEPT !.at = "delete", !.items = items, !.todo = ActiveIds \ ItemIds(items)]
<1>1. /\ tx \in Txs /\ tx.at = "delete" /\ tx.items = items /\ tx.todo = ActiveIds \ ItemIds(items)
      /\ \A i \in Ids : tx.own[i] = None
  BY IdleType DEF Txs, Idle, ActiveIds
<1>2. Becomes(t, tx) /\ rows' = rows /\ ItemIds(items) \subseteq ActiveIds
  BY DEF Read
<1> HIDE DEF tx
<1>3. Faithful(tx)
  BY <1>1, <1>2 DEF Faithful, NamedThere, SeenBy, Deleting, ActiveIds
<1> QED
  BY <1>1, <1>2, <1>3, FaithfulStep DEF StoreInv, DictInv

LEMMA DeleteFaithful ==
  ASSUME StoreInv, NEW t \in Requests, NEW i \in Ids, DeleteRow(t, i)
  PROVE  \A s \in Requests : Faithful(txs[s])'
<1> DEFINE row == [rows[i] EXCEPT !.state = "deleted"]
           tx == [txs[t] EXCEPT !.own = [txs[t].own EXCEPT ![i] = row], !.todo = txs[t].todo \ {i}]
<1>1. row \in Rows
  BY DEF StoreInv, DictInv, TypeOK, Rows, RowStates
<1>2. txs[t] \in Txs /\ Faithful(txs[t])
  BY DEF StoreInv, DictInv, TypeOK
<1>3. Becomes(t, tx) /\ txs[t].at = "delete" /\ i \in txs[t].todo /\ rows' = rows
  BY DEF DeleteRow, Takes
<1> HIDE DEF row
<1>4. /\ tx \in Txs /\ tx.at = "delete" /\ tx.items = txs[t].items /\ tx.todo = txs[t].todo \ {i}
      /\ tx.own[i] = row /\ \A j \in Ids \ {i} : tx.own[j] = txs[t].own[j]
  BY <1>1, <1>2, <1>3 DEF Txs
<1>5. row # None
  BY <1>1, RowsAssumption
<1> HIDE DEF tx
<1>6. i \notin ItemIds(tx.items) /\ NamedThere(txs[t]) /\ Deleting(txs[t])
  BY <1>2, <1>3, <1>4 DEF Faithful, Deleting
<1>7. NamedThere(tx)
  BY <1>4, <1>6 DEF NamedThere, SeenBy
<1>8. Deleting(tx)
  BY <1>4, <1>5, <1>6 DEF Deleting, ActiveIds
<1> QED
  BY <1>2, <1>3, <1>4, <1>7, <1>8, FaithfulStep DEF StoreInv, DictInv, Faithful

\* When the missing entries are gone, what is left are those the document names.
LEMMA StartClearFaithful ==
  ASSUME StoreInv, NEW t \in Requests, StartClear(t)
  PROVE  \A s \in Requests : Faithful(txs[s])'
<1> DEFINE seen == {i \in Ids : See(t, i).state = "active"}
           tx == [txs[t] EXCEPT !.at = "clear", !.todo = seen]
<1>1. txs[t] \in Txs /\ Faithful(txs[t]) /\ Orderly(txs[t]) /\ txs[t].at = "delete" /\ txs[t].todo = {}
  BY DEF StoreInv, DictInv, OwnInv, TypeOK, StartClear
<1>2. Becomes(t, tx) /\ rows' = rows
  BY DEF StartClear
<1>3. seen = {i \in Ids : SeenBy(txs[t], i).state = "active"}
  BY DEF See, SeenBy
<1> HIDE DEF seen
<1>4. seen \subseteq Ids
  BY <1>3
<1>5. tx \in Txs /\ tx.at = "clear" /\ tx.next = txs[t].next /\ tx.todo = seen /\ tx.own = txs[t].own
      /\ tx.items = txs[t].items
  BY <1>1, <1>4 DEF Txs
<1> HIDE DEF tx
<1>6. tx.next = 1 /\ NamedThere(txs[t]) /\ Deleting(txs[t])
  BY <1>1, <1>5 DEF Faithful, Orderly
<1>7. NamedThere(tx)
  BY <1>5, <1>6 DEF NamedThere, SeenBy
<1>8. \A i \in Ids : SeenBy(tx, i).state = "active" => tx.own[i] = None /\ i \in ActiveIds
  BY <1>1, <1>5 DEF SeenBy, Orderly, ActiveIds
<1>9. Clearing(tx)
  <2>1. Len(tx.items) \in Nat
    BY <1>5, DocumentFacts DEF Txs
  <2>2. 1 .. tx.next - 1 = {}
    BY <1>6
  <2>3. \A i \in tx.todo : tx.own[i] = None
    BY <1>3, <1>5, <1>8 DEF SeenBy
  <2>4. \A i \in Ids : SeenBy(tx, i).state = "active" => i \in ItemIds(tx.items)
    BY <1>1, <1>5, <1>6, <1>8 DEF Deleting
  <2> QED
    BY <1>6, <2>1, <2>2, <2>3, <2>4 DEF Clearing
<1> QED
  BY <1>2, <1>5, <1>7, <1>9, FaithfulStep DEF StoreInv, DictInv, Faithful

LEMMA ClearFaithful ==
  ASSUME StoreInv, NEW t \in Requests, NEW i \in Ids, ClearRow(t, i)
  PROVE  \A s \in Requests : Faithful(txs[s])'
<1> DEFINE row == IF rows[i].state = "active" THEN [rows[i] EXCEPT !.isDefault = FALSE] ELSE rows[i]
           tx == [txs[t] EXCEPT !.own = [txs[t].own EXCEPT ![i] = row], !.todo = txs[t].todo \ {i}]
<1>1. row \in Rows /\ row.state = rows[i].state
  BY DEF StoreInv, DictInv, TypeOK, Rows
<1>2. txs[t] \in Txs /\ Faithful(txs[t]) /\ Orderly(txs[t]) /\ txs[t].at = "clear" /\ i \in txs[t].todo
  BY DEF StoreInv, DictInv, OwnInv, TypeOK, ClearRow
<1>3. Becomes(t, tx) /\ rows' = rows
  BY DEF ClearRow, Takes
<1> HIDE DEF row
<1>4. /\ tx \in Txs /\ tx.at = "clear" /\ tx.next = txs[t].next /\ tx.todo = txs[t].todo \ {i}
      /\ tx.items = txs[t].items
      /\ tx.own[i] = row /\ \A j \in Ids \ {i} : tx.own[j] = txs[t].own[j]
  BY <1>1, <1>2 DEF Txs
<1> HIDE DEF tx
<1>5. tx.next = 1 /\ NamedThere(txs[t]) /\ Clearing(txs[t])
  BY <1>2, <1>4 DEF Faithful, Orderly
<1>6. txs[t].own[i] = None /\ row # None
  BY <1>1, <1>2, <1>5, RowsAssumption DEF Clearing
<1>7. \A j \in Ids : SeenBy(tx, j).state = SeenBy(txs[t], j).state
  BY <1>1, <1>4, <1>6 DEF SeenBy
<1>8. NamedThere(tx)
  BY <1>4, <1>5, <1>7 DEF NamedThere
<1>9. Clearing(tx)
  <2>1. 1 .. tx.next - 1 = {}
    BY <1>5
  <2>2. tx.todo \subseteq Ids
    BY <1>4 DEF Txs
  <2> QED
    BY <1>4, <1>5, <1>7, <2>1, <2>2 DEF Clearing
<1> QED
  BY <1>3, <1>4, <1>8, <1>9, FaithfulStep DEF StoreInv, DictInv, Faithful

\* An item comes to the row it names, or to one nobody has used.
LEMMA StoresFaithful ==
  ASSUME StoreInv, NEW t \in Requests, NEW i \in Ids, Puts(t), Stores(t, i, Entry(t)), rows' = rows,
         \/ txs[t].items[txs[t].next].id = i
         \/ txs[t].items[txs[t].next].id = None /\ rows[i].state = "unused" /\ txs[t].own[i] = None
  PROVE  \A s \in Requests : Faithful(txs[s])'
<1> DEFINE row == Entry(t)
           n == txs[t].next
           tx == [txs[t] EXCEPT !.own = [txs[t].own EXCEPT ![i] = row], !.next = txs[t].next + 1]
<1>1. /\ row \in Rows /\ row.state = "active" /\ n \in DOMAIN txs[t].items /\ n + 1 \in 1 .. MaxItems + 1
      /\ row = EntryOf(txs[t], n)
  BY EntryType DEF StoreInv, DictInv, Entry, EntryOf
<1>2. /\ txs[t] \in Txs /\ txs[t].at = "clear" /\ txs[t].todo = {} /\ n \in Nat \ {0}
      /\ txs[t].items \in Documents /\ n <= Len(txs[t].items) /\ Len(txs[t].items) \in Nat
  BY DictionariesAssumption, DocumentFacts DEF StoreInv, DictInv, TypeOK, Puts, Txs
<1>3. Becomes(t, tx) /\ row # None
  BY <1>1, RowsAssumption DEF Stores
<1>4. NamedThere(txs[t]) /\ Clearing(txs[t])
  BY <1>2 DEF StoreInv, Faithful
<1> HIDE DEF row
<1>5. /\ tx \in Txs /\ tx.at = "clear" /\ tx.next = n + 1 /\ tx.todo = {}
      /\ tx.items = txs[t].items
      /\ tx.own[i] = row /\ \A j \in Ids \ {i} : tx.own[j] = txs[t].own[j]
  BY <1>1, <1>2 DEF Txs
<1> HIDE DEF tx
<1>6. \A m : EntryOf(tx, m) = EntryOf(txs[t], m)
  BY <1>5 DEF EntryOf
<1>7. Placed(tx, n, i)
  BY <1>1, <1>3, <1>5, <1>6 DEF Placed
<1>8. ASSUME NEW m \in 1 .. n - 1, NEW j \in Ids, Placed(txs[t], m, j) PROVE j # i /\ Placed(tx, m, j)
  <2>1. m # n /\ m \in DOMAIN txs[t].items
    BY <1>2, DocumentFacts
  <2>2. j # i
    <3> SUFFICES ASSUME j = i PROVE FALSE
      OBVIOUS
    <3>1. txs[t].own[i] # None
      BY <1>8 DEF Placed
    <3>2. txs[t].items[n].id = i /\ i # None
      BY <3>1, DictionariesAssumption
    <3>3. i \in ItemIds(txs[t].items)
      BY <1>1, <3>2 DEF ItemIds
    <3>4. rows[i].state = "active"
      BY <1>4, <3>3 DEF NamedThere
    <3>5. txs[t].items[m].id = i
      BY <1>8, <3>4 DEF Placed
    <3> QED
      BY <1>1, <1>2, <2>1, <3>2, <3>5, DocumentFacts
  <2> QED
    BY <1>5, <1>6, <1>8, <2>2 DEF Placed
<1>9. NamedThere(tx)
  BY <1>1, <1>3, <1>4, <1>5 DEF NamedThere, SeenBy
<1>10. Clearing(tx)
  <2>1. \A m \in 1 .. tx.next - 1 : m \in 1 .. n - 1 \/ m = n
    BY <1>2, <1>5
  <2>2. \A m \in 1 .. n - 1 : m \in 1 .. tx.next - 1
    BY <1>2, <1>5
  <2>3. n \in 1 .. tx.next - 1 /\ tx.next - 1 <= Len(tx.items)
    BY <1>2, <1>5
  <2>4. \A m \in 1 .. tx.next - 1 : \E j \in Ids : Placed(tx, m, j)
    BY <1>4, <1>7, <1>8, <2>1 DEF Clearing
  <2>5. ASSUME NEW j \in Ids, SeenBy(tx, j).state = "active"
        PROVE  j \in ItemIds(tx.items) \/ \E m \in 1 .. tx.next - 1 : Placed(tx, m, j)
    <3>1. CASE j = i
      BY <1>7, <2>3, <3>1
    <3>2. CASE j # i
      <4>1. SeenBy(txs[t], j).state = "active"
        BY <1>5, <2>5, <3>2 DEF SeenBy
      <4>2. j \in ItemIds(txs[t].items) \/ \E m \in 1 .. n - 1 : Placed(txs[t], m, j)
        BY <1>4, <4>1 DEF Clearing
      <4> QED
        BY <1>5, <1>8, <2>2, <4>2
    <3> QED
      BY <3>1, <3>2
  <2> QED
    BY <1>5, <2>3, <2>4, <2>5 DEF Clearing
<1> QED
  BY <1>3, <1>5, <1>9, <1>10, FaithfulStep DEF StoreInv, DictInv, Faithful

\* Under the lock no entry that an item names is gone: nothing is dropped silently.
LEMMA UpdateFaithful ==
  ASSUME StoreInv, NEW t \in Requests, UpdateItem(t)
  PROVE  \A s \in Requests : Faithful(txs[s])'
<1> DEFINE i == txs[t].items[txs[t].next].id
<1>1. Puts(t) /\ i # None /\ rows' = rows
  BY DEF UpdateItem
<1>2. i \in Ids /\ i \in ItemIds(txs[t].items)
  BY <1>1, EntryType DEF StoreInv, DictInv, ItemIds
<1>3. See(t, i).state = "active"
  BY <1>1, <1>2 DEF StoreInv, Faithful, NamedThere, Puts, See, SeenBy
<1>4. Stores(t, i, Entry(t))
  BY <1>3 DEF UpdateItem
<1> QED
  BY <1>1, <1>2, <1>4, StoresFaithful

LEMMA InsertFaithful ==
  ASSUME StoreInv, NEW t \in Requests, NEW i \in Ids, InsertItem(t, i)
  PROVE  \A s \in Requests : Faithful(txs[s])'
<1>1. /\ Puts(t) /\ Stores(t, i, Entry(t)) /\ rows' = rows
      /\ txs[t].items[txs[t].next].id = None /\ See(t, i).state = "unused"
  BY DEF InsertItem
<1>2. rows[i].state = "unused" /\ txs[t].own[i] = None
  BY <1>1 DEF See, StoreInv, OwnInv, Orderly
<1> QED
  BY <1>1, <1>2, StoresFaithful

LEMMA EndFaithful ==
  ASSUME StoreInv, NEW t \in Requests, Commit(t) \/ Abort(t)
  PROVE  \A s \in Requests : Faithful(txs[s])'
<1>1. Becomes(t, Idle) /\ txs[t].at # "idle"
  BY DEF Commit, Abort, Finished
<1>2. /\ txs'[t] = Idle /\ \A s \in Requests \ {t} : txs'[s] = txs[s]
  BY <1>1, IdleType, BecomesFacts DEF StoreInv, DictInv
<1>3. \A s \in Requests : txs'[s].at = "idle"
  BY <1>1, <1>2, IdleType DEF StoreInv, DictInv, Alone
<1> QED
  BY <1>3 DEF Faithful

LEMMA StoreInvStep == Locked /\ StoreInv /\ [Next]_vars => StoreInv'
<1> SUFFICES ASSUME Locked, StoreInv, [Next]_vars PROVE \A s \in Requests : Faithful(txs[s])'
  BY InvStep, OwnInvStep DEF StoreInv
<1>1. ASSUME NEW t \in Requests, Replaces(t) PROVE \A s \in Requests : Faithful(txs[s])'
  <2>1. ASSUME NEW i \in Ids, DeleteRow(t, i) \/ ClearRow(t, i) \/ InsertItem(t, i)
        PROVE  \A s \in Requests : Faithful(txs[s])'
    BY <2>1, DeleteFaithful, ClearFaithful, InsertFaithful
  <2>2. ASSUME NEW items \in Documents, Read(t, items) PROVE \A s \in Requests : Faithful(txs[s])'
    BY <2>2, ReadFaithful
  <2>3. ASSUME StartClear(t) \/ UpdateItem(t) \/ Commit(t) \/ Abort(t)
        PROVE  \A s \in Requests : Faithful(txs[s])'
    BY <2>3, StartClearFaithful, UpdateFaithful, EndFaithful
  <2> QED
    BY <1>1, <2>1, <2>2, <2>3 DEF Replaces, Proceeds
<1>2. ASSUME UNCHANGED <<rows, txs>> PROVE \A s \in Requests : Faithful(txs[s])'
  <2>1. ASSUME NEW s \in Requests PROVE Faithful(txs[s])' <=> Faithful(txs[s])
    BY <1>2 DEF Faithful, NamedThere, Deleting, Clearing, Placed, SeenBy, EntryOf, ActiveIds
  <2> QED
    BY <2>1 DEF StoreInv
<1>3. (\E t \in Requests : Replaces(t)) \/ UNCHANGED <<rows, txs>>
  BY DEF Next, StoreBlueprint, CheckHierarchies, vars
<1> QED
  BY <1>1, <1>2, <1>3

\* A finished replace sees its document, entry by entry, and nothing else.
LEMMA SeesItsDocument ==
  ASSUME StoreInv, NEW t \in Requests, Finished(t)
  PROVE  LET shown == {i \in Ids : See(t, i).state = "active"} IN
         /\ \A i \in shown : \E m \in DOMAIN txs[t].items : See(t, i) = EntryOf(txs[t], m)
         /\ \A m \in DOMAIN txs[t].items : \E i \in shown : See(t, i) = EntryOf(txs[t], m)
<1> DEFINE tx == txs[t]
<1>1. /\ tx \in Txs /\ tx.at = "clear" /\ tx.next > Len(tx.items) /\ tx.next \in Nat
      /\ tx.items \in Documents /\ Clearing(tx)
  BY DictionariesAssumption DEF StoreInv, DictInv, TypeOK, Txs, Finished, Faithful
<1>2. DOMAIN tx.items = 1 .. tx.next - 1
  BY <1>1, DocumentFacts DEF Clearing
<1>3. \A i \in Ids : See(t, i) = SeenBy(tx, i)
  BY DEF See, SeenBy
<1>4. ASSUME NEW i \in Ids, SeenBy(tx, i).state = "active"
      PROVE  \E m \in DOMAIN tx.items : SeenBy(tx, i) = EntryOf(tx, m)
  <2>1. CASE i \in ItemIds(tx.items)
    <3>1. PICK m \in DOMAIN tx.items : tx.items[m].id = i
      BY <2>1 DEF ItemIds
    <3>2. PICK k \in Ids : Placed(tx, m, k)
      BY <1>1, <1>2 DEF Clearing
    <3>3. k = i
      BY <3>1, <3>2, DictionariesAssumption DEF Placed
    <3> QED
      BY <3>2, <3>3 DEF Placed, SeenBy
  <2>2. CASE i \notin ItemIds(tx.items)
    BY <1>1, <1>2, <1>4, <2>2 DEF Clearing, Placed, SeenBy
  <2> QED
    BY <2>1, <2>2
<1>5. ASSUME NEW m \in DOMAIN tx.items
      PROVE  \E i \in Ids : SeenBy(tx, i).state = "active" /\ SeenBy(tx, i) = EntryOf(tx, m)
  <2>1. PICK i \in Ids : Placed(tx, m, i)
    BY <1>1, <1>2 DEF Clearing
  <2> QED
    BY <2>1 DEF Placed, SeenBy, EntryOf
<1> QED
  BY <1>3, <1>4, <1>5

\* What a replace under the table lock answers 204 to is what it leaves stored, whatever
\* the other replaces and the blueprint writes do (DictionaryService.replaceLocked).
THEOREM HierarchiesStored == ASSUME Locked PROVE Spec => [][StoresItsDocument]_vars
<1>1. Init => StoreInv
  <2> SUFFICES ASSUME Init PROVE StoreInv
    OBVIOUS
  <2>1. DictInv /\ OwnInv
    BY InvInit, OwnInit
  <2>2. \A t \in Requests : txs[t].at = "idle"
    BY DEF Init, Idle
  <2> QED
    BY <2>1, <2>2 DEF StoreInv, Faithful
<1>2. StoreInv /\ [Next]_vars => StoreInv'
  BY StoreInvStep
<1>3. ASSUME StoreInv, Next, NEW t \in Requests, Commit(t)
      PROVE  Image(rows') = {[value |-> txs[t].items[n].value, isDefault |-> txs[t].items[n].isDefault,
                              position |-> n - 1] : n \in DOMAIN txs[t].items}
  <2>1. rows' = [i \in Ids |-> See(t, i)] /\ Finished(t)
    BY <1>3 DEF Commit
  <2> DEFINE shown == {i \in Ids : See(t, i).state = "active"}
             Shown(row) == [value |-> row.value, isDefault |-> row.isDefault, position |-> row.position]
  <2>2. Image(rows') = {Shown(See(t, i)) : i \in shown}
    BY <2>1 DEF Image
  <2>3. \A m : Shown(EntryOf(txs[t], m)) = [value |-> txs[t].items[m].value, isDefault |-> txs[t].items[m].isDefault,
                                            position |-> m - 1]
    BY DEF EntryOf
  <2>4. /\ \A i \in shown : \E m \in DOMAIN txs[t].items : See(t, i) = EntryOf(txs[t], m)
        /\ \A m \in DOMAIN txs[t].items : \E i \in shown : See(t, i) = EntryOf(txs[t], m)
    BY <1>3, <2>1, SeesItsDocument
  <2> HIDE DEF shown, Shown
  <2>5. {Shown(See(t, i)) : i \in shown} = {Shown(EntryOf(txs[t], m)) : m \in DOMAIN txs[t].items}
    BY <2>4
  <2> QED
    BY <2>2, <2>3, <2>5
<1>4. StoreInv /\ [Next]_vars => [StoresItsDocument]_vars
  BY <1>3 DEF StoresItsDocument
<1> QED
  BY <1>1, <1>2, <1>4, PTL DEF Spec
=============================================================================
