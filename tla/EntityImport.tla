---------------------------- MODULE EntityImport ----------------------------
(***************************************************************************)
(* The bulk import of entities: planEntityImport, which classifies a batch *)
(* against one read of the workspace and orders what it will store, and    *)
(* EntityService.import, which stores it row by row, one transaction each, *)
(* in two passes: a reference that closes a cycle within the batch is left *)
(* out of the first and restored by the second.  Other users write between *)
(* any two of these transactions, and a transaction may fail.              *)
(*                                                                         *)
(* The write version of a row is the millisecond of its last write.  Here  *)
(* every committed transaction has a millisecond of its own (two writes    *)
(* within one, or a clock set back, would pass the guard unseen); a create *)
(* takes its stamp before it waits for the lock, so it may be an old one.  *)
(*                                                                         *)
(* An identifier is a pair of what it folds to within its blueprint (its   *)
(* key) and a spelling: rows are matched by key, references byte by byte.  *)
(* There are two blueprints.  A component names its system by a required   *)
(* relation; any entity may name one more by an optional relation.         *)
(***************************************************************************)
EXTENDS Naturals, Sequences, FiniteSets, FiniteSetsExt, Relation

CONSTANTS Systems, Components,   \* keys, by blueprint
          Spellings,
          Rows,                  \* ids of `entities' rows, naturals that are never reused
          MaxTotal,           \* MAX_ENTITIES_TOTAL
          MaxDocuments,          \* MAX_IMPORT_DOCUMENTS
          Edits,                 \* documents that other users save during a batch
          MaxDisturbances,       \* bounds the writes of others and the failures during a batch
          Absent

ASSUME ImportAssumption == Rows \subseteq Nat /\ Absent \notin Nat

Identities == Systems \cup Components
Identifiers == Identities \X Spellings
Key(name) == name[1]

Documents ==
  [name : Systems \X Spellings, must : {Absent}, may : Identifiers \cup {Absent}]
    \cup [name : Components \X Spellings, must : (Systems \X Spellings) \cup {Absent}, may : Identifiers \cup {Absent}]

References(d) == {d.must, d.may} \ {Absent}

VARIABLES
  table,       \* `entities': NoRow, or a document with its write version
  clock,       \* the current millisecond
  batch, replaceExisting,
  expected,    \* by document: the write version its counterpart must have, 0 for "no counterpart"
  phase,
  snapshot,    \* the read the plan was made from
  importPlan,
  queue,       \* what is left of the order in the current pass
  stored, stamps, report,   \* by document
  since,       \* when the import's last transaction ended
  foreign,     \* ghost: rows others wrote since this client, or this import, last knew them
  disturbances, calm        \* how many are left; whether there was none

request == <<batch, replaceExisting, expected>>
importVars == <<table, clock, batch, replaceExisting, expected, phase, snapshot, importPlan, queue,
          stored, stamps, report, since, foreign, disturbances, calm>>

NoRow == [name |-> Absent]
Deleted == [name |-> Absent, deleted |-> TRUE]

Active(es) == {r \in Rows : es[r].name # Absent}
Free(es) == {r \in Rows : es[r] = NoRow}
Fresh(es) == {r \in Free(es) : \A q \in Free(es) : r <= q}
Stamped(d, now) == [name |-> d.name, must |-> d.must, may |-> d.may, at |-> now]

\* The unique index folds case.
Counterparts(es, key) == {r \in Active(es) : Key(es[r].name) = key}
existingId(es, d) ==
  IF Counterparts(es, Key(d.name)) = {} THEN Absent ELSE CHOOSE r \in Counterparts(es, Key(d.name)) : TRUE

targetExists(es, name) == \E r \in Active(es) : es[r].name = name

MissingRequired(d) == Key(d.name) \in Components /\ d.must = Absent

-----------------------------------------------------------------------------
(* The writes of EntityService *)

\* A reference to the old name follows a rename.
Renamed(d, old, new) == [d EXCEPT !.must = IF @ = old THEN new ELSE @, !.may = IF @ = old THEN new ELSE @]

createVerdict(es, d) ==
  IF \/ Cardinality(Active(es)) >= MaxTotal
     \/ MissingRequired(d)
     \/ \E name \in References(d) : ~targetExists(es, name)
  THEN "INVALID"
  ELSE IF Counterparts(es, Key(d.name)) # {} THEN "unique" ELSE "CREATED"

\* The row's references to its own old name are rewritten first, and its new one resolves.
updateVerdict(es, r, d, version) ==
  LET final == Renamed(d, es[r].name, d.name) IN
  IF r \notin Active(es) THEN "vanished"
  ELSE IF version # Absent /\ es[r].at # version THEN "stale"
  ELSE IF \/ MissingRequired(d)
          \/ \E name \in References(final) : name # d.name /\ ~targetExists(es, name)
  THEN "INVALID"
  ELSE IF Counterparts(es, Key(d.name)) \ {r} # {} THEN "unique" ELSE "UPDATED"

\* Mutant: the cascade leaves the write version of the rows it rewrites.
updatedKeepingStamps(es, r, d, now) ==
  [q \in Rows |->
     IF q = r THEN Stamped(Renamed(d, es[r].name, d.name), now)
     ELSE IF q \in Active(es) /\ es[r].name \in References(es[q]) THEN Renamed(es[q], es[r].name, d.name)
     ELSE es[q]]

\* The row, and when it is renamed every other row that names it.
updated(es, r, d, now) ==
  [q \in Rows |->
     IF q = r THEN Stamped(Renamed(d, es[r].name, d.name), now)
     ELSE IF q \in Active(es) /\ es[r].name # d.name /\ es[r].name \in References(es[q])
     THEN Stamped(Renamed(es[q], es[r].name, d.name), now)
     ELSE es[q]]

Referrers(es, r) == {q \in Active(es) \ {r} : es[r].name \in References(es[q])}

-----------------------------------------------------------------------------
(* The plan *)

Indices == DOMAIN batch
Creates(es, i) == existingId(es, batch[i]) = Absent

\* Folded, within one blueprint, whatever became of the earlier document.
Duplicate(i) == \E j \in 1 .. i - 1 : Key(batch[j].name) = Key(batch[i].name)

\* The counterpart vanished, appeared or changed since the client read it.
Stale(es, i) ==
  /\ expected[i] # Absent
  /\ IF Creates(es, i) THEN expected[i] > 0 ELSE es[existingId(es, batch[i])].at # expected[i]

classifyOne(es, i) ==
  IF Duplicate(i) THEN "CONFLICT"
  ELSE IF ~Creates(es, i) /\ ~replaceExisting THEN "EXISTS"
  ELSE IF Stale(es, i) THEN "STALE"
  ELSE "candidate"

\* Against the registry and whatever of the batch is still to be stored.
rejectFindings(es, C) ==
  {i \in C : /\ ~MissingRequired(batch[i])
             /\ \A name \in References(batch[i]) :
                  targetExists(es, name) \/ \E j \in C : batch[j].name = name}

rejectOverCap(es, C) ==
  {i \in C : Creates(es, i) => Cardinality(Active(es)) + Cardinality({j \in C : j <= i /\ Creates(es, j)}) <= MaxTotal}

fixpointFindingsAndCap(es, C) ==
  LET fixpoint[D \in SUBSET Indices] ==
        LET kept == rejectOverCap(es, rejectFindings(es, D)) IN
        IF kept = D THEN D ELSE fixpoint[kept]
  IN fixpoint[C]

\* Mutant: whatever is left is written in the order of the batch.
readyRegardless(dependencies, left) == left

ready(dependencies, left) == {i \in left : dependencies[i] \cap left = {}}

\* The lowest ready document; when none is, the lowest one left, without the references
\* that are not there yet, unless its required one is among them.
orderWithDeferral(dependencies, C) ==
  LET plan[left \in SUBSET Indices] ==
        LET first == ready(dependencies, left)
            pick == Min(IF first = {} THEN left ELSE first)
            late == IF first = {} THEN {batch[j].name : j \in dependencies[pick] \cap left} ELSE {}
            rest == plan[left \ {pick}]
            empty == [order |-> <<>>, deferred |-> [i \in Indices |-> {}], stoppedAt |-> Absent]
        IN IF left = {} THEN empty
           ELSE IF batch[pick].must \in late THEN [empty EXCEPT !.stoppedAt = pick]
           ELSE [rest EXCEPT !.order = <<pick>> \o @, !.deferred[pick] = late]
  IN plan[C]

\* On the documents of C that i names and that C creates.
attemptOrdering(es, C) ==
  LET creates == {j \in C : Creates(es, j)} IN
  orderWithDeferral([i \in C |-> {j \in creates : batch[j].name \in References(batch[i])}], C)

\* Orders until no required reference is in the way; what it rejects can unsettle the rest.
planCandidates(es, C) ==
  LET plan[D \in SUBSET Indices] ==
        LET kept == fixpointFindingsAndCap(es, D)
            attempt == attemptOrdering(es, kept)
            again == plan[kept \ {attempt.stoppedAt}]
        IN IF attempt.stoppedAt = Absent
           THEN [order |-> attempt.order, deferred |-> attempt.deferred, circular |-> {}]
           ELSE [again EXCEPT !.circular = @ \cup {attempt.stoppedAt}]
  IN plan[C]

planEntityImport(es) == planCandidates(es, {i \in Indices : classifyOne(es, i) = "candidate"})

Planned(p) == {p.order[n] : n \in DOMAIN p.order}
Rejection(es, p, i) ==
  IF i \in Planned(p) THEN Absent
  ELSE IF classifyOne(es, i) = "candidate" THEN "INVALID" ELSE classifyOne(es, i)

-----------------------------------------------------------------------------
(* The batch *)

\* Nothing of the batch has been planned.
Start(es, b, replace, guards) ==
  /\ table = es /\ clock = 2 /\ since = 2
  /\ batch = b /\ replaceExisting = replace /\ expected = guards
  /\ phase = "submitted" /\ snapshot = es
  /\ importPlan = [order |-> <<>>, deferred |-> [i \in DOMAIN b |-> {}], circular |-> {}]
  /\ queue = <<>>
  /\ stored = [i \in DOMAIN b |-> Absent] /\ stamps = stored /\ report = stored
  /\ foreign = {} /\ calm = TRUE

\* The write versions a client knows that has just read the workspace.
Versions(es, b) ==
  [i \in DOMAIN b |-> IF existingId(es, b[i]) = Absent THEN 0 ELSE es[existingId(es, b[i])].at]

\* Rows written at 1.
Table(ds) == [r \in Rows |-> IF r \in DOMAIN ds THEN Stamped(ds[r], 1) ELSE NoRow]

\* They refer to each other as the writes leave them.
Legal(es) ==
  /\ \A r \in Active(es) : ~MissingRequired(es[r]) /\ \A name \in References(es[r]) : targetExists(es, name)
  /\ \A q, r \in Active(es) : Key(es[q].name) = Key(es[r].name) => q = r

Batches(n, docs) == UNION {[1 .. k -> docs] : k \in 1 .. n}
Workspaces(n, docs) == {es \in {Table(ds) : ds \in Batches(n, docs) \cup {<<>>}} : Legal(es)}

ImportInit ==
  \E es \in Workspaces(MaxTotal, Documents), b \in Batches(MaxDocuments, Documents), replace \in BOOLEAN :
    /\ \E guards \in {Versions(es, b), [i \in DOMAIN b |-> Absent]} : Start(es, b, replace, guards)
    /\ disturbances \in 0 .. MaxDisturbances

\* import: one read, the importPlan, and the rows that will not be stored.
Plan ==
  /\ phase = "submitted"
  /\ snapshot' = table
  /\ importPlan' = planEntityImport(table)
  /\ queue' = importPlan'.order
  /\ report' = [i \in Indices |-> Rejection(table, importPlan', i)]
  /\ phase' = IF queue' = <<>> THEN "done" ELSE "pass1"
  /\ since' = clock
  /\ UNCHANGED <<table, clock, request, stored, stamps, foreign, disturbances, calm>>

\* After a row of pass 1 or 2; the second pass writes the rows that were stored incomplete.
Proceed ==
  LET second == SelectSeq(importPlan.order, LAMBDA i : importPlan.deferred[i] # {} /\ stored'[i] # Absent) IN
  /\ queue' = IF Tail(queue) = <<>> /\ phase = "pass1" THEN second ELSE Tail(queue)
  /\ phase' = IF queue' = <<>> THEN "done" ELSE IF Tail(queue) = <<>> THEN "pass2" ELSE phase
  /\ since' = clock'
  /\ UNCHANGED <<request, snapshot, importPlan>>

withDeferredStripped(i) ==
  [batch[i] EXCEPT !.may = IF @ \in importPlan.deferred[i] THEN Absent ELSE @]

\* The row is committed as r.
CommitsRow(i, r, es, now) ==
  /\ table' = es /\ clock' = clock + 1
  /\ stored' = [stored EXCEPT ![i] = r] /\ stamps' = [stamps EXCEPT ![i] = now]
  /\ foreign' = foreign \ {r}

\* The transaction is rolled back, or finds nothing to write.
RollsBack == UNCHANGED <<table, clock, stored, stamps, foreign>>

Reports(i, status) == report' = [report EXCEPT ![i] = status]

\* It is the turn of document i.
Turn(i) == queue # <<>> /\ i = Head(queue)

\* writeEntityRow of a document without counterpart: create.
CreateRow(i) ==
  LET verdict == createVerdict(table, withDeferredStripped(i)) IN
  /\ phase = "pass1" /\ Turn(i)
  /\ Creates(snapshot, i)
  /\ \/ /\ verdict = "CREATED"
        /\ \E r \in Fresh(table), now \in since .. clock :
             CommitsRow(i, r, [table EXCEPT ![r] = Stamped(withDeferredStripped(i), now)], now)
        /\ Reports(i, "CREATED")
     \/ verdict = "INVALID" /\ RollsBack /\ Reports(i, "INVALID")
     \/ verdict = "unique" /\ RollsBack /\ Reports(i, IF expected[i] = 0 THEN "STALE" ELSE "EXISTS")
  /\ Proceed
  /\ UNCHANGED <<disturbances, calm>>

\* writeEntityRow of the others, replaceRow: update, guarded by what the client expects.
ReplaceRow(i) ==
  LET r == existingId(snapshot, batch[i])
      verdict == updateVerdict(table, r, withDeferredStripped(i), expected[i]) IN
  /\ phase = "pass1" /\ Turn(i)
  /\ ~Creates(snapshot, i)
  /\ \/ /\ verdict = "UPDATED"
        /\ CommitsRow(i, r, updated(table, r, withDeferredStripped(i), clock), clock)
        /\ Reports(i, "UPDATED")
     \/ verdict = "vanished" /\ RollsBack /\ Reports(i, IF expected[i] = Absent THEN "ERROR" ELSE "STALE")
     \/ verdict = "stale" /\ RollsBack /\ Reports(i, "STALE")
     \/ verdict = "INVALID" /\ RollsBack /\ Reports(i, "INVALID")
     \/ verdict = "unique" /\ RollsBack /\ Reports(i, "EXISTS")
  /\ Proceed
  /\ UNCHANGED <<disturbances, calm>>

\* Mutant: a row that cannot be completed keeps the report of pass 1.
Pass2ReportOfPass1(i, verdict) == report[i]

\* Whatever keeps a row incomplete makes it an ERROR.
Pass2Report(i, verdict) == IF verdict = "UPDATED" THEN report[i] ELSE "ERROR"

\* pass2Entity: the whole document over what pass 1 left, if its stamp is still there.
CompleteRow(i) ==
  LET r == stored[i]
      verdict == updateVerdict(table, r, batch[i], stamps[i]) IN
  /\ phase = "pass2" /\ Turn(i)
  /\ \/ /\ verdict = "UPDATED"
        /\ table' = updated(table, r, batch[i], clock) /\ clock' = clock + 1
        /\ foreign' = foreign \ {r}
        /\ UNCHANGED <<stored, stamps>>
     \/ verdict # "UPDATED" /\ RollsBack
  /\ Reports(i, Pass2Report(i, verdict))
  /\ Proceed
  /\ UNCHANGED <<disturbances, calm>>

Disturbs == disturbances > 0 /\ disturbances' = disturbances - 1 /\ calm' = FALSE

\* storageFailureRow: a timeout, a lost connection or any other exception.
StorageFails(i) ==
  /\ phase \in {"pass1", "pass2"} /\ Turn(i)
  /\ RollsBack
  /\ Reports(i, "ERROR")
  /\ Proceed
  /\ Disturbs

\* Other users' requests.
Others == phase # "done" /\ Disturbs /\ UNCHANGED <<request, phase, snapshot, importPlan, queue, stored, stamps, report, since>>

OtherCreates(d) ==
  /\ disturbances > 0 /\ createVerdict(table, d) = "CREATED"
  /\ \E r \in Fresh(table) :
       /\ table' = [table EXCEPT ![r] = Stamped(d, clock)]
       /\ foreign' = foreign \cup {r}
  /\ clock' = clock + 1
  /\ Others

OtherUpdates(r, d) ==
  /\ disturbances > 0 /\ r \in Active(table)
  /\ Key(d.name) \in Systems <=> Key(table[r].name) \in Systems
  /\ updateVerdict(table, r, d, Absent) = "UPDATED"
  /\ table' = updated(table, r, d, clock)
  /\ foreign' = foreign \cup {q \in Rows : table'[q] # table[q]}
  /\ clock' = clock + 1
  /\ Others

OtherDeletes(r) ==
  /\ r \in Active(table) /\ Referrers(table, r) = {}
  /\ table' = [table EXCEPT ![r] = Deleted]
  /\ foreign' = foreign \cup {r}
  /\ clock' = clock + 1
  /\ Others

Answered == phase = "done" /\ UNCHANGED importVars

ImportNext ==
  \/ Plan
  \/ \E i \in Indices : CreateRow(i) \/ ReplaceRow(i) \/ CompleteRow(i) \/ StorageFails(i)
  \/ \E d \in Edits : OtherCreates(d)
  \/ \E r \in Rows, d \in Edits : OtherUpdates(r, d)
  \/ \E r \in Rows : OtherDeletes(r)
  \/ Answered

ImportSpec == ImportInit /\ [][ImportNext]_importVars
-----------------------------------------------------------------------------
(* Properties *)

\* A write that is guarded, by the version the client read or by the stamp pass 1
\* left, never replaces what somebody else has written meanwhile, a rename's
\* cascade included ("never an overwrite").
NothingOverwritten ==
  [][\A r \in foreign \ foreign' : phase = "pass1" /\ expected[Head(queue)] = Absent]_importVars

\* What the report calls CREATED or UPDATED is stored under its name with every
\* reference, those that pass 1 left out included, as long as nobody else has touched
\* it; and each names what the document names, unless an unguarded row overwrote what
\* another user had made of it (a rename turns its references to the name it takes
\* away into references to itself).
Complete(d, row) ==
  row.name = d.name /\ (d.must # Absent => row.must # Absent) /\ (d.may # Absent => row.may # Absent)
Exact(d, row) == {Key(name) : name \in References(row)} = {Key(name) : name \in References(d)}

NeverSilentlyPartial ==
  phase = "done" => \A i \in Indices :
    report[i] \in {"CREATED", "UPDATED"} /\ stored[i] \notin foreign =>
      /\ Complete(batch[i], table[stored[i]])
      /\ expected[i] # Absent \/ calm => Exact(batch[i], table[stored[i]])

\* A document that respells the identifier of its counterpart renames it.
Respells(i) == ~Creates(snapshot, i) /\ snapshot[existingId(snapshot, batch[i])].name # batch[i].name

\* What the plan (and so the dry run) predicts is what happens when nobody interferes,
\* in whatever order the documents come and however they refer to each other.
PlanIsKept ==
  phase = "done" /\ calm /\ ~(\E i \in Planned(importPlan) : Respells(i)) =>
    \A i \in Planned(importPlan) : report[i] = IF Creates(snapshot, i) THEN "CREATED" ELSE "UPDATED"

\* "A cycle running through a MANDATORY reference cannot be deferred": a document refused
\* as circular closes a cycle of references within the batch, one of them required.
Wants(i, j) == batch[j].name \in References(batch[i])
Reaches == TransitiveClosure([p \in Indices \X Indices |-> Wants(p[1], p[2])], Indices)
OnlyMandatoryCyclesRefused ==
  \A i \in importPlan.circular : \E j, k \in Indices :
    batch[k].name = batch[j].must /\ (i = j \/ Reaches[i, j]) /\ (k = i \/ Reaches[k, i])
=============================================================================
