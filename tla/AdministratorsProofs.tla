------------------------ MODULE AdministratorsProofs ------------------------
(***************************************************************************)
(* Proofs about Administrators, for any number of accounts and requests,   *)
(* and about ReadLedger, for any finite number of reads, any capacity and  *)
(* any charges.                                                            *)
(*                                                                         *)
(* The administrator a removal relies on is locked by that removal until   *)
(* it commits, so nobody else can take it away; and rows are locked in id  *)
(* order, so in a circle of waiting transactions some transaction holds a  *)
(* row above the one it waits for.                                         *)
(*                                                                         *)
(* A byte held is a pair of its reservation and its number: a              *)
(* compare-and-set adds pairs nobody holds, a close takes away those of    *)
(* one reservation, so the total is the size of the set.  And a total      *)
(* reached after the sampler's reading is always either noted or still to  *)
(* be noted by the read that reached it, in each of the two variables.     *)
(***************************************************************************)
EXTENDS Administrators, ReadLedger, FiniteSetTheorems, WellFoundedInduction, TLAPS

\* A transaction that saw another administrator still holds that row.
Relies(r) ==
  requests[r].other =>
    \E u \in Users : u # requests[r].target /\ users[u] = "admin" /\ lock[u] = r

\* A transaction holds rows it listed only, and those before any it has still to lock.
HoldsInOrder(r) ==
  \A u \in Users : lock[u] = r =>
    /\ requests[r].running /\ RemovesAdmin(r) /\ u \in requests[r].listed
    /\ \A v \in Todo(r) : u < v

OnlyRemovalsList(r) == requests[r].listed # {} => requests[r].running /\ RemovesAdmin(r)

AdminInv ==
  /\ TypeOK /\ AdministratorRemains
  /\ \A r \in Requests : Relies(r) /\ HoldsInOrder(r) /\ OnlyRemovalsList(r)

-----------------------------------------------------------------------------
(* What the steps change *)

LEMMA IdleType == Idle \in RequestRows /\ ~Idle.running /\ Idle.other = FALSE
  BY AdministratorsAssumption DEF Idle, RequestRows, Writes

LEMMA IdsAreNaturals == Users \subseteq Nat
<1>1. ASSUME NEW u \in Users PROVE u \in Nat
  <2>1. u \in 0 .. MaxId /\ MaxId \in Nat
    BY AdministratorsAssumption
  <2> QED
    BY <2>1
<1> QED
  BY <1>1

LEMMA NextRowIsLeast ==
  ASSUME TypeOK, NEW r \in Requests, Todo(r) # {}
  PROVE  NextRow(r) \in Todo(r) /\ \A v \in Todo(r) : NextRow(r) <= v
<1>1. Todo(r) \subseteq Nat
  BY IdsAreNaturals DEF TypeOK, RequestRows, Todo
<1>2. \E u \in Todo(r) : \A v \in Todo(r) : ~(<<v, u>> \in OpToRel(<, Nat))
  BY <1>1, NatLessThanWellFounded, WFMin
<1>3. PICK u \in Todo(r) : \A v \in Todo(r) : ~(<<v, u>> \in OpToRel(<, Nat))
  BY <1>2
<1>4. ASSUME NEW v \in Todo(r) PROVE u <= v
  <2>1. u \in Nat /\ v \in Nat
    BY <1>1
  <2>2. ~(v < u)
    BY <1>3, <2>1 DEF OpToRel
  <2> QED
    BY <2>1, <2>2
<1> QED
  BY <1>4 DEF NextRow

-----------------------------------------------------------------------------
(* The invariant *)

LEMMA InvInit == Init => AdminInv
<1> SUFFICES ASSUME Init PROVE AdminInv
  OBVIOUS
<1>1. TypeOK
  BY IdleType DEF Init, TypeOK
<1> QED
  BY <1>1, IdleType, AdministratorsAssumption DEF Init, AdminInv, AdministratorRemains, Relies, HoldsInOrder, OnlyRemovalsList, Idle

LEMMA CreateStep ==
  ASSUME AdminInv, NEW u \in Users, NEW role \in {"user", "admin"}, Create(u, role)
  PROVE  AdminInv'
<1>1. TypeOK'
  BY DEF AdminInv, Create, TypeOK
<1>2. \A v \in Users : users[v] = "admin" => users'[v] = "admin"
  BY DEF AdminInv, Create, TypeOK
<1>3. AdministratorRemains'
  BY <1>2 DEF AdminInv, AdministratorRemains, Admins
<1> QED
  BY <1>1, <1>2, <1>3 DEF AdminInv, Create, Relies, HoldsInOrder, OnlyRemovalsList, RemovesAdmin, Todo

LEMMA StartStep ==
  ASSUME AdminInv, NEW r \in Requests, NEW u \in Users, NEW w \in Writes, Start(r, w, u)
  PROVE  AdminInv'
<1>1. TypeOK'
  BY AdministratorsAssumption DEF AdminInv, Start, TypeOK, RequestRows, Admins
<1>2. \A v \in Users : lock[v] # r
  BY DEF AdminInv, Start, HoldsInOrder
<1>3. Relies(r)' /\ HoldsInOrder(r)' /\ OnlyRemovalsList(r)'
  BY <1>2 DEF AdminInv, Start, TypeOK, Relies, HoldsInOrder, OnlyRemovalsList, RemovesAdmin
<1>4. ASSUME NEW q \in Requests \ {r} PROVE Relies(q)' /\ HoldsInOrder(q)' /\ OnlyRemovalsList(q)'
  <2>1. requests'[q] = requests[q] /\ users' = users /\ lock' = lock
    BY DEF AdminInv, Start, TypeOK
  <2> QED
    BY <2>1 DEF AdminInv, Relies, HoldsInOrder, OnlyRemovalsList, RemovesAdmin, Todo
<1> QED
  BY <1>1, <1>3, <1>4 DEF AdminInv, Start, AdministratorRemains, Admins

LEMMA LockStep ==
  ASSUME AdminInv, NEW r \in Requests, LockAdmin(r)
  PROVE  AdminInv'
<1>1. PICK u \in Todo(r) :
        /\ u = NextRow(r) /\ lock[u] = None
        /\ lock' = [lock EXCEPT ![u] = r]
        /\ requests' = [requests EXCEPT ![r] = [requests[r] EXCEPT
                          !.other = requests[r].other \/ (users[u] = "admin" /\ u # requests[r].target)]]
  BY DEF LockAdmin
<1>2. u \in Users /\ Todo(r) \subseteq Users
  BY DEF AdminInv, TypeOK, RequestRows, Todo
<1>3. TypeOK'
  BY <1>1, <1>2 DEF AdminInv, LockAdmin, TypeOK, RequestRows
<1>4. users' = users
  BY DEF LockAdmin
<1>5. /\ requests'[r].target = requests[r].target /\ requests'[r].listed = requests[r].listed
      /\ requests'[r].running = requests[r].running /\ requests'[r].write = requests[r].write
      /\ requests'[r].other = (requests[r].other \/ (users[u] = "admin" /\ u # requests[r].target))
  BY <1>1 DEF AdminInv, TypeOK, RequestRows
<1>6. \A v \in Users : lock'[v] = IF v = u THEN r ELSE lock[v]
  BY <1>1, <1>2 DEF AdminInv, TypeOK
<1>7. r # None
  BY AdministratorsAssumption
<1>8. Relies(r)'
  <2> SUFFICES ASSUME requests'[r].other
               PROVE  \E v \in Users : v # requests[r].target /\ users[v] = "admin" /\ lock'[v] = r
    BY <1>4, <1>5 DEF Relies
  <2>1. CASE users[u] = "admin" /\ u # requests[r].target
    BY <1>2, <1>6, <2>1
  <2>2. CASE ~(users[u] = "admin" /\ u # requests[r].target)
    <3>1. requests[r].other
      BY <1>5, <2>2
    <3>2. PICK v \in Users : v # requests[r].target /\ users[v] = "admin" /\ lock[v] = r
      BY <3>1 DEF AdminInv, Relies
    <3> QED
      BY <1>6, <3>2
  <2> QED
    BY <2>1, <2>2
<1>9. HoldsInOrder(r)'
  <2>1. \A v \in Todo(r) : u <= v
    BY <1>1, NextRowIsLeast DEF AdminInv
  <2>2. Todo(r)' = Todo(r) \ {u}
    BY <1>2, <1>5, <1>6 DEF Todo, AdminInv, TypeOK, RequestRows
  <2>3. requests[r].running
    BY DEF LockAdmin
  <2>4. RemovesAdmin(r)
    BY <1>1 DEF AdminInv, OnlyRemovalsList, Todo
  <2>5. ASSUME NEW v \in Users, lock'[v] = r, NEW w \in Todo(r)' PROVE v < w
    <3>1. u \in Nat /\ w \in Nat /\ w # u /\ w \in Todo(r)
      BY <1>2, <2>2, <2>5, IdsAreNaturals
    <3>2. CASE v = u
      BY <2>1, <3>1, <3>2
    <3>3. CASE v # u
      BY <1>6, <2>5, <3>1, <3>3 DEF AdminInv, HoldsInOrder
    <3> QED
      BY <3>2, <3>3
  <2>6. \A v \in Users : lock'[v] = r => v \in requests'[r].listed
    BY <1>1, <1>5, <1>6 DEF AdminInv, HoldsInOrder, Todo
  <2> QED
    BY <1>5, <2>3, <2>4, <2>5, <2>6 DEF HoldsInOrder, RemovesAdmin
<1>11. OnlyRemovalsList(r)'
  BY <1>5 DEF AdminInv, OnlyRemovalsList, RemovesAdmin
<1>10. ASSUME NEW q \in Requests \ {r} PROVE Relies(q)' /\ HoldsInOrder(q)' /\ OnlyRemovalsList(q)'
  <2>1. requests'[q] = requests[q]
    BY <1>1 DEF AdminInv, TypeOK
  <2>2. \A v \in Users : lock'[v] = q <=> lock[v] = q
    BY <1>1, <1>6, <1>7, AdministratorsAssumption
  <2>3. Todo(q)' = Todo(q)
    BY <2>1, <2>2 DEF Todo, AdminInv, TypeOK, RequestRows
  <2> QED
    BY <1>4, <2>1, <2>2, <2>3 DEF AdminInv, Relies, HoldsInOrder, OnlyRemovalsList, RemovesAdmin
<1> QED
  BY <1>3, <1>4, <1>8, <1>9, <1>10, <1>11 DEF AdminInv, AdministratorRemains, Admins

LEMMA ReleaseRows ==
  ASSUME AdminInv, NEW r \in Requests, Release(r)
  PROVE  /\ lock' \in [Users -> Requests \cup {None}]
         /\ \A v \in Users : lock'[v] # r
         /\ \A v \in Users, q \in Requests \ {r} : lock'[v] = q <=> lock[v] = q
  BY AdministratorsAssumption DEF AdminInv, TypeOK, Release

\* What a transaction that gives its locks back leaves of the others.
LEMMA OthersKeep ==
  ASSUME AdminInv, NEW r \in Requests, NEW q \in Requests \ {r}, Release(r),
         requests'[q] = requests[q],
         \A v \in Users : lock[v] = q => users'[v] = users[v]
  PROVE  Relies(q)' /\ HoldsInOrder(q)' /\ OnlyRemovalsList(q)'
<1>1. \A v \in Users : lock'[v] = q <=> lock[v] = q
  BY ReleaseRows
<1>2. Todo(q)' = Todo(q)
  BY <1>1 DEF Todo, AdminInv, TypeOK, RequestRows
<1> QED
  BY <1>1, <1>2 DEF AdminInv, Relies, HoldsInOrder, OnlyRemovalsList, RemovesAdmin

LEMMA FinishStep ==
  ASSUME AdminInv, NEW r \in Requests, Finish(r)
  PROVE  AdminInv'
<1> DEFINE u == requests[r].target
<1>1. u \in Users
  BY DEF AdminInv, Finish, TypeOK
<1>2. Release(r) /\ \E b \in BOOLEAN : Answer(r, b)
  BY DEF Finish
<1>3. /\ requests' \in [Requests -> RequestRows]
      /\ ~requests'[r].running /\ requests'[r].other = FALSE /\ requests'[r].listed = {}
      /\ \A q \in Requests \ {r} : requests'[q] = requests[q]
  <2>1. PICK b \in BOOLEAN : Answer(r, b)
    BY <1>2
  <2>2. requests'[r] = [Idle EXCEPT !.refused = b] /\ requests' = [requests EXCEPT ![r] = [Idle EXCEPT !.refused = b]]
    BY <2>1 DEF Answer, AdminInv, TypeOK
  <2>3. [Idle EXCEPT !.refused = b] \in RequestRows
    BY IdleType DEF RequestRows
  <2> QED
    BY <2>2, <2>3 DEF Idle, AdminInv, TypeOK
<1>4. \/ users' = users
      \/ /\ lock[u] \in {None, r} /\ ~WouldRemoveLast(r)
         /\ users' = [users EXCEPT ![u] = requests[r].write]
  BY DEF Finish
<1>5. TypeOK'
  <2>1. requests[r].write \in Writes
    BY DEF AdminInv, TypeOK, RequestRows
  <2>2. users' \in [Users -> {"absent", "user", "admin", "deleted"}]
    BY <1>1, <1>4, <2>1 DEF AdminInv, TypeOK, Writes
  <2>3. \A q \in Requests : requests'[q].running => requests'[q].target \in Users
    BY <1>3 DEF AdminInv, TypeOK
  <2> QED
    BY <1>2, <1>3, <2>2, <2>3, ReleaseRows DEF TypeOK
<1>6. AdministratorRemains'
  <2>1. CASE users' = users
    BY <2>1 DEF AdminInv, AdministratorRemains, Admins
  <2>2. CASE /\ lock[u] \in {None, r} /\ ~WouldRemoveLast(r)
             /\ users' = [users EXCEPT ![u] = requests[r].write]
    <3>1. CASE requests[r].write = "admin"
      BY <1>1, <2>2, <3>1 DEF AdminInv, TypeOK, AdministratorRemains, Admins
    <3>2. CASE users[u] # "admin"
      BY <1>1, <2>2, <3>2 DEF AdminInv, TypeOK, AdministratorRemains, Admins
    <3>3. CASE requests[r].other
      BY <1>1, <2>2, <3>3 DEF AdminInv, TypeOK, Relies, AdministratorRemains, Admins
    <3> QED
      BY <2>2, <3>1, <3>2, <3>3 DEF WouldRemoveLast, RemovesAdmin
  <2> QED
    BY <1>4, <2>1, <2>2
<1>7. Relies(r)' /\ HoldsInOrder(r)' /\ OnlyRemovalsList(r)'
  BY <1>2, <1>3, ReleaseRows DEF Relies, HoldsInOrder, OnlyRemovalsList
<1>8. ASSUME NEW q \in Requests \ {r} PROVE Relies(q)' /\ HoldsInOrder(q)' /\ OnlyRemovalsList(q)'
  <2>1. \A v \in Users : lock[v] = q => users'[v] = users[v]
    BY <1>1, <1>4, AdministratorsAssumption DEF AdminInv, TypeOK
  <2> QED
    BY <1>2, <1>3, <2>1, OthersKeep
<1> QED
  BY <1>5, <1>6, <1>7, <1>8 DEF AdminInv

LEMMA AbortStep ==
  ASSUME AdminInv, NEW r \in Requests, Abort(r)
  PROVE  AdminInv'
<1>1. Release(r) /\ Answer(r, FALSE) /\ users' = users
  BY DEF Abort
<1>2. requests' = [requests EXCEPT ![r] = [Idle EXCEPT !.refused = FALSE]]
  BY <1>1 DEF Answer
<1>3. /\ requests' \in [Requests -> RequestRows]
      /\ ~requests'[r].running /\ requests'[r].other = FALSE /\ requests'[r].listed = {}
      /\ \A q \in Requests \ {r} : requests'[q] = requests[q]
  BY <1>2, IdleType DEF Idle, AdminInv, TypeOK, RequestRows
<1>4. TypeOK'
  BY <1>1, <1>3, ReleaseRows DEF AdminInv, TypeOK
<1>5. Relies(r)' /\ HoldsInOrder(r)' /\ OnlyRemovalsList(r)'
  BY <1>1, <1>3, ReleaseRows DEF Relies, HoldsInOrder, OnlyRemovalsList
<1>6. \A q \in Requests \ {r} : Relies(q)' /\ HoldsInOrder(q)' /\ OnlyRemovalsList(q)'
  BY <1>1, <1>3, OthersKeep
<1> QED
  BY <1>1, <1>4, <1>5, <1>6 DEF AdminInv, AdministratorRemains, Admins

LEMMA InvStep == AdminInv /\ [Next]_vars => AdminInv'
<1>1. ASSUME AdminInv, Next PROVE AdminInv'
  BY <1>1, CreateStep, StartStep, LockStep, FinishStep, AbortStep DEF Next, Runs, BreakDeadlock
<1>2. ASSUME AdminInv, UNCHANGED vars PROVE AdminInv'
  BY <1>2 DEF vars, AdminInv, TypeOK, AdministratorRemains, Admins, Relies, HoldsInOrder,
              OnlyRemovalsList, RemovesAdmin, Todo
<1> QED
  BY <1>1, <1>2

THEOREM AdminInvariant == Spec => []AdminInv
  BY InvInit, InvStep, PTL DEF Spec

-----------------------------------------------------------------------------
(* What it gives *)

\* Every row, row lock and transaction keeps its type.
THEOREM AdminTypes == Spec => []TypeOK
<1>1. AdminInv => TypeOK
  BY DEF AdminInv
<1> QED
  BY <1>1, AdminInvariant, PTL

\* However many demotions, deletions and promotions interleave, an active
\* administrator is left.
THEOREM SomeAdministrator == Spec => []AdministratorRemains
<1>1. AdminInv => AdministratorRemains
  BY DEF AdminInv
<1> QED
  BY <1>1, AdminInvariant, PTL

-----------------------------------------------------------------------------
(* Deadlocks *)

\* The row a waiting transaction waits for.
Wanted(r) == IF Todo(r) # {} THEN NextRow(r) ELSE requests[r].target

LEMMA WaiterClimbs ==
  ASSUME AdminInv, NEW r \in Requests, NEW q \in Requests, WaitsFor(r, q),
         RemovesAdmin(r) => requests[r].target \in requests[r].listed
  PROVE  /\ Wanted(r) \in Users /\ lock[Wanted(r)] = q
         /\ \A u \in Users : lock[u] = r => u < Wanted(r)
<1>1. CASE Todo(r) # {}
  <2>1. NextRow(r) \in Todo(r)
    BY <1>1, NextRowIsLeast DEF AdminInv
  <2> QED
    BY <1>1, <2>1 DEF AdminInv, TypeOK, RequestRows, Wanted, WaitsFor, HoldsInOrder, Todo
<1>2. CASE Todo(r) = {}
  <2>1. requests[r].target \in Users /\ lock[requests[r].target] = q /\ q # r
    BY <1>2 DEF AdminInv, TypeOK, WaitsFor
  <2>2. ~RemovesAdmin(r)
    BY <1>2, <2>1 DEF Todo
  <2> QED
    BY <1>2, <2>1, <2>2 DEF AdminInv, HoldsInOrder, Wanted
<1> QED
  BY <1>1, <1>2

\* Transactions whose targets were listed never wait in a circle: each waits for a
\* row below the one its holder waits for, and the ids are bounded.
LEMMA NoCircle ==
  ASSUME AdminInv, NEW S \in SUBSET Requests, Stuck(S)
  PROVE  \E r \in S : RemovesAdmin(r) /\ requests[r].target \notin requests[r].listed
<1> SUFFICES ASSUME \A r \in S : RemovesAdmin(r) => requests[r].target \in requests[r].listed
             PROVE  FALSE
  OBVIOUS
<1> DEFINE Left == {n \in Nat : \E r \in S : Wanted(r) \in Users /\ n = MaxId - Wanted(r)}
<1>1. ASSUME NEW r \in S
      PROVE  /\ Wanted(r) \in Users /\ Wanted(r) \in Nat /\ MaxId - Wanted(r) \in Nat
             /\ \E q \in S : lock[Wanted(r)] = q
             /\ \A u \in Users : lock[u] = r => u < Wanted(r)
  <2>1. PICK q \in S : WaitsFor(r, q)
    BY DEF Stuck
  <2>2. /\ Wanted(r) \in Users /\ lock[Wanted(r)] = q
        /\ \A u \in Users : lock[u] = r => u < Wanted(r)
    BY <2>1, WaiterClimbs
  <2>3. Wanted(r) \in 0 .. MaxId /\ MaxId \in Nat
    BY <2>2, AdministratorsAssumption
  <2> QED
    BY <2>2, <2>3
<1>2. Left # {} /\ Left \subseteq Nat
  <2>1. PICK r \in S : TRUE
    BY DEF Stuck
  <2> QED
    BY <1>1, <2>1
<1>3. PICK n \in Left : \A k \in Left : ~(<<k, n>> \in OpToRel(<, Nat))
  BY <1>2, NatLessThanWellFounded, WFMin
<1>4. PICK r \in S : Wanted(r) \in Users /\ n = MaxId - Wanted(r)
  BY <1>3
<1>5. PICK q \in S : lock[Wanted(r)] = q
  BY <1>1, <1>4
<1>6. Wanted(r) < Wanted(q)
  BY <1>1, <1>4, <1>5
<1> DEFINE k == MaxId - Wanted(q)
<1>7. k \in Left /\ k \in Nat /\ n \in Nat
  BY <1>1, <1>2, <1>5
<1>8. k < n
  BY <1>1, <1>4, <1>5, <1>6, AdministratorsAssumption
<1>9. <<k, n>> \in OpToRel(<, Nat)
  BY <1>7, <1>8 DEF OpToRel
<1> QED
  BY <1>3, <1>7, <1>9

\* Locking administrators in id order leaves one way into a deadlock: a target
\* that was not an administrator when the others were listed.
THEOREM OrderPreventsDeadlock == Spec => []OnlyPromotionsDeadlock
<1>1. AdminInv => OnlyPromotionsDeadlock
  BY NoCircle DEF OnlyPromotionsDeadlock
<1> QED
  BY <1>1, AdminInvariant, PTL

-----------------------------------------------------------------------------
(* Refusals *)

\* A transaction that saw no other administrator has locked none: a row it listed
\* exists, so it cannot turn into an administrator by being created.
Knows(r) ==
  /\ requests[r].running => ~requests[r].refused
  /\ \A u \in requests[r].listed : users[u] # "absent"
  /\ ~requests[r].other =>
       \A u \in Users : lock[u] = r /\ users[u] = "admin" => u = requests[r].target

RefusalInv == AdminInv /\ \A r \in Requests : Knows(r)

LEMMA RefusalInit == Init => RefusalInv
  BY InvInit, AdministratorsAssumption DEF RefusalInv, Init, Knows, Idle

\* A step that neither moves q nor turns a row q holds, or may yet lock, into nothing.
Spares(q) ==
  /\ requests'[q] = requests[q]
  /\ \A v \in Users : lock'[v] = q <=> lock[v] = q
  /\ \A v \in Users :
       \/ users'[v] = users[v]
       \/ users[v] = "absent"
       \/ lock[v] # q /\ users'[v] # "absent"

LEMMA OthersKnow == ASSUME RefusalInv, NEW q \in Requests, Spares(q) PROVE Knows(q)'
<1>1. /\ requests[q].listed \subseteq Users
      /\ \A v \in Users : lock[v] = q => v \in requests[q].listed
  BY DEF RefusalInv, AdminInv, TypeOK, RequestRows, HoldsInOrder
<1> QED
  BY <1>1 DEF RefusalInv, Knows, Spares

LEMMA RefusalStep == RefusalInv /\ [Next]_vars => RefusalInv'
<1> SUFFICES ASSUME RefusalInv, [Next]_vars PROVE \A r \in Requests : Knows(r)'
  BY InvStep DEF RefusalInv
<1>1. ASSUME NEW u \in Users, NEW role \in {"user", "admin"}, Create(u, role)
      PROVE  \A r \in Requests : Knows(r)'
  <2>1. lock' = lock /\ requests' = requests
    BY <1>1 DEF Create
  <2>2. \A v \in Users : users'[v] = users[v] \/ users[v] = "absent"
    BY <1>1 DEF Create, RefusalInv, AdminInv, TypeOK
  <2>3. \A q \in Requests : Spares(q)
    BY <2>1, <2>2 DEF Spares
  <2> QED
    BY <2>3, OthersKnow
<1>2. ASSUME NEW r \in Requests, NEW u \in Users, NEW w \in Writes, Start(r, w, u)
      PROVE  \A q \in Requests : Knows(q)'
  <2>1. \A v \in Users : lock[v] # r
    BY <1>2 DEF Start, RefusalInv, AdminInv, HoldsInOrder
  <2>2. Knows(r)'
    BY <1>2, <2>1 DEF Start, RefusalInv, AdminInv, TypeOK, Knows, Admins
  <2>3. \A q \in Requests \ {r} : Knows(q)'
    <3>1. \A q \in Requests \ {r} : requests'[q] = requests[q]
      BY <1>2 DEF Start, RefusalInv, AdminInv, TypeOK
    <3>2. lock' = lock /\ users' = users
      BY <1>2 DEF Start
    <3>3. \A q \in Requests \ {r} : Spares(q)
      BY <3>1, <3>2 DEF Spares
    <3> QED
      BY <3>3, OthersKnow
  <2> QED
    BY <2>2, <2>3
<1>3. ASSUME NEW r \in Requests, LockAdmin(r) PROVE \A q \in Requests : Knows(q)'
  <2>1. PICK u \in Todo(r) :
          /\ lock[u] = None /\ lock' = [lock EXCEPT ![u] = r]
          /\ requests' = [requests EXCEPT ![r] = [requests[r] EXCEPT
                            !.other = requests[r].other \/ (users[u] = "admin" /\ u # requests[r].target)]]
    BY <1>3 DEF LockAdmin
  <2>2. u \in Users /\ users' = users /\ requests[r] \in RequestRows
    BY <1>3 DEF LockAdmin, RefusalInv, AdminInv, TypeOK, RequestRows, Todo
  <2>3. Knows(r)'
    BY <2>1, <2>2 DEF RefusalInv, AdminInv, TypeOK, RequestRows, Knows
  <2>4. \A q \in Requests \ {r} : Knows(q)'
    <3>1. \A q \in Requests \ {r} : requests'[q] = requests[q]
      BY <2>1 DEF RefusalInv, AdminInv, TypeOK
    <3>2. \A q \in Requests \ {r}, v \in Users : lock'[v] = q <=> lock[v] = q
      BY <2>1, <2>2, AdministratorsAssumption DEF RefusalInv, AdminInv, TypeOK
    <3>3. \A q \in Requests \ {r} : Spares(q)
      BY <2>2, <3>1, <3>2 DEF Spares
    <3> QED
      BY <3>3, OthersKnow
  <2> QED
    BY <2>3, <2>4
<1>4. ASSUME NEW r \in Requests, Finish(r) PROVE \A q \in Requests : Knows(q)'
  <2>1. Release(r) /\ \E b \in BOOLEAN : Answer(r, b)
    BY <1>4 DEF Finish
  <2>2. /\ ~requests'[r].running /\ requests'[r].listed = {}
        /\ \A q \in Requests \ {r} : requests'[q] = requests[q]
    BY <2>1 DEF Answer, Idle, RefusalInv, AdminInv, TypeOK
  <2>3. \A v \in Users :
        \/ users'[v] = users[v]
        \/ lock[v] \in {None, r} /\ users'[v] # "absent"
    <3>1. requests[r].target \in Users /\ requests[r].write \in Writes
      BY <1>4 DEF Finish, RefusalInv, AdminInv, TypeOK, RequestRows
    <3>2. \/ users' = users
          \/ /\ lock[requests[r].target] \in {None, r}
             /\ users' = [users EXCEPT ![requests[r].target] = requests[r].write]
      BY <1>4 DEF Finish
    <3>3. CASE users' = users
      BY <3>3
    <3>4. CASE /\ lock[requests[r].target] \in {None, r}
               /\ users' = [users EXCEPT ![requests[r].target] = requests[r].write]
      <4>1. requests[r].write # "absent"
        BY <3>1 DEF Writes
      <4>2. \A v \in Users : users'[v] = IF v = requests[r].target THEN requests[r].write ELSE users[v]
        BY <3>4 DEF RefusalInv, AdminInv, TypeOK
      <4> QED
        BY <3>4, <4>1, <4>2
    <3> QED
      BY <3>2, <3>3, <3>4
  <2>4. Knows(r)'
    BY <2>1, <2>2, ReleaseRows DEF RefusalInv, Knows
  <2>5. \A q \in Requests \ {r} : Knows(q)'
    <3>1. \A q \in Requests \ {r}, v \in Users : lock'[v] = q <=> lock[v] = q
      BY <2>1, ReleaseRows DEF RefusalInv
    <3>2. \A q \in Requests \ {r}, v \in Users :
            users'[v] = users[v] \/ (lock[v] # q /\ users'[v] # "absent")
      BY <2>3, AdministratorsAssumption
    <3>3. \A q \in Requests \ {r} : Spares(q)
      BY <2>2, <3>1, <3>2 DEF Spares
    <3> QED
      BY <3>3, OthersKnow
  <2> QED
    BY <2>4, <2>5
<1>5. ASSUME NEW r \in Requests, Abort(r) PROVE \A q \in Requests : Knows(q)'
  <2>1. Release(r) /\ users' = users /\ Answer(r, FALSE)
    BY <1>5 DEF Abort
  <2>2. /\ ~requests'[r].running /\ requests'[r].listed = {}
        /\ \A q \in Requests \ {r} : requests'[q] = requests[q]
    BY <2>1 DEF Answer, Idle, RefusalInv, AdminInv, TypeOK
  <2>3. Knows(r)'
    BY <2>1, <2>2, ReleaseRows DEF RefusalInv, Knows
  <2>4. \A q \in Requests \ {r} : Knows(q)'
    <3>1. \A q \in Requests \ {r}, v \in Users : lock'[v] = q <=> lock[v] = q
      BY <2>1, ReleaseRows DEF RefusalInv
    <3>2. \A q \in Requests \ {r} : Spares(q)
      BY <2>1, <2>2, <3>1 DEF Spares
    <3> QED
      BY <3>2, OthersKnow
  <2> QED
    BY <2>3, <2>4
<1>6. CASE UNCHANGED vars
  BY <1>6 DEF vars, RefusalInv, Knows
<1> QED
  BY <1>1, <1>2, <1>3, <1>4, <1>5, <1>6 DEF Next, Runs, BreakDeadlock

\* A removal is refused only when every administrator it listed, but its target,
\* has gone.
THEOREM Refusals == Spec => RefusalsAreJustified
<1>1. ASSUME RefusalInv, Next, NEW r \in Requests, requests[r].running, requests'[r].refused
      PROVE  /\ users[requests[r].target] = "admin"
             /\ \A u \in requests[r].listed : users[u] = "admin" => u = requests[r].target
  <2>1. ~requests[r].refused
    BY <1>1 DEF RefusalInv, Knows
  <2>2. Finish(r) /\ WouldRemoveLast(r)
    <3>1. requests' # requests /\ requests'[r] # requests[r]
      BY <1>1, <2>1
    <3>2. ASSUME NEW q \in Requests, NEW u \in Users, NEW w \in Writes, Start(q, w, u) PROVE FALSE
      BY <1>1, <3>1, <3>2 DEF Start, RefusalInv, AdminInv, TypeOK
    <3>3. ASSUME NEW q \in Requests, LockAdmin(q) PROVE FALSE
      BY <1>1, <2>1, <3>3 DEF LockAdmin, RefusalInv, AdminInv, TypeOK, RequestRows
    <3>4. ASSUME NEW q \in Requests, Abort(q) PROVE FALSE
      BY <1>1, <2>1, <3>4 DEF Abort, Answer, Idle, RefusalInv, AdminInv, TypeOK
    <3>5. PICK q \in Requests : Finish(q)
      BY <1>1, <3>1, <3>2, <3>3, <3>4 DEF Next, Runs, BreakDeadlock, Create
    <3>6. PICK b \in BOOLEAN : Answer(q, b) /\ (b => WouldRemoveLast(q))
      BY <3>5 DEF Finish
    <3>7. q = r /\ b
      BY <1>1, <2>1, <3>6 DEF Answer, Idle, RefusalInv, AdminInv, TypeOK
    <3> QED
      BY <3>5, <3>6, <3>7
  <2>3. \A u \in requests[r].listed : lock[u] = r /\ u \in Users
    BY <1>1, <2>2 DEF Finish, Todo, RefusalInv, AdminInv, TypeOK, RequestRows
  <2> QED
    BY <1>1, <2>2, <2>3 DEF WouldRemoveLast, RefusalInv, Knows
<1>2. RefusalInv /\ [Next]_vars =>
        [\A r \in Requests :
           requests[r].running /\ requests'[r].refused
           => /\ users[requests[r].target] = "admin"
              /\ \A u \in requests[r].listed : users[u] = "admin" => u = requests[r].target]_vars
  BY <1>1
<1>3. Spec => []RefusalInv
  BY RefusalInit, RefusalStep, PTL DEF Spec
<1> QED
  BY <1>2, <1>3, PTL DEF Spec, RefusalsAreJustified

-----------------------------------------------------------------------------
(* The read budget *)

Booked(r) == read[r].stage \in {"since", "interval"}

\* What add() still has to do agrees with what its reservation holds.
AddInv(r) ==
  /\ read[r].stage = "closed" => read[r].held = 0
  /\ read[r].stage \in {"load", "swap"} => read[r].after <= read[r].held + read[r].bytes
  /\ Booked(r) => read[r].after <= read[r].held
  /\ read[r].stage \in {"swap", "since", "interval"} => Total(r) <= Capacity

\* Outside a reading, the highest total is in sinceSnapshot or on its way there.
SinceInv ==
  sampler.stage # "peak" =>
    \/ reached <= sinceSnapshot
    \/ \E r \in Reads : read[r].stage = "since" /\ Total(r) >= reached

\* While no interval is being ended, it is in intervalPeak or on its way there.
PeakInv ==
  sampler.stage \in {"idle", "taken"} =>
    \/ reached <= intervalPeak
    \/ \E r \in Reads : Booked(r) /\ Total(r) >= reached

\* endInterval() keeps what it read of the accumulator.
EndInv == sampler.stage = "endCheck" => intervalPeak >= sampler.since

LedgerInv ==
  /\ LedgerTypeOK /\ AccountsForReservations
  /\ \A r \in Reads : AddInv(r)
  /\ SinceInv /\ PeakInv /\ EndInv

-----------------------------------------------------------------------------
(* Counting the bytes held *)

LEMMA OwnBytes ==
  ASSUME NEW r, NEW a \in Int, NEW b \in Int, a <= b + 1
  PROVE  /\ IsFiniteSet({r} \X (a .. b))
         /\ Cardinality({r} \X (a .. b)) = b - a + 1
<1> DEFINE numbers == a .. b
<1>1. IsFiniteSet({r}) /\ Cardinality({r}) = 1
  BY FS_Singleton
<1>2. IsFiniteSet(numbers) /\ Cardinality(numbers) = IF a > b THEN 0 ELSE b - a + 1
  BY FS_Interval
<1>3. Cardinality(numbers) = b - a + 1
  BY <1>2
<1> HIDE DEF numbers
<1>4. /\ IsFiniteSet({r} \X numbers)
      /\ Cardinality({r} \X numbers) = Cardinality({r}) * Cardinality(numbers)
  BY <1>1, <1>2, FS_Product
<1>5. Cardinality({r} \X numbers) = b - a + 1
  BY <1>1, <1>3, <1>4
<1> QED
  BY <1>4, <1>5 DEF numbers

LEMMA HeldAreFinite ==
  ASSUME LedgerConstants, LedgerTypeOK
  PROVE  IsFiniteSet(HeldBytes) /\ TotalHeld \in Nat
<1>1. Capacity \in Nat
  BY DEF LedgerConstants
<1>2. IsFiniteSet(1 .. Capacity)
  BY <1>1, FS_Interval
<1>3. IsFiniteSet(Reads \X (1 .. Capacity))
  BY <1>2, FS_Product DEF LedgerConstants
<1>4. HeldBytes \subseteq Reads \X (1 .. Capacity)
  <2> SUFFICES ASSUME NEW r \in Reads PROVE {r} \X (1 .. read[r].held) \subseteq Reads \X (1 .. Capacity)
    BY DEF HeldBytes
  <2>1. read[r].held \in 0 .. Capacity
    BY DEF LedgerTypeOK, Reservations
  <2> QED
    BY <2>1, <1>1
<1>5. IsFiniteSet(HeldBytes)
  BY <1>3, <1>4, FS_Subset
<1> QED
  BY <1>5, FS_CardinalityType DEF TotalHeld

LEMMA HeldFits ==
  ASSUME LedgerConstants, LedgerTypeOK, NEW r \in Reads
  PROVE  read[r].held \in Nat /\ read[r].held <= TotalHeld
<1> DEFINE h == read[r].held
           own == {r} \X (1 .. h)
<1>1. h \in Nat /\ h \in Int /\ 1 <= h + 1
  BY DEF LedgerTypeOK, Reservations, LedgerConstants
<1>2. Cardinality(own) = h
  <2> HIDE DEF h
  <2>1. Cardinality(own) = h - 1 + 1
    BY <1>1, 1 \in Int, OwnBytes
  <2> QED
    BY <2>1, <1>1
<1>3. own \subseteq HeldBytes
  BY DEF HeldBytes
<1>4. Cardinality(own) <= Cardinality(HeldBytes)
  BY <1>3, HeldAreFinite, FS_Subset
<1> QED
  BY <1>1, <1>2, <1>4 DEF TotalHeld

LEMMA SameHoldings ==
  ASSUME \A q \in Reads : read'[q].held = read[q].held
  PROVE  TotalHeld' = TotalHeld
<1>1. HeldBytes' = HeldBytes
  BY DEF HeldBytes
<1> QED
  BY <1>1 DEF TotalHeld

\* A compare-and-set that succeeds adds bytes that nobody held.
LEMMA HoldingMore ==
  ASSUME LedgerConstants, LedgerTypeOK, NEW r \in Reads, NEW b \in Nat,
         read'[r].held = read[r].held + b,
         \A q \in Reads \ {r} : read'[q].held = read[q].held
  PROVE  TotalHeld' = TotalHeld + b
<1> DEFINE h == read[r].held
           more == {r} \X ((h + 1) .. (h + b))
<1>1. h \in Nat /\ h + b \in Nat /\ h <= h + b
  BY DEF LedgerTypeOK, Reservations, LedgerConstants
<1>2. IsFiniteSet(more) /\ Cardinality(more) = b
  <2>1. h + 1 \in Int /\ h + b \in Int /\ h + 1 <= h + b + 1
    BY <1>1
  <2> HIDE DEF h
  <2>2. Cardinality(more) = (h + b) - (h + 1) + 1 /\ IsFiniteSet(more)
    BY <2>1, OwnBytes
  <2> QED
    BY <2>2, <1>1
<1>3. HeldBytes' = HeldBytes \cup more
  <2>1. {r} \X (1 .. (h + b)) = ({r} \X (1 .. h)) \cup more
    BY <1>1
  <2>2. \A q \in Reads \ {r} : {q} \X (1 .. read'[q].held) = {q} \X (1 .. read[q].held)
    OBVIOUS
  <2>3. HeldBytes = ({r} \X (1 .. h)) \cup UNION {{q} \X (1 .. read[q].held) : q \in Reads \ {r}}
    BY DEF HeldBytes
  <2>4. HeldBytes' = ({r} \X (1 .. (h + b))) \cup UNION {{q} \X (1 .. read'[q].held) : q \in Reads \ {r}}
    BY DEF HeldBytes
  <2>5. UNION {{q} \X (1 .. read'[q].held) : q \in Reads \ {r}} = UNION {{q} \X (1 .. read[q].held) : q \in Reads \ {r}}
    BY <2>2
  <2> QED
    BY <2>1, <2>3, <2>4, <2>5
<1>4. HeldBytes \cap more = {}
  BY <1>1 DEF HeldBytes
<1>5. IsFiniteSet(HeldBytes) /\ Cardinality(HeldBytes) \in Nat
  BY HeldAreFinite DEF TotalHeld
<1>6. Cardinality(HeldBytes') = Cardinality(HeldBytes) + b - Cardinality(HeldBytes \cap more)
  BY <1>2, <1>3, <1>5, FS_Union
<1>7. Cardinality(HeldBytes \cap more) = 0
  BY <1>4, FS_EmptySet
<1> QED
  BY <1>5, <1>6, <1>7 DEF TotalHeld

\* A close gives back what its reservation held, and nothing else.
LEMMA HoldingNothing ==
  ASSUME LedgerConstants, LedgerTypeOK, NEW r \in Reads,
         read'[r].held = 0,
         \A q \in Reads \ {r} : read'[q].held = read[q].held
  PROVE  TotalHeld' = TotalHeld - read[r].held
<1> DEFINE h == read[r].held
           own == {r} \X (1 .. h)
<1>1. h \in Nat /\ h \in Int /\ 1 <= h + 1
  BY DEF LedgerTypeOK, Reservations, LedgerConstants
<1>2. Cardinality(own) = h
  <2> HIDE DEF h
  <2>1. Cardinality(own) = h - 1 + 1
    BY <1>1, 1 \in Int, OwnBytes
  <2> QED
    BY <2>1, <1>1
<1>3. HeldBytes' = HeldBytes \ own
  <2>1. HeldBytes = own \cup UNION {{q} \X (1 .. read[q].held) : q \in Reads \ {r}}
    BY DEF HeldBytes
  <2>2. (UNION {{q} \X (1 .. read[q].held) : q \in Reads \ {r}}) \cap own = {}
    OBVIOUS
  <2>3. {r} \X (1 .. read'[r].held) = {}
    OBVIOUS
  <2>4. HeldBytes' = UNION {{q} \X (1 .. read'[q].held) : q \in Reads \ {r}}
    BY <2>3 DEF HeldBytes
  <2>5. \A q \in Reads \ {r} : {q} \X (1 .. read'[q].held) = {q} \X (1 .. read[q].held)
    OBVIOUS
  <2>6. UNION {{q} \X (1 .. read'[q].held) : q \in Reads \ {r}} = UNION {{q} \X (1 .. read[q].held) : q \in Reads \ {r}}
    BY <2>5
  <2> QED
    BY <2>1, <2>2, <2>4, <2>6
<1>4. HeldBytes \cap own = own
  BY DEF HeldBytes
<1>5. Cardinality(HeldBytes') = Cardinality(HeldBytes) - Cardinality(own)
  <2> HIDE DEF own
  <2>1. Cardinality(HeldBytes \ own) = Cardinality(HeldBytes) - Cardinality(HeldBytes \cap own)
    BY HeldAreFinite, FS_Difference
  <2> QED
    BY <2>1, <1>3, <1>4
<1> QED
  BY <1>2, <1>5 DEF TotalHeld

-----------------------------------------------------------------------------
(* The reservations' steps *)

\* What a step of r leaves of the other reads.
OtherReadsKeep(r) == \A q \in Reads \ {r} : read'[q] = read[q]

\* The parts of the invariant about the sampler's variables follow from a few facts
\* about a step that only moves r on.
LEMMA MovingOn ==
  ASSUME LedgerInv, NEW r \in Reads, OtherReadsKeep(r), ~Booked(r),
         UNCHANGED <<intervalPeak, sinceSnapshot, sampler, reached>>
  PROVE  SinceInv' /\ PeakInv' /\ EndInv'
<1>1. \A q \in Reads : read[q].stage = "since" => read'[q] = read[q]
  BY DEF OtherReadsKeep, Booked
<1>2. \A q \in Reads : Booked(q) => read'[q] = read[q]
  BY DEF OtherReadsKeep, Booked
<1>3. \A q \in Reads : read'[q] = read[q] => Total(q)' = Total(q)
  BY DEF Total
<1>4. SinceInv'
  BY <1>1, <1>3 DEF LedgerInv, SinceInv
<1>5. PeakInv'
  BY <1>2, <1>3 DEF LedgerInv, PeakInv, Booked
<1>6. EndInv'
  BY DEF LedgerInv, EndInv
<1> QED
  BY <1>4, <1>5, <1>6

\* The invariant of one reservation, said of its row.
RowOK(row) ==
  /\ row \in Reservations /\ row.prepaid <= row.held
  /\ row.stage = "closed" => row.held = 0
  /\ row.stage \in {"load", "swap"} => row.after <= row.held + row.bytes
  /\ row.stage \in {"since", "interval"} => row.after <= row.held
  /\ row.stage \in {"swap", "since", "interval"} => row.seen + row.bytes <= Capacity

LEMMA ZeroIsAFigure ==
  ASSUME LedgerConstants
  PROVE  0 \in 0 .. Capacity /\ 0 \in 0 .. MaxBytes /\ 0 \in 0 .. (Capacity + MaxBytes)
BY DEF LedgerConstants

LEMMA RowsAreOK ==
  ASSUME LedgerInv, NEW r \in Reads
  PROVE  RowOK(read[r])
BY DEF LedgerInv, LedgerTypeOK, AddInv, Booked, Total, RowOK

\* A step that replaces the row of r, and books nothing, keeps the invariant.
LEMMA RowStep ==
  ASSUME LedgerConstants, LedgerInv, NEW r \in Reads, NEW row, RowOK(row),
         read' = [read EXCEPT ![r] = row], row.held = read[r].held, ~Booked(r),
         LedgerUnchanged, UNCHANGED <<sampler, reached>>
  PROVE  LedgerInv'
<1> USE DEF LedgerUnchanged
<1>1. read \in [Reads -> Reservations]
  BY DEF LedgerInv, LedgerTypeOK
<1>2. read'[r] = row /\ OtherReadsKeep(r)
  BY <1>1 DEF OtherReadsKeep
<1>3. LedgerTypeOK'
  BY <1>1, <1>2 DEF LedgerInv, LedgerTypeOK, RowOK, OtherReadsKeep
<1>4. AccountsForReservations'
  <2>1. \A q \in Reads : read'[q].held = read[q].held
    BY <1>2 DEF OtherReadsKeep
  <2> QED
    BY <2>1, SameHoldings DEF LedgerInv, AccountsForReservations
<1>5. \A q \in Reads : AddInv(q)'
  BY <1>2 DEF LedgerInv, RowOK, AddInv, Booked, Total, OtherReadsKeep
<1>6. SinceInv' /\ PeakInv' /\ EndInv'
  BY <1>2, MovingOn
<1> QED
  BY <1>3, <1>4, <1>5, <1>6 DEF LedgerInv

LEMMA OpenKeepsInv ==
  ASSUME LedgerConstants, LedgerInv, NEW r \in Reads, Open(r)
  PROVE  LedgerInv'
<1> DEFINE row == [Closed EXCEPT !.stage = "open"]
<1>1. RowOK(row) /\ row.held = 0
  BY DEF RowOK, Reservations, ReadStages, Closed, LedgerConstants
<1>2. read[r].held = 0 /\ ~Booked(r)
  BY RowsAreOK DEF Open, RowOK, Booked
<1> QED
  BY <1>1, <1>2, RowStep DEF Open

\* Entering add() books nothing yet.
LEMMA AddKeepsInv ==
  ASSUME LedgerConstants, LedgerInv, NEW r \in Reads, NEW bytes \in Bytes, NEW after \in Nat,
         read[r].stage = "open", after <= read[r].held + bytes, Add(r, bytes, after),
         LedgerUnchanged, UNCHANGED <<sampler, reached>>
  PROVE  LedgerInv'
<1> DEFINE old == read[r]
           row == [old EXCEPT !.stage = "load", !.bytes = bytes, !.after = after]
<1>1. read \in [Reads -> Reservations] /\ old \in Reservations /\ old.prepaid <= old.held
  BY DEF LedgerInv, LedgerTypeOK
<1>2. read' = [read EXCEPT ![r] = row]
  BY <1>1 DEF Add, Reservations
<1>3. bytes \in 0 .. MaxBytes /\ after \in 0 .. (Capacity + MaxBytes)
  BY <1>1 DEF Bytes, LedgerConstants, Reservations
<1>4. RowOK(row)
  BY <1>1, <1>3 DEF RowOK, Reservations, ReadStages
<1>5. ~Booked(r)
  BY DEF Booked
<1> HIDE DEF row
<1>6. row.held = read[r].held
  BY DEF row
<1> QED
  BY <1>2, <1>4, <1>5, <1>6, RowStep

LEMMA ReserveKeepsInv ==
  ASSUME LedgerConstants, LedgerInv, NEW r \in Reads, Reserve(r)
  PROVE  LedgerInv'
<1>1. PICK estimate \in Bytes : Add(r, estimate, read[r].prepaid + estimate)
  BY DEF Reserve
<1>2. /\ read[r].prepaid + estimate \in Nat
      /\ read[r].prepaid + estimate <= read[r].held + estimate
  BY RowsAreOK DEF RowOK, Reservations, Bytes, LedgerConstants
<1> QED
  BY <1>1, <1>2, AddKeepsInv DEF Reserve

LEMMA ChargeKeepsInv ==
  ASSUME LedgerConstants, LedgerInv, NEW r \in Reads, Charge(r)
  PROVE  LedgerInv'
<1>1. PICK bytes \in Bytes :
        LET drawn == Smaller(read[r].prepaid, bytes)
            left == read[r].prepaid - drawn
        IN  \/ bytes > drawn /\ Add(r, bytes - drawn, left)
            \/ bytes = drawn /\ read' = [read EXCEPT ![r].prepaid = left]
  BY DEF Charge
<1> DEFINE old == read[r]
           drawn == Smaller(old.prepaid, bytes)
           left == old.prepaid - drawn
<1>2. RowOK(old) /\ old \in Reservations
  BY RowsAreOK DEF RowOK
<1>3. drawn \in 0 .. bytes /\ left \in 0 .. old.prepaid /\ old.prepaid \in 0 .. old.held /\ old.held \in 0 .. Capacity
  BY <1>2 DEF RowOK, Reservations, Bytes, LedgerConstants, Smaller
<1>4. old.stage = "open" /\ LedgerUnchanged /\ UNCHANGED <<sampler, reached>>
  BY DEF Charge
<1>5. CASE bytes > drawn /\ Add(r, bytes - drawn, left)
  <2>1. bytes - drawn \in Bytes
    BY <1>3, <1>5 DEF Bytes, LedgerConstants
  <2>2. left \in Nat /\ left <= read[r].held + (bytes - drawn)
    BY <1>3, <2>1 DEF Bytes, LedgerConstants
  <2> QED
    BY <1>4, <1>5, <2>1, <2>2, AddKeepsInv
<1>6. CASE read' = [read EXCEPT ![r].prepaid = left]
  <2> DEFINE row == [old EXCEPT !.prepaid = left]
  <2> HIDE DEF left
  <2>1. left \in 0 .. Capacity /\ left <= old.held
    BY <1>3 DEF LedgerConstants
  <2>2. RowOK(row) /\ row.held = old.held
    BY <1>2, <2>1, <1>4 DEF RowOK, Reservations
  <2>3. read' = [read EXCEPT ![r] = row] /\ ~Booked(r)
    BY <1>4, <1>6 DEF Booked
  <2> HIDE DEF row
  <2> QED
    BY <1>4, <2>2, <2>3, RowStep
<1> QED
  BY <1>1, <1>5, <1>6

LEMMA LoadKeepsInv ==
  ASSUME LedgerConstants, LedgerInv, NEW r \in Reads, Load(r)
  PROVE  LedgerInv'
<1> DEFINE old == read[r]
           none == [Closed EXCEPT !.stage = "refused", !.held = old.held]
           swap == [old EXCEPT !.stage = "swap", !.seen = inFlight]
<1>1. RowOK(old) /\ old \in Reservations /\ old.stage = "load"
  BY RowsAreOK DEF RowOK, Load
<1>2. /\ LedgerUnchanged /\ UNCHANGED <<sampler, reached>>
      /\ ~Booked(r)
      /\ inFlight \in 0 .. Capacity
  BY DEF Load, Booked, LedgerInv, LedgerTypeOK
<1>3. CASE read' = [read EXCEPT ![r] = none]
  <2> DEFINE held == old.held
  <2>0. held \in 0 .. Capacity /\ 0 <= held
    BY <1>1 DEF Reservations
  <2> HIDE DEF held
  <2>1. [Closed EXCEPT !.stage = "refused", !.held = held] \in Reservations
    BY <2>0, ZeroIsAFigure DEF Reservations, ReadStages, Closed
  <2>2. RowOK(none) /\ none.held = old.held
    BY <2>0, <2>1 DEF RowOK, Closed, held
  <2> HIDE DEF none
  <2> QED
    BY <1>2, <1>3, <2>2, RowStep
<1>4. CASE inFlight + old.bytes <= Capacity /\ read' = [read EXCEPT ![r].stage = "swap", ![r].seen = inFlight]
  <2>1. RowOK(swap) /\ swap.held = old.held
    BY <1>1, <1>2, <1>4 DEF RowOK, Reservations, ReadStages
  <2>2. read' = [read EXCEPT ![r] = swap]
    BY <1>4 DEF LedgerInv, LedgerTypeOK
  <2> HIDE DEF swap
  <2> QED
    BY <1>2, <2>1, <2>2, RowStep
<1> QED
  BY <1>3, <1>4 DEF Load

\* A compare-and-set either adds bytes nobody held, or has seen a total that has moved.
LEMMA SwapKeepsInv ==
  ASSUME LedgerConstants, LedgerInv, NEW r \in Reads, Swap(r)
  PROVE  LedgerInv'
<1> DEFINE old == read[r]
<1>1. RowOK(old) /\ old \in Reservations /\ old.stage = "swap" /\ ~Booked(r)
  BY RowsAreOK DEF RowOK, Swap, Booked
<1>2. UNCHANGED <<intervalPeak, sinceSnapshot, sampler>> /\ read \in [Reads -> Reservations]
  BY DEF Swap, LedgerInv, LedgerTypeOK
<1>3. CASE inFlight # old.seen
  <2> DEFINE row == [old EXCEPT !.stage = "load", !.seen = 0]
  <2>1. RowOK(row) /\ row.held = old.held
    BY <1>1, ZeroIsAFigure DEF RowOK, Reservations, ReadStages
  <2>2. read' = [read EXCEPT ![r] = row] /\ LedgerUnchanged /\ UNCHANGED <<sampler, reached>>
    BY <1>2, <1>3 DEF Swap, LedgerUnchanged
  <2> HIDE DEF row
  <2> QED
    BY <1>1, <2>1, <2>2, RowStep
<1>4. CASE inFlight = old.seen
  <2> DEFINE row == [old EXCEPT !.stage = "since", !.held = old.held + old.bytes]
  <2>1. /\ inFlight' = old.seen + old.bytes /\ inFlight' \in 0 .. Capacity
        /\ reached' = Bigger(reached, old.seen + old.bytes)
        /\ read' = [read EXCEPT ![r] = row]
    <3>1. inFlight' = old.seen + old.bytes /\ reached' = Bigger(reached, old.seen + old.bytes)
      BY <1>4 DEF Swap, Total
    <3>2. old.seen + old.bytes \in 0 .. Capacity
      BY <1>1 DEF RowOK, Reservations, LedgerConstants
    <3>3. read' = [read EXCEPT ![r] = row]
      BY <1>2, <1>4 DEF Swap
    <3> QED
      BY <3>1, <3>2, <3>3
  <2>2. inFlight = TotalHeld /\ old.held \in 0 .. TotalHeld /\ TotalHeld \in Nat
    BY <1>1, HeldFits, HeldAreFinite DEF LedgerInv, AccountsForReservations, Reservations, LedgerConstants
  <2>3. old.bytes \in Nat /\ old.held + old.bytes \in 0 .. Capacity
    BY <1>1, <1>4, <2>2 DEF RowOK, Reservations, LedgerConstants
  <2>4. /\ RowOK(row) /\ row.held = old.held + old.bytes
        /\ row.stage = "since" /\ row.seen + row.bytes = old.seen + old.bytes
    <3> DEFINE held == old.held + old.bytes
    <3>1. held \in 0 .. Capacity /\ old.prepaid <= held /\ old.after <= held /\ old.seen + old.bytes <= Capacity
      BY <1>1, <2>3 DEF RowOK, Reservations
    <3>0. row = [old EXCEPT !.stage = "since", !.held = held]
      OBVIOUS
    <3> HIDE DEF held, row
    <3>2. /\ row \in Reservations /\ row.stage = "since" /\ row.held = held
          /\ row.prepaid = old.prepaid /\ row.after = old.after /\ row.seen = old.seen /\ row.bytes = old.bytes
      BY <1>1, <3>0, <3>1 DEF Reservations, ReadStages
    <3> QED
      BY <3>1, <3>2 DEF RowOK, held
  <2> HIDE DEF row
  <2>5. read'[r] = row /\ OtherReadsKeep(r)
    BY <1>2, <2>1 DEF OtherReadsKeep
  <2>6. LedgerTypeOK'
    <3>1. reached' \in 0 .. Capacity
      BY <2>1, <1>1 DEF LedgerInv, LedgerTypeOK, RowOK, Reservations, Bigger, LedgerConstants
    <3> QED
      BY <1>2, <2>1, <2>4, <2>5, <3>1 DEF LedgerInv, LedgerTypeOK, RowOK, OtherReadsKeep
  <2>7. AccountsForReservations'
    <3>1. read'[r].held = read[r].held + old.bytes /\ \A q \in Reads \ {r} : read'[q].held = read[q].held
      BY <2>4, <2>5 DEF OtherReadsKeep
    <3>2. TotalHeld' = TotalHeld + old.bytes
      BY <2>3, <3>1, HoldingMore DEF LedgerInv
    <3> QED
      BY <1>4, <2>1, <2>2, <3>2 DEF AccountsForReservations
  <2>8. \A q \in Reads : AddInv(q)'
    BY <2>4, <2>5 DEF LedgerInv, RowOK, AddInv, Booked, Total, OtherReadsKeep
  <2>9. Total(r)' = old.seen + old.bytes /\ read'[r].stage = "since"
    BY <2>4, <2>5 DEF Total
  <2>10. reached' = reached \/ Total(r)' = reached'
    BY <2>1, <2>9 DEF Bigger
  <2>11. \A q \in Reads : Booked(q) => read'[q] = read[q] /\ Total(q)' = Total(q)
    BY <1>1, <2>5 DEF OtherReadsKeep, Total
  <2>12. reached' \in Nat /\ reached \in Nat
    BY <2>6 DEF LedgerTypeOK, LedgerInv, LedgerConstants
  <2>13. SinceInv'
    <3>1. CASE reached' = reached
      BY <1>2, <2>11, <3>1 DEF LedgerInv, SinceInv, Booked
    <3>2. CASE Total(r)' = reached'
      BY <2>9, <2>12, <3>2 DEF SinceInv
    <3> QED
      BY <2>10, <3>1, <3>2
  <2>14. PeakInv'
    <3>1. CASE reached' = reached
      BY <1>2, <2>11, <3>1 DEF LedgerInv, PeakInv, Booked
    <3>2. CASE Total(r)' = reached'
      BY <2>9, <2>12, <3>2 DEF PeakInv, Booked
    <3> QED
      BY <2>10, <3>1, <3>2
  <2>15. EndInv'
    BY <1>2 DEF LedgerInv, EndInv
  <2> QED
    BY <2>6, <2>7, <2>8, <2>13, <2>14, <2>15 DEF LedgerInv
<1> QED
  BY <1>3, <1>4

\* The total is noted where the next interval begins ...
LEMMA NoteSinceKeepsInv ==
  ASSUME LedgerConstants, LedgerInv, NEW r \in Reads, NoteSince(r)
  PROVE  LedgerInv'
<1> DEFINE old == read[r]
           row == [old EXCEPT !.stage = "interval"]
<1>1. RowOK(old) /\ old \in Reservations /\ old.stage = "since"
  BY RowsAreOK DEF RowOK, NoteSince
<1>2. /\ UNCHANGED <<inFlight, intervalPeak, sampler, reached>>
      /\ read \in [Reads -> Reservations] /\ read' = [read EXCEPT ![r] = row]
      /\ sinceSnapshot' = Bigger(sinceSnapshot, Total(r))
  BY DEF NoteSince, LedgerInv, LedgerTypeOK
<1>3. RowOK(row) /\ row.held = old.held /\ row.stage = "interval" /\ row.seen + row.bytes = old.seen + old.bytes
  BY <1>1 DEF RowOK, Reservations, ReadStages
<1> HIDE DEF row
<1>4. read'[r] = row /\ OtherReadsKeep(r)
  BY <1>2 DEF OtherReadsKeep
<1>5. Total(r) \in 0 .. Capacity /\ sinceSnapshot \in 0 .. Capacity /\ reached \in Nat
  BY <1>1 DEF RowOK, Total, LedgerInv, LedgerTypeOK, Reservations, LedgerConstants
<1>6. /\ sinceSnapshot' \in 0 .. Capacity
      /\ sinceSnapshot' >= sinceSnapshot /\ sinceSnapshot' >= Total(r)
  BY <1>2, <1>5 DEF Bigger, LedgerConstants
<1>7. LedgerTypeOK'
  BY <1>2, <1>3, <1>4, <1>6 DEF LedgerInv, LedgerTypeOK, RowOK, OtherReadsKeep
<1>8. AccountsForReservations'
  <2>1. \A q \in Reads : read'[q].held = read[q].held
    BY <1>3, <1>4 DEF OtherReadsKeep
  <2> QED
    BY <1>2, <2>1, SameHoldings DEF LedgerInv, AccountsForReservations
<1>9. \A q \in Reads : AddInv(q)'
  BY <1>3, <1>4 DEF LedgerInv, RowOK, AddInv, Booked, Total, OtherReadsKeep
<1>10. \A q \in Reads : Total(q)' = Total(q) /\ (Booked(q) => Booked(q)')
  BY <1>1, <1>3, <1>4 DEF Total, OtherReadsKeep, Booked
<1>11. SinceInv'
  <2>1. ASSUME sampler.stage # "peak", NEW q \in Reads, read[q].stage = "since", Total(q) >= reached
        PROVE  SinceInv'
    <3>1. CASE q = r
      BY <1>2, <1>5, <1>6, <2>1, <3>1 DEF SinceInv, LedgerConstants
    <3>2. CASE q # r
      BY <1>2, <1>4, <1>10, <2>1, <3>2 DEF SinceInv, OtherReadsKeep
    <3> QED
      BY <3>1, <3>2
  <2>2. CASE reached <= sinceSnapshot
    BY <1>2, <1>5, <1>6, <2>2 DEF SinceInv, LedgerConstants
  <2>3. CASE sampler.stage = "peak"
    BY <1>2, <2>3 DEF SinceInv
  <2> QED
    BY <2>1, <2>2, <2>3 DEF LedgerInv, SinceInv
<1>12. PeakInv'
  BY <1>2, <1>10 DEF LedgerInv, PeakInv
<1>13. EndInv'
  BY <1>2 DEF LedgerInv, EndInv
<1> QED
  BY <1>7, <1>8, <1>9, <1>11, <1>12, <1>13 DEF LedgerInv

\* ... and in the peak of the interval under way.
LEMMA NoteIntervalKeepsInv ==
  ASSUME LedgerConstants, LedgerInv, NEW r \in Reads, NoteInterval(r)
  PROVE  LedgerInv'
<1> DEFINE old == read[r]
           row == [Closed EXCEPT !.stage = "open", !.held = old.held, !.prepaid = old.after]
<1>1. RowOK(old) /\ old \in Reservations /\ old.stage = "interval"
  BY RowsAreOK DEF RowOK, NoteInterval
<1>2. /\ UNCHANGED <<inFlight, sinceSnapshot, sampler, reached>>
      /\ read \in [Reads -> Reservations] /\ read' = [read EXCEPT ![r] = row]
      /\ intervalPeak' = Bigger(intervalPeak, Total(r))
  BY DEF NoteInterval, LedgerInv, LedgerTypeOK
<1>3. RowOK(row) /\ row.held = old.held /\ row.stage = "open"
  <2>1. old.after \in 0 .. Capacity /\ old.after <= old.held /\ old.held \in 0 .. Capacity
    BY <1>1 DEF RowOK, Reservations, LedgerConstants
  <2>2. row \in Reservations
    BY <2>1, ZeroIsAFigure DEF Reservations, ReadStages, Closed
  <2> QED
    BY <2>1, <2>2 DEF RowOK, Closed
<1> HIDE DEF row
<1>4. read'[r] = row /\ OtherReadsKeep(r)
  BY <1>2 DEF OtherReadsKeep
<1>5. Total(r) \in 0 .. Capacity /\ intervalPeak \in 0 .. Capacity /\ reached \in Nat
  BY <1>1 DEF RowOK, Total, LedgerInv, LedgerTypeOK, Reservations, LedgerConstants
<1>6. /\ intervalPeak' \in 0 .. Capacity
      /\ intervalPeak' >= intervalPeak /\ intervalPeak' >= Total(r)
  BY <1>2, <1>5 DEF Bigger, LedgerConstants
<1>7. LedgerTypeOK'
  BY <1>2, <1>3, <1>4, <1>6 DEF LedgerInv, LedgerTypeOK, RowOK, OtherReadsKeep
<1>8. AccountsForReservations'
  <2>1. \A q \in Reads : read'[q].held = read[q].held
    BY <1>3, <1>4 DEF OtherReadsKeep
  <2> QED
    BY <1>2, <2>1, SameHoldings DEF LedgerInv, AccountsForReservations
<1>9. \A q \in Reads : AddInv(q)'
  BY <1>3, <1>4 DEF LedgerInv, RowOK, AddInv, Booked, Total, OtherReadsKeep
<1>10. \A q \in Reads \ {r} : Total(q)' = Total(q) /\ (Booked(q) => Booked(q)')
  BY <1>4 DEF Total, OtherReadsKeep, Booked
<1>11. SinceInv'
  BY <1>1, <1>2, <1>4 DEF LedgerInv, SinceInv, OtherReadsKeep, Total
<1>12. PeakInv'
  <2>1. ASSUME NEW q \in Reads, Booked(q), Total(q) >= reached
        PROVE  PeakInv'
    <3>1. CASE q = r
      BY <1>2, <1>5, <1>6, <2>1, <3>1 DEF PeakInv, LedgerConstants
    <3>2. CASE q # r
      BY <1>2, <1>10, <2>1, <3>2 DEF PeakInv
    <3> QED
      BY <3>1, <3>2
  <2>2. CASE reached <= intervalPeak
    BY <1>2, <1>5, <1>6, <2>2 DEF PeakInv, LedgerConstants
  <2>3. CASE sampler.stage \notin {"idle", "taken"}
    BY <1>2, <2>3 DEF PeakInv
  <2> QED
    BY <2>1, <2>2, <2>3 DEF LedgerInv, PeakInv
<1>13. EndInv'
  <2>1. sampler.since \in 0 .. Capacity
    BY DEF LedgerInv, LedgerTypeOK
  <2> QED
    BY <1>2, <1>5, <1>6, <2>1 DEF LedgerInv, EndInv, LedgerConstants
<1> QED
  BY <1>7, <1>8, <1>9, <1>11, <1>12, <1>13 DEF LedgerInv

LEMMA CloseKeepsInv ==
  ASSUME LedgerConstants, LedgerInv, NEW r \in Reads, Close(r)
  PROVE  LedgerInv'
<1>1. RowOK(read[r]) /\ read[r] \in Reservations /\ ~Booked(r)
  BY RowsAreOK DEF RowOK, Close, Booked
<1>2. /\ UNCHANGED <<intervalPeak, sinceSnapshot, sampler, reached>>
      /\ read \in [Reads -> Reservations] /\ read' = [read EXCEPT ![r] = Closed]
      /\ inFlight' = inFlight - read[r].held
  BY DEF Close, LedgerInv, LedgerTypeOK
<1>3. RowOK(Closed) /\ Closed.held = 0 /\ Closed.stage = "closed"
  BY DEF RowOK, Reservations, ReadStages, Closed, LedgerConstants
<1>4. read'[r] = Closed /\ OtherReadsKeep(r)
  BY <1>2 DEF OtherReadsKeep
<1>5. inFlight = TotalHeld /\ TotalHeld \in Nat /\ read[r].held \in 0 .. inFlight
  BY <1>1, HeldFits, HeldAreFinite DEF LedgerInv, AccountsForReservations, Reservations, LedgerConstants
<1>6. LedgerTypeOK'
  <2>1. inFlight' \in 0 .. Capacity
    BY <1>2, <1>5 DEF LedgerInv, LedgerTypeOK, LedgerConstants
  <2> QED
    BY <1>2, <1>3, <1>4, <2>1 DEF LedgerInv, LedgerTypeOK, RowOK, OtherReadsKeep
<1>7. AccountsForReservations'
  <2>1. read'[r].held = 0 /\ \A q \in Reads \ {r} : read'[q].held = read[q].held
    BY <1>3, <1>4 DEF OtherReadsKeep
  <2>2. TotalHeld' = TotalHeld - read[r].held
    BY <2>1, HoldingNothing DEF LedgerInv
  <2> QED
    BY <1>2, <1>5, <2>2 DEF AccountsForReservations
<1>8. \A q \in Reads : AddInv(q)'
  BY <1>3, <1>4 DEF LedgerInv, RowOK, AddInv, Booked, Total, OtherReadsKeep
<1>9. SinceInv' /\ PeakInv' /\ EndInv'
  BY <1>1, <1>2, <1>4, MovingOn
<1> QED
  BY <1>6, <1>7, <1>8, <1>9 DEF LedgerInv

-----------------------------------------------------------------------------
(* The sampler's steps *)

\* A step of the sampler leaves what the reservations hold alone.
LEMMA SamplerStep ==
  ASSUME LedgerInv, UNCHANGED <<inFlight, read>>,
         sampler' \in [stage : SamplerStages, held : 0..Capacity, figure : 0..Capacity, since : 0..Capacity],
         intervalPeak' \in 0 .. Capacity, sinceSnapshot' \in 0 .. Capacity, reached' \in 0 .. Capacity
  PROVE  LedgerTypeOK' /\ AccountsForReservations' /\ \A q \in Reads : AddInv(q)'
<1>1. LedgerTypeOK'
  BY DEF LedgerInv, LedgerTypeOK
<1>2. AccountsForReservations'
  BY SameHoldings DEF LedgerInv, AccountsForReservations
<1>3. \A q \in Reads : AddInv(q)'
  BY DEF LedgerInv, AddInv, Booked, Total
<1> QED
  BY <1>1, <1>2, <1>3

LEMMA SnapshotKeepsInv ==
  ASSUME LedgerConstants, LedgerInv, SnapshotHeld \/ SnapshotSince \/ SnapshotPeak
  PROVE  LedgerInv'
<1> DEFINE Rest == LedgerTypeOK' /\ AccountsForReservations' /\ \A q \in Reads : AddInv(q)'
<1> USE DEF LedgerUnchanged
<1>1. CASE SnapshotHeld
  <2>1. Rest
    BY <1>1, SamplerStep DEF SnapshotHeld, LedgerInv, LedgerTypeOK, SamplerStages
  <2>2. SinceInv' /\ PeakInv' /\ EndInv'
    BY <1>1 DEF SnapshotHeld, LedgerInv, LedgerTypeOK, SinceInv, PeakInv, EndInv, Total, Booked
  <2> QED
    BY <2>1, <2>2 DEF LedgerInv
<1>2. CASE SnapshotSince
  <2>1. Rest
    BY <1>2, SamplerStep DEF SnapshotSince, LedgerInv, LedgerTypeOK, SamplerStages
  <2>2. SinceInv' /\ PeakInv' /\ EndInv'
    BY <1>2 DEF SnapshotSince, LedgerInv, LedgerTypeOK, SinceInv, PeakInv, EndInv
  <2> QED
    BY <2>1, <2>2 DEF LedgerInv
<1>3. CASE SnapshotPeak
  <2>1. Bigger(sampler.held, intervalPeak) \in 0 .. Capacity
    BY DEF LedgerInv, LedgerTypeOK, Bigger
  <2>2. Rest
    BY <1>3, <2>1, SamplerStep, ZeroIsAFigure DEF SnapshotPeak, LedgerInv, LedgerTypeOK, SamplerStages
  <2>3. 0 <= sinceSnapshot' /\ 0 <= intervalPeak' /\ reached' = 0 /\ sampler'.stage = "taken"
    BY <1>3 DEF SnapshotPeak, LedgerInv, LedgerTypeOK
  <2>4. SinceInv' /\ PeakInv' /\ EndInv'
    BY <2>3 DEF SinceInv, PeakInv, EndInv
  <2> QED
    BY <2>2, <2>4 DEF LedgerInv
<1> QED
  BY <1>1, <1>2, <1>3

LEMMA SampleKeepsInv ==
  ASSUME LedgerConstants, LedgerInv, NotStored \/ Stored
  PROVE  LedgerInv'
<1>1. /\ LedgerTypeOK' /\ AccountsForReservations' /\ \A q \in Reads : AddInv(q)'
  BY SamplerStep DEF NotStored, Stored, LedgerUnchanged, LedgerInv, LedgerTypeOK, SamplerStages
<1>2. SinceInv' /\ PeakInv' /\ EndInv'
  BY DEF NotStored, Stored, LedgerUnchanged, LedgerInv, LedgerTypeOK, SinceInv, PeakInv, EndInv, Total, Booked
<1> QED
  BY <1>1, <1>2 DEF LedgerInv

\* The last look at the accumulator is what makes the interval's new peak complete.
LEMMA EndIntervalKeepsInv ==
  ASSUME LedgerConstants, LedgerInv, EndInterval
  PROVE  LedgerInv'
<1> DEFINE Rest == LedgerTypeOK' /\ AccountsForReservations' /\ \A q \in Reads : AddInv(q)'
<1> USE DEF LedgerUnchanged
<1>1. CASE EndRead
  <2>1. Rest
    BY <1>1, SamplerStep DEF EndRead, LedgerInv, LedgerTypeOK, SamplerStages
  <2>2. SinceInv' /\ PeakInv' /\ EndInv'
    BY <1>1 DEF EndRead, LedgerInv, LedgerTypeOK, SinceInv, PeakInv, EndInv, Total
  <2> QED
    BY <2>1, <2>2 DEF LedgerInv
<1>2. CASE EndHeld
  <2>1. Rest
    BY <1>2, SamplerStep DEF EndHeld, LedgerInv, LedgerTypeOK, SamplerStages
  <2>2. SinceInv' /\ PeakInv' /\ EndInv'
    BY <1>2 DEF EndHeld, LedgerInv, LedgerTypeOK, SinceInv, PeakInv, EndInv, Total
  <2> QED
    BY <2>1, <2>2 DEF LedgerInv
<1>3. CASE EndSet
  <2>1. /\ Bigger(sampler.since, sampler.held) \in 0 .. Capacity
        /\ Bigger(sampler.since, sampler.held) >= sampler.since
    BY DEF LedgerInv, LedgerTypeOK, Bigger, LedgerConstants
  <2>2. Rest
    BY <1>3, <2>1, SamplerStep DEF EndSet, LedgerInv, LedgerTypeOK, SamplerStages
  <2>3. SinceInv' /\ PeakInv' /\ EndInv'
    BY <1>3, <2>1 DEF EndSet, LedgerInv, LedgerTypeOK, SinceInv, PeakInv, EndInv, Total
  <2> QED
    BY <2>2, <2>3 DEF LedgerInv
<1>4. CASE EndCheck
  <2> DEFINE stage == IF sinceSnapshot = sampler.since THEN "idle" ELSE "endRead"
  <2>1. UNCHANGED <<inFlight, intervalPeak, sinceSnapshot, read, reached>> /\ Resume(stage)
    BY <1>4 DEF EndCheck
  <2>2. stage \in SamplerStages
    BY DEF SamplerStages
  <2>3. Rest
    BY <2>1, <2>2, SamplerStep, ZeroIsAFigure DEF Resume, LedgerInv, LedgerTypeOK
  <2>4. sampler'.stage = stage /\ sampler.stage = "endCheck"
    BY <1>4, <2>1 DEF Resume, EndCheck, LedgerInv, LedgerTypeOK
  <2>5. SinceInv' /\ EndInv'
    BY <2>1, <2>4 DEF LedgerInv, SinceInv, EndInv, Total
  <2>6. PeakInv'
    <3>1. CASE sinceSnapshot # sampler.since
      BY <2>4, <3>1 DEF PeakInv
    <3>2. CASE sinceSnapshot = sampler.since
      <4>1. intervalPeak >= sinceSnapshot
        BY <2>4, <3>2 DEF LedgerInv, EndInv
      <4>2. \/ reached <= intervalPeak
            \/ \E q \in Reads : read[q].stage = "since" /\ Total(q) >= reached
        BY <2>4, <4>1 DEF LedgerInv, SinceInv, LedgerTypeOK, LedgerConstants
      <4> QED
        BY <2>1, <4>2 DEF PeakInv, Booked, Total
    <3> QED
      BY <3>1, <3>2
  <2> QED
    BY <2>3, <2>5, <2>6 DEF LedgerInv
<1> QED
  BY <1>1, <1>2, <1>3, <1>4 DEF EndInterval

-----------------------------------------------------------------------------
(* The theorem *)

LEMMA LedgerInvInit ==
  ASSUME LedgerConstants, LedgerInit
  PROVE  LedgerInv
<1> USE DEF LedgerInit
<1>1. Closed \in Reservations
  BY ZeroIsAFigure DEF Closed, Reservations, ReadStages
<1>2. LedgerTypeOK
  BY <1>1, ZeroIsAFigure DEF LedgerTypeOK, SamplerStages, Closed
<1>3. AccountsForReservations
  <2>1. HeldBytes = {}
    BY DEF HeldBytes, Closed
  <2> QED
    BY <2>1, FS_EmptySet DEF AccountsForReservations, TotalHeld
<1>4. \A q \in Reads : AddInv(q)
  BY DEF AddInv, Booked, Closed
<1>5. SinceInv /\ PeakInv /\ EndInv
  BY DEF SinceInv, PeakInv, EndInv
<1> QED
  BY <1>2, <1>3, <1>4, <1>5 DEF LedgerInv

LEMMA LedgerInvStep ==
  ASSUME LedgerConstants, LedgerInv, [LedgerNext]_ledgerVars
  PROVE  LedgerInv'
<1>1. ASSUME NEW r \in Reads,
             \/ Open(r) \/ Reserve(r) \/ Charge(r) \/ Load(r) \/ Swap(r)
             \/ NoteSince(r) \/ NoteInterval(r) \/ Close(r)
      PROVE  LedgerInv'
  BY <1>1, OpenKeepsInv, ReserveKeepsInv, ChargeKeepsInv, LoadKeepsInv, SwapKeepsInv,
     NoteSinceKeepsInv, NoteIntervalKeepsInv, CloseKeepsInv
<1>2. CASE SnapshotHeld \/ SnapshotSince \/ SnapshotPeak
  BY <1>2, SnapshotKeepsInv
<1>3. CASE NotStored \/ Stored
  BY <1>3, SampleKeepsInv
<1>4. CASE EndInterval
  BY <1>4, EndIntervalKeepsInv
<1>5. CASE UNCHANGED ledgerVars
  BY <1>5 DEF ledgerVars, LedgerInv, LedgerTypeOK, AccountsForReservations, TotalHeld, HeldBytes, AddInv, Booked,
     Total, SinceInv, PeakInv, EndInv
<1> QED
  BY <1>1, <1>2, <1>3, <1>4, <1>5 DEF LedgerNext

\* The budget is exactly what the open reservations hold, however the compare-and-sets
\* and closes of any number of reads interleave, and no total reached after the
\* sampler's reading is missing from the next interval's peak (ReadLedger.add, close,
\* snapshot, endInterval).
THEOREM BudgetIsAccountedFor ==
  ASSUME LedgerConstants
  PROVE  LedgerSpec => []LedgerKeepsCount
<1>1. LedgerInit => LedgerInv
  BY LedgerInvInit
<1>2. LedgerInv /\ [LedgerNext]_ledgerVars => LedgerInv'
  BY LedgerInvStep
<1>3. LedgerInv => LedgerKeepsCount
  <2>1. ASSUME LedgerInv PROVE AccountsForReservations
    BY <2>1 DEF LedgerInv
  <2>2. ASSUME LedgerInv PROVE BurstsReachTheNextInterval
    BY <2>2 DEF LedgerInv, PeakInv, Booked, BurstsReachTheNextInterval, Quiet, LedgerTypeOK, LedgerConstants
  <2> QED
    BY <2>1, <2>2 DEF LedgerKeepsCount
<1> QED
  BY <1>1, <1>2, <1>3, PTL DEF LedgerSpec
=============================================================================
