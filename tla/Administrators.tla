--------------------------- MODULE Administrators ---------------------------
(***************************************************************************)
(* Promoting, demoting and deleting accounts: the transactions of          *)
(* UserService.updateGuarded and deleteGuarded over the rows of `users',   *)
(* under READ COMMITTED.  A write that can remove an administrator lists   *)
(* the active administrators, locks their rows one by one in id order,     *)
(* re-evaluating each once it is locked, and only then locks its target.   *)
(* PostgreSQL breaks a cycle of waiting transactions by failing one, and   *)
(* cancels a statement that outlasts statement_timeout.  No transaction is *)
(* run again: the request is answered an error, and the next is a new one. *)
(***************************************************************************)
EXTENDS Naturals, FiniteSets

CONSTANTS Users,        \* ids of the rows
          MaxId,
          Requests,
          None

ASSUME AdministratorsAssumption ==
  /\ MaxId \in Nat /\ Users \subseteq 0 .. MaxId
  /\ None \notin Requests

VARIABLES users,      \* "absent", "user", "admin" or "deleted"
          lock,       \* the transaction that holds the row, or None
          requests

vars == <<users, lock, requests>>

Writes == {"admin", "user", "deleted"}   \* what a request makes of its target

RequestRows == [running : BOOLEAN, write : Writes, target : Users \cup {None}, listed : SUBSET Users,
                other : BOOLEAN, refused : BOOLEAN]

\* Rows, row locks and transactions have their types.
TypeOK ==
  /\ users \in [Users -> {"absent", "user", "admin", "deleted"}]
  /\ lock \in [Users -> Requests \cup {None}]
  /\ requests \in [Requests -> RequestRows]
  /\ \A r \in Requests : requests[r].running => requests[r].target \in Users

Human(u) == users[u] \in {"user", "admin"}
Admins == {u \in Users : users[u] = "admin"}

RemovesAdmin(r) == requests[r].write # "admin"

\* The listed rows this transaction has still to lock.
Todo(r) == {u \in requests[r].listed : lock[u] # r}

\* Mutant: the target is locked before the other administrators.
NextRowTargetFirst(r) ==
  IF requests[r].target \in Todo(r) THEN requests[r].target
  ELSE CHOOSE u \in Todo(r) : \A v \in Todo(r) : u <= v

NextRow(r) == CHOOSE u \in Todo(r) : \A v \in Todo(r) : u <= v

\* The write takes effect with the commit, which releases every row lock.
Release(r) == lock' = [u \in Users |-> IF lock[u] = r THEN None ELSE lock[u]]

Idle == [running |-> FALSE, write |-> "admin", target |-> None, listed |-> {},
         other |-> FALSE, refused |-> FALSE]

\* 409 when refused; 204, 404 and 500 are told apart by the row alone.
Answer(r, refused) == requests' = [requests EXCEPT ![r] = [Idle EXCEPT !.refused = refused]]

-----------------------------------------------------------------------------
Init ==
  /\ users \in [Users -> {"absent", "user", "admin"}]
  /\ Admins # {}
  /\ lock = [u \in Users |-> None]
  /\ requests = [r \in Requests |-> Idle]

Create(u, role) ==
  /\ users[u] = "absent"
  /\ users' = [users EXCEPT ![u] = role]
  /\ UNCHANGED <<lock, requests>>

\* A promotion, or an update that keeps the role ADMIN, lists nobody.
Start(r, write, u) ==
  /\ ~requests[r].running
  /\ requests' = [requests EXCEPT ![r] = [running |-> TRUE, write |-> write, target |-> u,
                    listed |-> IF write = "admin" THEN {} ELSE Admins,
                    other |-> FALSE, refused |-> FALSE]]
  /\ UNCHANGED <<users, lock>>

\* Mutant: the administrators are read without FOR UPDATE.
LockAdminUnlocked(r) ==
  LET u == NextRow(r) IN
  /\ requests[r].running /\ Todo(r) # {}
  /\ requests' = [requests EXCEPT ![r].listed = requests[r].listed \ {u},
                    ![r].other = requests[r].other \/ (users[u] = "admin" /\ u # requests[r].target)]
  /\ UNCHANGED <<users, lock>>

\* The row is locked whatever it has become; it counts if it is still an administrator.
LockAdmin(r) ==
  /\ requests[r].running /\ Todo(r) # {}
  /\ \E u \in Todo(r) :
       /\ u = NextRow(r) /\ lock[u] = None
       /\ lock' = [lock EXCEPT ![u] = r]
       /\ requests' = [requests EXCEPT ![r] = [requests[r] EXCEPT
                         !.other = requests[r].other \/ (users[u] = "admin" /\ u # requests[r].target)]]
  /\ UNCHANGED users

\* Mutant: a refused transaction keeps its row locks.
FinishKeepingLocks(r) ==
  LET u == requests[r].target
      refused == RemovesAdmin(r) /\ users[u] = "admin" /\ ~requests[r].other IN
  /\ requests[r].running /\ Todo(r) = {}
  /\ IF ~Human(u) THEN Answer(r, FALSE) /\ Release(r) /\ UNCHANGED users
     ELSE /\ lock[u] \in {None, r}
          /\ IF refused THEN Answer(r, TRUE) /\ UNCHANGED <<users, lock>>
             ELSE /\ Answer(r, FALSE) /\ Release(r)
                  /\ users' = [users EXCEPT ![u] = requests[r].write]

\* Mutant: the listed rows are counted, the target taken to be one of them.
WouldRemoveLastByCount(r) ==
  /\ RemovesAdmin(r) /\ users[requests[r].target] = "admin"
  /\ Cardinality({u \in requests[r].listed : users[u] = "admin"}) <= 1

WouldRemoveLast(r) ==
  /\ RemovesAdmin(r) /\ users[requests[r].target] = "admin"
  /\ ~requests[r].other

\* The target's row is locked, the verdict taken, the row written, all committed.
Finish(r) ==
  LET u == requests[r].target IN
  /\ requests[r].running /\ Todo(r) = {}
  /\ Release(r)
  /\ \/ ~Human(u) /\ Answer(r, FALSE) /\ UNCHANGED users
     \/ /\ Human(u) /\ lock[u] \in {None, r} /\ WouldRemoveLast(r)
        /\ Answer(r, TRUE) /\ UNCHANGED users
     \/ /\ Human(u) /\ lock[u] \in {None, r} /\ ~WouldRemoveLast(r)
        /\ Answer(r, FALSE)
        /\ users' = [users EXCEPT ![u] = requests[r].write]

-----------------------------------------------------------------------------
(* Waiting for a row, and the deadlock detector *)

WaitsFor(r, q) ==
  /\ requests[r].running /\ q # r
  /\ \/ Todo(r) # {} /\ lock[NextRow(r)] = q
     \/ Todo(r) = {} /\ Human(requests[r].target) /\ lock[requests[r].target] = q

\* Transactions that wait only for each other.
Stuck(S) == S # {} /\ \A r \in S : \E q \in S : WaitsFor(r, q)

\* A statement timeout, a lost connection or the deadlock detector rolls it back.
Abort(r) ==
  /\ requests[r].running
  /\ Release(r) /\ Answer(r, FALSE)
  /\ UNCHANGED users

BreakDeadlock(r) == (\E S \in SUBSET Requests : r \in S /\ Stuck(S)) /\ Abort(r)

Runs(r) == LockAdmin(r) \/ Finish(r) \/ BreakDeadlock(r)

Next ==
  \/ \E u \in Users, role \in {"user", "admin"} : Create(u, role)
  \/ \E r \in Requests, u \in Users, w \in Writes : Start(r, w, u)
  \/ \E r \in Requests : Runs(r) \/ Abort(r)

Spec == Init /\ [][Next]_vars

\* A row lock goes to its waiters in the order they queued: none waits for ever
\* while the row is freed again and again.  Nothing but a deadlock need end in Abort.
FairSpec == Spec /\ \A r \in Requests : SF_vars(Runs(r))

-----------------------------------------------------------------------------
(* Properties *)

\* However demotions, deletions and promotions interleave, somebody can still
\* administer the registry (409 "The last administrator cannot be demoted").
AdministratorRemains == Admins # {}

\* A removal is refused only when every administrator it listed, but its target,
\* has gone: the target may have been promoted after the listing.
RefusalsAreJustified ==
  [][\A r \in Requests :
       requests[r].running /\ requests'[r].refused
       => /\ users[requests[r].target] = "admin"
          /\ \A u \in requests[r].listed : users[u] = "admin" => u = requests[r].target]_vars

\* Removals of accounts that were administrators when they were listed never wait
\* for each other in a circle: only a target promoted in between can close one.
OnlyPromotionsDeadlock ==
  \A S \in SUBSET Requests :
    Stuck(S) => \E r \in S : RemovesAdmin(r) /\ requests[r].target \notin requests[r].listed

\* Every transaction is answered, those the deadlock detector fails included.
EveryRequestEnds == \A r \in Requests : []<>~requests[r].running
=============================================================================
