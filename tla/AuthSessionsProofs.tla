------------------------- MODULE AuthSessionsProofs -------------------------
(***************************************************************************)
(* The safety properties of AuthSessions, for any number of accounts,      *)
(* sessions and requests.  The inductive invariant says of every warrant   *)
(* that its version is not ahead of its account's and that, while the two  *)
(* are equal, what it says of the account holds.                           *)
(***************************************************************************)
EXTENDS AuthSessions, TLAPS

SoundIn(accounts, w) ==
  LET a == accounts[w.user] IN
  /\ w.version <= a.version
  /\ w.version = a.version =>
       /\ w.proof \in Passwords => a.password = w.proof
       /\ w.proof = Sso => a.linked
       /\ a.identity = w.identity

Sound(w) == SoundIn(users, w)

Wields(r) == requests[r].at \in {"claimed", "create", "insert", "refresh", "locked", "expiry", "change", "mail"}

WarrantsSound ==
  /\ \A s \in Sids : sessions[s].state # "unused" => Sound(sessions[s].warrant)
  /\ \A c \in Claims : claims[c].state # "unused" => Sound(claims[c].warrant)
  /\ \A g \in Grants : grants[g].state # "unused" => Sound(grants[g].warrant)
  /\ \A r \in Requests : Wields(r) => Sound(requests[r].warrant)

\* A request names the row its next statement is about.
RequestsFit ==
  \A r \in Requests :
    /\ requests[r].at \in {"refresh", "locked", "expiry", "logout", "deleting"} => requests[r].sid \in Sids
    /\ requests[r].at = "reset" => requests[r].grant \in Grants
    /\ requests[r].at = "change" => requests[r].warrant.proof \in Passwords

\* A logout holds the row it selected, and hands out a token only once.
LogoutsExclude ==
  /\ \A r \in Requests : requests[r].at = "deleting" => sessions[requests[r].sid].state = "live"
  /\ \A r, q \in Requests :
       requests[r].at = "deleting" /\ requests[q].at = "deleting" /\ requests[r].sid = requests[q].sid => r = q
  /\ \A s \in Sids : handedOut[s] <= 1 /\ (handedOut[s] = 1 => sessions[s].state = "gone")

\* A renewal holds its account's row, so the expiry it read is the row's.
RenewalsExclude ==
  /\ \A r \in Requests : requests[r].at \in {"refresh", "locked", "expiry"} =>
       /\ sessions[requests[r].sid].state # "unused"
       /\ sessions[requests[r].sid].warrant.user = requests[r].warrant.user
  /\ \A r \in Requests : requests[r].at = "expiry" => sessions[requests[r].sid].expires <= requests[r].seen
  /\ \A r, q \in Requests :
       /\ requests[r].at \in {"locked", "expiry"} /\ requests[q].at \in {"locked", "expiry"}
       /\ requests[r].warrant.user = requests[q].warrant.user
       => r = q

AuthInv == TypeOK /\ WarrantsSound /\ RequestsFit /\ LogoutsExclude /\ RenewalsExclude

-----------------------------------------------------------------------------
(* Types *)

LEMMA AnyWarrantType == AnyWarrant \in Warrants
<1>1. PICK u \in Users, i \in Identities : TRUE
  BY AuthAssumption
<1> DEFINE w == [user |-> u, version |-> 0, proof |-> Possession, identity |-> i]
<1>2. w \in Warrants /\ w.version = 0 /\ w.proof = Possession
  BY AuthAssumption DEF Warrants, Versions, Proofs
<1> QED
  BY <1>2 DEF AnyWarrant

LEMMA BlankType == Blank \in RequestRows
  BY AnyWarrantType, AuthAssumption DEF Blank, RequestRows, Places, Instants

LEMMA WarrantType ==
  ASSUME TypeOK, NEW u \in Users, NEW proof \in Proofs
  PROVE  /\ Warrant(u, proof) \in Warrants
         /\ Warrant(u, proof).user = u /\ Warrant(u, proof).proof = proof
         /\ Warrant(u, proof).version = users[u].version
         /\ Warrant(u, proof).identity = users[u].identity
<1>1. users[u] \in Accounts
  BY DEF TypeOK
<1> QED
  BY <1>1 DEF Warrant, Warrants, Accounts

\* The fields of a warrant.
LEMMA WarrantFields ==
  ASSUME NEW w \in Warrants
  PROVE  w.user \in Users /\ w.version \in Versions /\ w.proof \in Proofs /\ w.identity \in Identities
  BY DEF Warrants

LEMMA BecomesType ==
  ASSUME TypeOK, NEW r \in Requests, NEW q \in RequestRows, Becomes(r, q)
  PROVE  /\ requests' \in [Requests -> RequestRows]
         /\ requests'[r] = q
         /\ \A t \in Requests \ {r} : requests'[t] = requests[t]
  BY DEF TypeOK, Becomes

LEMMA GoesType ==
  ASSUME TypeOK, NEW r \in Requests, NEW place \in Places, Goes(r, place)
  PROVE  /\ requests' \in [Requests -> RequestRows]
         /\ requests'[r] = [requests[r] EXCEPT !.at = place]
         /\ \A t \in Requests \ {r} : requests'[t] = requests[t]
<1>1. requests[r] \in RequestRows
  BY DEF TypeOK
<1>2. [requests[r] EXCEPT !.at = place] \in RequestRows
  BY <1>1 DEF RequestRows
<1> QED
  BY <1>2, BecomesType DEF Goes

LEMMA StartsType ==
  ASSUME TypeOK, NEW r \in Requests, NEW place \in Places, NEW w \in Warrants, Starts(r, place, w)
  PROVE  /\ requests' \in [Requests -> RequestRows]
         /\ requests'[r] = [requests[r] EXCEPT !.at = place, !.warrant = w]
         /\ \A t \in Requests \ {r} : requests'[t] = requests[t]
<1>1. requests[r] \in RequestRows
  BY DEF TypeOK
<1>2. [requests[r] EXCEPT !.at = place, !.warrant = w] \in RequestRows
  BY <1>1 DEF RequestRows
<1> QED
  BY <1>2, BecomesType DEF Starts

LEMMA EndsType ==
  ASSUME TypeOK, NEW r \in Requests, Ends(r)
  PROVE  /\ requests' \in [Requests -> RequestRows]
         /\ requests'[r].at = "idle"
         /\ \A t \in Requests \ {r} : requests'[t] = requests[t]
  BY BlankType, BecomesType DEF Ends, Blank

LEMMA SetsPasswordType ==
  ASSUME TypeOK, NEW u \in Users, NEW p \in Passwords, SetsPassword(u, p)
  PROVE  users' \in [Users -> Accounts]
<1>1. users[u] \in Accounts
  BY DEF TypeOK
<1>2. users[u].version + 1 \in Versions
  BY <1>1, AuthAssumption DEF Accounts, Versions, SetsPassword
<1>3. [users[u] EXCEPT !.password = p, !.version = users[u].version + 1] \in Accounts
  BY <1>1, <1>2 DEF Accounts
<1> QED
  BY <1>3 DEF TypeOK, SetsPassword

LEMMA TypeInit == Init => TypeOK
<1> SUFFICES ASSUME Init PROVE TypeOK
  OBVIOUS
<1>1. users \in [Users -> Accounts]
  BY AuthAssumption DEF Init, Accounts, Versions
<1>2. requests \in [Requests -> RequestRows]
  BY BlankType DEF Init
<1>3. /\ sessions \in [Sids -> SessionRows] /\ claims \in [Claims -> ClaimRows]
      /\ grants \in [Grants -> GrantRows]
  BY AnyWarrantType, AuthAssumption DEF Init, SessionRows, ClaimRows, GrantRows, Stages, Instants
<1>4. now \in 0 .. MaxTime /\ handedOut \in [Sids -> Nat]
  BY AuthAssumption DEF Init
<1> QED
  BY <1>1, <1>2, <1>3, <1>4 DEF TypeOK

LEMMA TypeStep == TypeOK /\ RequestsFit /\ Next => TypeOK'
<1> SUFFICES ASSUME TypeOK, RequestsFit, Next PROVE TypeOK'
  OBVIOUS
<1>1. ASSUME NEW r \in Requests, NEW u \in Users, Login(r, u) PROVE TypeOK'
  <2>1. requests[r] \in RequestRows
    BY DEF TypeOK
  <2>2. Warrant(u, users[u].password) \in Warrants
    BY <1>1, WarrantType DEF Login, VerifiesPassword, Proofs
  <2>3. requests' \in [Requests -> RequestRows]
    BY <1>1, <2>1, <2>2, BecomesType DEF Login, RequestRows, Places
  <2> QED
    BY <1>1, <2>3 DEF Login, TypeOK
<1>2. ASSUME NEW r \in Requests, NEW c \in Claims, TakeClaim(r, c) PROVE TypeOK'
  <2>1. requests[r] \in RequestRows
    BY DEF TypeOK
  <2>2. claims[c] \in ClaimRows
    BY DEF TypeOK
  <2>3. requests' \in [Requests -> RequestRows]
    BY <1>2, <2>1, <2>2, BecomesType DEF TakeClaim, RequestRows, ClaimRows, Places
  <2>4. claims' \in [Claims -> ClaimRows]
    BY <1>2, <2>2 DEF TakeClaim, ClaimRows, Stages, TypeOK
  <2> QED
    BY <1>2, <2>3, <2>4 DEF TakeClaim, TypeOK
<1>3. ASSUME NEW r \in Requests, RereadAccount(r) PROVE TypeOK'
  <2>1. requests[r].warrant \in Warrants
    BY DEF TypeOK, RequestRows
  <2>2. Warrant(requests[r].warrant.user, requests[r].warrant.proof) \in Warrants
    BY <2>1, WarrantFields, WarrantType
  <2>3. requests' \in [Requests -> RequestRows]
    BY <1>3, <2>2, StartsType, EndsType DEF RereadAccount, Places
  <2> QED
    BY <1>3, <2>3 DEF RereadAccount, TypeOK
<1>4. ASSUME NEW r \in Requests, PrepareSession(r) PROVE TypeOK'
  <2>1. requests[r] \in RequestRows
    BY DEF TypeOK
  <2>2. now + Lifetime \in Instants
    BY AuthAssumption DEF TypeOK, Instants
  <2>3. requests' \in [Requests -> RequestRows]
    BY <1>4, <2>1, <2>2, BecomesType DEF PrepareSession, RequestRows, Places
  <2>4. \A s \in Sids : sessions[s] \in SessionRows /\ [sessions[s] EXCEPT !.state = "gone"] \in SessionRows
    BY DEF TypeOK, SessionRows, Stages
  <2>5. sessions' \in [Sids -> SessionRows]
    BY <1>4, <2>4 DEF PrepareSession
  <2> QED
    BY <1>4, <2>3, <2>5 DEF PrepareSession, TypeOK
<1>5. ASSUME NEW r \in Requests, NEW s \in Sids, CreateSession(r, s) PROVE TypeOK'
  <2>1. requests[r] \in RequestRows
    BY DEF TypeOK
  <2>2. requests' \in [Requests -> RequestRows]
    BY <1>5, EndsType DEF CreateSession
  <2>3. [state |-> "live", warrant |-> requests[r].warrant, expires |-> requests[r].expires,
          idToken |-> requests[r].idToken] \in SessionRows
    BY <2>1 DEF RequestRows, SessionRows, Stages
  <2>4. sessions' \in [Sids -> SessionRows]
    BY <1>5, <2>3 DEF CreateSession, TypeOK
  <2> QED
    BY <1>5, <2>2, <2>4 DEF CreateSession, TypeOK
<1>6. ASSUME NEW r \in Requests, NEW s \in Sids, Refresh(r, s) PROVE TypeOK'
  <2>1. requests[r] \in RequestRows
    BY DEF TypeOK
  <2>2. sessions[s].warrant.user \in Users
    BY WarrantFields DEF TypeOK, SessionRows
  <2>3. Warrant(sessions[s].warrant.user, Possession) \in Warrants
    BY <2>2, WarrantType DEF Proofs
  <2>4. now + Lifetime \in Instants
    BY AuthAssumption DEF TypeOK, Instants
  <2>5. requests' \in [Requests -> RequestRows]
    BY <1>6, <2>1, <2>3, <2>4, BecomesType DEF Refresh, RequestRows, Places
  <2> QED
    BY <1>6, <2>5 DEF Refresh, TypeOK
<1>7. ASSUME NEW r \in Requests, LockAccount(r) PROVE TypeOK'
  <2>1. requests' \in [Requests -> RequestRows]
    BY <1>7, GoesType, EndsType DEF LockAccount, Places
  <2> QED
    BY <1>7, <2>1 DEF LockAccount, TypeOK
<1>8. ASSUME NEW r \in Requests, ReadExpiry(r) PROVE TypeOK'
  <2>1. requests[r] \in RequestRows /\ sessions[requests[r].sid] \in SessionRows
    BY <1>8 DEF ReadExpiry, RequestsFit, TypeOK
  <2>2. [requests[r] EXCEPT !.at = "expiry", !.seen = sessions[requests[r].sid].expires] \in RequestRows
    BY <2>1 DEF RequestRows, SessionRows, Places
  <2>3. requests' \in [Requests -> RequestRows]
    BY <1>8, <2>2, BecomesType, EndsType DEF ReadExpiry
  <2> QED
    BY <1>8, <2>3 DEF ReadExpiry, TypeOK
<1>9. ASSUME NEW r \in Requests, RenewSession(r) PROVE TypeOK'
  <2>1. requests[r] \in RequestRows
    BY DEF TypeOK
  <2>2. requests' \in [Requests -> RequestRows]
    BY <1>9, EndsType DEF RenewSession
  <2>3. ASSUME requests[r].sid \in Sids
         PROVE  [sessions[requests[r].sid] EXCEPT !.expires = Later(requests[r].seen, requests[r].expires),
                   !.warrant.identity = requests[r].warrant.identity] \in SessionRows
    <3>1. sessions[requests[r].sid] \in SessionRows
      BY <2>3 DEF TypeOK
    <3>2. Later(requests[r].seen, requests[r].expires) \in Instants
      BY <2>1 DEF RequestRows, Later
    <3>3. [sessions[requests[r].sid].warrant EXCEPT !.identity = requests[r].warrant.identity] \in Warrants
      BY <2>1, <3>1 DEF RequestRows, SessionRows, Warrants
    <3> QED
      BY <3>1, <3>2, <3>3 DEF SessionRows
  <2>4. sessions' \in [Sids -> SessionRows]
    BY <1>9, <2>3 DEF RenewSession, TypeOK
  <2> QED
    BY <1>9, <2>2, <2>4 DEF RenewSession, TypeOK
<1>10. ASSUME NEW r \in Requests, NEW s \in Sids, Logout(r, s) PROVE TypeOK'
  <2>1. requests[r] \in RequestRows
    BY DEF TypeOK
  <2>2. requests' \in [Requests -> RequestRows]
    BY <1>10, <2>1, BecomesType DEF Logout, RequestRows, Places
  <2> QED
    BY <1>10, <2>2 DEF Logout, TypeOK
<1>11. ASSUME NEW r \in Requests, SelectSession(r) PROVE TypeOK'
  <2>1. requests[r] \in RequestRows /\ sessions[requests[r].sid] \in SessionRows
    BY <1>11 DEF SelectSession, RequestsFit, TypeOK
  <2>2. [requests[r] EXCEPT !.at = "deleting", !.idToken = sessions[requests[r].sid].idToken] \in RequestRows
    BY <2>1 DEF RequestRows, SessionRows, Places
  <2>3. requests' \in [Requests -> RequestRows]
    BY <1>11, <2>2, BecomesType, EndsType DEF SelectSession
  <2> QED
    BY <1>11, <2>3 DEF SelectSession, TypeOK
<1>12. ASSUME NEW r \in Requests, DeleteSession(r) PROVE TypeOK'
  <2>1. requests' \in [Requests -> RequestRows]
    BY <1>12, EndsType DEF DeleteSession
  <2>2. \A s \in Sids : [sessions[s] EXCEPT !.state = "gone"] \in SessionRows
    BY DEF TypeOK, SessionRows, Stages
  <2>3. sessions' \in [Sids -> SessionRows]
    BY <1>12, <2>2 DEF DeleteSession, TypeOK
  <2>4. \A s \in Sids : handedOut[s] \in Nat /\ handedOut[s] + 1 \in Nat
    BY DEF TypeOK
  <2>5. handedOut' \in [Sids -> Nat]
    BY <1>12, <2>4 DEF DeleteSession, TypeOK
  <2> QED
    BY <1>12, <2>1, <2>3, <2>5 DEF DeleteSession, TypeOK
<1>13. ASSUME NEW r \in Requests, NEW s \in Sids, ProvePassword(r, s) PROVE TypeOK'
  <2>1. sessions[s].warrant.user \in Users
    BY WarrantFields DEF TypeOK, SessionRows
  <2>2. Warrant(sessions[s].warrant.user, users[sessions[s].warrant.user].password) \in Warrants
    BY <1>13, <2>1, WarrantType DEF ProvePassword, VerifiesPassword, Proofs
  <2>3. requests' \in [Requests -> RequestRows]
    BY <1>13, <2>2, StartsType DEF ProvePassword, Places
  <2> QED
    BY <1>13, <2>3 DEF ProvePassword, TypeOK
<1>14. ASSUME NEW r \in Requests, NEW u \in Users, RequestReset(r, u) PROVE TypeOK'
  <2>1. Warrant(u, Possession) \in Warrants
    BY WarrantType DEF Proofs
  <2>2. requests' \in [Requests -> RequestRows]
    BY <1>14, <2>1, StartsType DEF RequestReset, Places
  <2> QED
    BY <1>14, <2>2 DEF RequestReset, TypeOK
<1>15. ASSUME NEW r \in Requests, NEW g \in Grants, IssueGrant(r, g) PROVE TypeOK'
  <2>1. requests[r] \in RequestRows
    BY DEF TypeOK
  <2>2. requests' \in [Requests -> RequestRows]
    BY <1>15, EndsType DEF IssueGrant
  <2>3. [state |-> "live", warrant |-> requests[r].warrant, expires |-> now + Lifetime] \in GrantRows
    BY <2>1, AuthAssumption DEF TypeOK, RequestRows, GrantRows, Stages, Instants
  <2>4. WithoutExpired \in [Grants -> GrantRows]
    BY DEF WithoutExpired, TypeOK, GrantRows, Stages
  <2>5. grants' \in [Grants -> GrantRows]
    BY <1>15, <2>3, <2>4 DEF IssueGrant
  <2> QED
    BY <1>15, <2>2, <2>5 DEF IssueGrant, TypeOK
<1>16. ASSUME NEW r \in Requests, NEW g \in Grants, CheckGrant(r, g) PROVE TypeOK'
  <2>1. requests[r] \in RequestRows
    BY DEF TypeOK
  <2>2. requests' \in [Requests -> RequestRows]
    BY <1>16, <2>1, BecomesType DEF CheckGrant, RequestRows, Places
  <2> QED
    BY <1>16, <2>2 DEF CheckGrant, TypeOK
<1>17. ASSUME NEW r \in Requests, NEW p \in Passwords, ChangePassword(r, p) PROVE TypeOK'
  <2>1. requests[r].warrant \in Warrants /\ requests[r].warrant.user \in Users
    BY WarrantFields DEF RequestRows, TypeOK
  <2>2. requests' \in [Requests -> RequestRows]
    BY <1>17, EndsType DEF ChangePassword
  <2>3. users' \in [Users -> Accounts]
    BY <1>17, <2>1, SetsPasswordType DEF ChangePassword, TypeOK
  <2> QED
    BY <1>17, <2>2, <2>3 DEF ChangePassword, TypeOK
<1>18. ASSUME NEW r \in Requests, NEW p \in Passwords, CompleteReset(r, p) PROVE TypeOK'
  <2>1. requests' \in [Requests -> RequestRows]
    BY <1>18, EndsType DEF CompleteReset
  <2>2. \A h \in Grants : grants[h] \in GrantRows /\ [grants[h] EXCEPT !.state = "gone"] \in GrantRows
    BY DEF TypeOK, GrantRows, Stages
  <2>3. grants' \in [Grants -> GrantRows]
    BY <1>18, <2>2 DEF CompleteReset, TypeOK
  <2>4. grants[requests[r].grant].warrant.user \in Users
    BY <1>18, WarrantFields DEF CompleteReset, RequestsFit, TypeOK, GrantRows
  <2>5. users' \in [Users -> Accounts]
    BY <1>18, <2>4, SetsPasswordType DEF CompleteReset, TypeOK
  <2> QED
    BY <1>18, <2>1, <2>3, <2>5 DEF CompleteReset, TypeOK
<1>19. ASSUME NEW c \in Claims, NEW u \in Users, LoginChallenged(c, u) PROVE TypeOK'
  <2>1. Warrant(u, users[u].password) \in Warrants
    BY <1>19, WarrantType DEF LoginChallenged, VerifiesPassword, Proofs
  <2>2. claims' \in [Claims -> ClaimRows]
    BY <1>19, <2>1 DEF LoginChallenged, Opens, ClaimRows, Stages, TypeOK
  <2> QED
    BY <1>19, <2>2 DEF LoginChallenged, TypeOK
<1>20. ASSUME NEW c \in Claims, NEW u \in Users, SsoCallback(c, u) PROVE TypeOK'
  <2>1. Warrant(u, Sso) \in Warrants
    BY WarrantType DEF Proofs
  <2>2. claims' \in [Claims -> ClaimRows]
    BY <1>20, <2>1 DEF SsoCallback, Opens, ClaimRows, Stages, TypeOK
  <2>3. users' \in [Users -> Accounts]
    BY <1>20 DEF SsoCallback, Accounts, TypeOK
  <2> QED
    BY <1>20, <2>2, <2>3 DEF SsoCallback, TypeOK
<1>21. ASSUME NEW u \in Users, NEW p \in Passwords, AdminSetsPassword(u, p) PROVE TypeOK'
  BY <1>21, SetsPasswordType DEF AdminSetsPassword, TypeOK
<1>22. ASSUME NEW u \in Users, NEW i \in Identities, UpdateIdentity(u, i) PROVE TypeOK'
  <2>1. users[u] \in Accounts
    BY DEF TypeOK
  <2>2. users[u].version + 1 \in Versions
    BY <1>22, <2>1, AuthAssumption DEF UpdateIdentity, Accounts, Versions
  <2>3. [users[u] EXCEPT !.identity = i,
           !.version = IF users[u].identity # i THEN users[u].version + 1 ELSE users[u].version] \in Accounts
    BY <2>1, <2>2 DEF Accounts
  <2> QED
    BY <1>22, <2>3 DEF UpdateIdentity, TypeOK
<1>23. ASSUME NEW u \in Users, DeleteUser(u) PROVE TypeOK'
  <2>1. users[u] \in Accounts
    BY DEF TypeOK
  <2>2. users[u].version \in Versions
    BY <1>23, <2>1, AuthAssumption DEF DeleteUser, Accounts, Versions
  <2>3. [users[u] EXCEPT !.live = FALSE] \in Accounts
    BY <2>1, <2>2 DEF Accounts
  <2> QED
    BY <1>23, <2>3 DEF DeleteUser, TypeOK
<1>24. ASSUME NEW u \in Users, UnlinkSso(u) PROVE TypeOK'
  <2>1. users[u] \in Accounts
    BY DEF TypeOK
  <2>2. users[u].version + 1 \in Versions
    BY <1>24, <2>1, AuthAssumption DEF UnlinkSso, Accounts, Versions
  <2>3. [users[u] EXCEPT !.linked = FALSE, !.version = users[u].version + 1] \in Accounts
    BY <2>1, <2>2 DEF Accounts
  <2> QED
    BY <1>24, <2>3 DEF UnlinkSso, TypeOK
<1>25. ASSUME NEW c \in Claims, ClaimExpires(c) PROVE TypeOK'
  <2>1. \A d \in Claims : [claims[d] EXCEPT !.state = "gone"] \in ClaimRows
    BY DEF TypeOK, ClaimRows, Stages
  <2> QED
    BY <1>25, <2>1 DEF ClaimExpires, TypeOK
<1>26. ASSUME NEW g \in Grants, RevokeGrant(g) PROVE TypeOK'
  <2>1. \A h \in Grants : [grants[h] EXCEPT !.state = "gone"] \in GrantRows
    BY DEF TypeOK, GrantRows, Stages
  <2> QED
    BY <1>26, <2>1 DEF RevokeGrant, TypeOK
<1>27. ASSUME Tick PROVE TypeOK'
  BY <1>27, AuthAssumption DEF Tick, TypeOK
<1> QED
  BY <1>1, <1>2, <1>3, <1>4, <1>5, <1>6, <1>7, <1>8, <1>9, <1>10, <1>11, <1>12, <1>13,
     <1>14, <1>15, <1>16, <1>17, <1>18, <1>19, <1>20, <1>21, <1>22, <1>23, <1>24, <1>25, <1>26, <1>27
     DEF Next, SignsIn, Renews, LogsOut, ChangesPassword, AccountChanges, Elapses

-----------------------------------------------------------------------------
(* Which steps change which variable *)

Acts(r) == SignsIn(r) \/ Renews(r) \/ LogsOut(r) \/ ChangesPassword(r)

LEMMA RequestsChange ==
  ASSUME TypeOK, Next
  PROVE  \/ requests' = requests
         \/ \E r \in Requests : Acts(r) /\ \A t \in Requests \ {r} : requests'[t] = requests[t]
<1>1. ASSUME NEW r \in Requests, NEW q, Becomes(r, q)
      PROVE  \A t \in Requests \ {r} : requests'[t] = requests[t]
  BY <1>1 DEF Becomes, TypeOK
<1>2. ASSUME NEW r \in Requests, SignsIn(r) PROVE \E q : Becomes(r, q)
  BY <1>2 DEF SignsIn, Login, TakeClaim, RereadAccount, PrepareSession, CreateSession, Starts, Goes, Ends
<1>3. ASSUME NEW r \in Requests, Renews(r) PROVE \E q : Becomes(r, q)
  BY <1>3 DEF Renews, Refresh, LockAccount, ReadExpiry, RenewSession, Goes, Ends
<1>4. ASSUME NEW r \in Requests, LogsOut(r) PROVE \E q : Becomes(r, q)
  BY <1>4 DEF LogsOut, Logout, SelectSession, DeleteSession, Goes, Ends
<1>5. ASSUME NEW r \in Requests, ChangesPassword(r) PROVE \E q : Becomes(r, q)
  BY <1>5 DEF ChangesPassword, ProvePassword, RequestReset, IssueGrant, CheckGrant, ChangePassword, CompleteReset,
              Starts, Goes, Ends
<1>6. ASSUME AccountChanges \/ Elapses PROVE requests' = requests
  BY <1>6 DEF AccountChanges, Elapses, LoginChallenged, SsoCallback, AdminSetsPassword, UpdateIdentity, DeleteUser, UnlinkSso,
         ClaimExpires, RevokeGrant, Tick
<1> QED
  BY <1>1, <1>2, <1>3, <1>4, <1>5, <1>6 DEF Next, Acts

LEMMA SessionsChange ==
  ASSUME Next
  PROVE  \/ sessions' = sessions
         \/ \E r \in Requests :
              \/ PrepareSession(r) \/ RenewSession(r) \/ DeleteSession(r)
              \/ \E s \in Sids : CreateSession(r, s)
  BY DEF Next, SignsIn, Renews, LogsOut, ChangesPassword, AccountChanges, Elapses,
         Login, TakeClaim, RereadAccount, Refresh, LockAccount, ReadExpiry, Logout, SelectSession,
         ProvePassword, RequestReset, IssueGrant, CheckGrant, ChangePassword, CompleteReset,
         LoginChallenged, SsoCallback, AdminSetsPassword, UpdateIdentity, DeleteUser, UnlinkSso,
         ClaimExpires, RevokeGrant, Tick

LEMMA ClaimsChange ==
  ASSUME Next
  PROVE  \/ claims' = claims
         \/ \E c \in Claims :
              \/ ClaimExpires(c)
              \/ \E r \in Requests : TakeClaim(r, c)
              \/ \E u \in Users : LoginChallenged(c, u) \/ SsoCallback(c, u)
  BY DEF Next, SignsIn, Renews, LogsOut, ChangesPassword, AccountChanges, Elapses,
         Login, RereadAccount, PrepareSession, CreateSession, Refresh, LockAccount, ReadExpiry, RenewSession,
         Logout, SelectSession, DeleteSession, ProvePassword, RequestReset, IssueGrant, CheckGrant,
         ChangePassword, CompleteReset, AdminSetsPassword, UpdateIdentity, DeleteUser, UnlinkSso, RevokeGrant, Tick

LEMMA GrantsChange ==
  ASSUME Next
  PROVE  \/ grants' = grants
         \/ \E g \in Grants : RevokeGrant(g) \/ \E r \in Requests : IssueGrant(r, g)
         \/ \E r \in Requests, p \in Passwords : CompleteReset(r, p)
  BY DEF Next, SignsIn, Renews, LogsOut, ChangesPassword, AccountChanges, Elapses,
         Login, TakeClaim, RereadAccount, PrepareSession, CreateSession, Refresh, LockAccount, ReadExpiry,
         RenewSession, Logout, SelectSession, DeleteSession, ProvePassword, RequestReset, CheckGrant,
         ChangePassword, LoginChallenged, SsoCallback, AdminSetsPassword, UpdateIdentity, DeleteUser, UnlinkSso,
         ClaimExpires, Tick

LEMMA AccountsChange ==
  ASSUME Next
  PROVE  \/ users' = users
         \/ \E u \in Users :
              \/ \E c \in Claims : SsoCallback(c, u)
              \/ \E p \in Passwords : AdminSetsPassword(u, p)
              \/ \E i \in Identities : UpdateIdentity(u, i)
              \/ DeleteUser(u) \/ UnlinkSso(u)
         \/ \E r \in Requests, p \in Passwords : ChangePassword(r, p) \/ CompleteReset(r, p)
<1>1. ASSUME NEW r \in Requests, SignsIn(r) \/ Renews(r) \/ LogsOut(r) PROVE users' = users
  BY <1>1 DEF SignsIn, Renews, LogsOut, Login, TakeClaim, RereadAccount, PrepareSession, CreateSession,
              Refresh, LockAccount, ReadExpiry, RenewSession, Logout, SelectSession, DeleteSession
<1>2. ASSUME NEW r \in Requests, ChangesPassword(r)
      PROVE  users' = users \/ \E p \in Passwords : ChangePassword(r, p) \/ CompleteReset(r, p)
  BY <1>2 DEF ChangesPassword, ProvePassword, RequestReset, IssueGrant, CheckGrant
<1>3. ASSUME Elapses PROVE users' = users
  BY <1>3 DEF Elapses, ClaimExpires, RevokeGrant, Tick
<1>4. ASSUME NEW c \in Claims, NEW u \in Users, LoginChallenged(c, u) PROVE users' = users
  BY <1>4 DEF LoginChallenged
<1>5. ASSUME NEW u \in Users, NEW c \in Claims, LoginChallenged(c, u) \/ SsoCallback(c, u)
      PROVE  users' = users \/ SsoCallback(c, u)
  BY <1>4, <1>5
<1>6. CASE \E r \in Requests : SignsIn(r) \/ Renews(r) \/ LogsOut(r) \/ ChangesPassword(r)
  BY <1>1, <1>2, <1>6
<1>7. CASE AccountChanges
  <2>1. PICK u \in Users :
             \/ \E c \in Claims : LoginChallenged(c, u) \/ SsoCallback(c, u)
             \/ \E p \in Passwords : AdminSetsPassword(u, p)
             \/ \E i \in Identities : UpdateIdentity(u, i)
             \/ DeleteUser(u) \/ UnlinkSso(u)
    BY <1>7 DEF AccountChanges
  <2>2. CASE \E c \in Claims : LoginChallenged(c, u) \/ SsoCallback(c, u)
    <3>1. PICK c \in Claims : LoginChallenged(c, u) \/ SsoCallback(c, u)
      BY <2>2
    <3>2. users' = users \/ SsoCallback(c, u)
      BY <1>5, <3>1
    <3> QED
      BY <3>2
  <2> QED
    BY <2>1, <2>2
<1> QED
  BY <1>3, <1>6, <1>7 DEF Next

-----------------------------------------------------------------------------
(* An account's version tells its states apart *)

\* The version never goes back, and stands still only while nothing a warrant
\* relies on is lost.
Advances(u) ==
  /\ users'[u].version >= users[u].version
  /\ users'[u].live => users[u].live
  /\ users'[u].version = users[u].version =>
       /\ users'[u].password = users[u].password /\ users'[u].identity = users[u].identity
       /\ users[u].linked => users'[u].linked

LEMMA SetsPasswordAdvances ==
  ASSUME TypeOK, NEW v \in Users, NEW p \in Passwords, SetsPassword(v, p)
  PROVE  \A u \in Users : Advances(u)
<1> SUFFICES ASSUME NEW u \in Users PROVE Advances(u)
  OBVIOUS
<1>1. users[u] \in Accounts /\ users[u].version \in Nat
  BY AuthAssumption DEF TypeOK, Accounts, Versions
<1> QED
  BY <1>1 DEF TypeOK, Advances, SetsPassword, Accounts

LEMMA EveryStepAdvances ==
  ASSUME TypeOK, RequestsFit, Next
  PROVE  \A u \in Users : Advances(u)
<1> SUFFICES ASSUME NEW u \in Users PROVE Advances(u)
  OBVIOUS
<1>1. users[u] \in Accounts /\ users[u].version \in Nat
  BY AuthAssumption DEF TypeOK, Accounts, Versions
<1>2. CASE users' = users
  BY <1>1, <1>2 DEF Advances
<1>3. ASSUME NEW v \in Users, NEW c \in Claims, SsoCallback(c, v) PROVE Advances(u)
  BY <1>1, <1>3 DEF TypeOK, Advances, SsoCallback, Accounts
<1>4. ASSUME NEW v \in Users, NEW p \in Passwords, AdminSetsPassword(v, p) PROVE Advances(u)
  BY <1>4, SetsPasswordAdvances DEF AdminSetsPassword
<1>5. ASSUME NEW v \in Users, NEW i \in Identities, UpdateIdentity(v, i) PROVE Advances(u)
  BY <1>1, <1>5 DEF TypeOK, Advances, UpdateIdentity, Accounts
<1>6. ASSUME NEW v \in Users, DeleteUser(v) PROVE Advances(u)
  BY <1>1, <1>6 DEF TypeOK, Advances, DeleteUser, Accounts
<1>7. ASSUME NEW v \in Users, UnlinkSso(v) PROVE Advances(u)
  BY <1>1, <1>7 DEF TypeOK, Advances, UnlinkSso, Accounts
<1>8. ASSUME NEW r \in Requests, NEW p \in Passwords, ChangePassword(r, p) PROVE Advances(u)
  <2>1. requests[r].warrant.user \in Users
    BY WarrantFields DEF TypeOK, RequestRows
  <2> QED
    BY <1>2, <1>8, <2>1, SetsPasswordAdvances DEF ChangePassword
<1>9. ASSUME NEW r \in Requests, NEW p \in Passwords, CompleteReset(r, p) PROVE Advances(u)
  <2>1. grants[requests[r].grant].warrant.user \in Users
    BY <1>9, WarrantFields DEF CompleteReset, RequestsFit, TypeOK, GrantRows
  <2> QED
    BY <1>2, <1>9, <2>1, SetsPasswordAdvances DEF CompleteReset
<1> QED
  BY <1>2, <1>3, <1>4, <1>5, <1>6, <1>7, <1>8, <1>9, AccountsChange

\* What was sound stays sound.
LEMMA SoundStays ==
  ASSUME TypeOK, TypeOK', \A u \in Users : Advances(u), NEW w \in Warrants, SoundIn(users, w)
  PROVE  SoundIn(users', w)
<1>1. w.user \in Users /\ w.version \in Nat /\ users[w.user].version \in Nat /\ users'[w.user].version \in Nat
  BY AuthAssumption DEF TypeOK, Warrants, Accounts, Versions
<1>2. Advances(w.user)
  BY <1>1
<1> QED
  BY <1>1, <1>2 DEF SoundIn, Advances

\* A warrant made of the account as it is now is sound.
LEMMA FreshSound ==
  ASSUME TypeOK, NEW u \in Users, NEW proof \in Proofs,
         proof \in Passwords => users[u].password = proof, proof = Sso => users[u].linked
  PROVE  Sound(Warrant(u, proof))
<1>1. users[u].version \in Nat
  BY AuthAssumption DEF TypeOK, Accounts, Versions
<1> QED
  BY <1>1, WarrantType DEF Sound, SoundIn

-----------------------------------------------------------------------------
(* The warrants *)

LEMMA SessionWarrants ==
  ASSUME AuthInv, Next, NEW s \in Sids, sessions'[s].state # "unused"
  PROVE  Sound(sessions'[s].warrant)
<1> USE DEF AuthInv
<1>1. sessions[s] \in SessionRows
  BY DEF TypeOK
<1>2. CASE sessions' = sessions
  BY <1>2 DEF WarrantsSound
<1>3. ASSUME NEW r \in Requests, PrepareSession(r) PROVE Sound(sessions'[s].warrant)
  BY <1>1, <1>3 DEF PrepareSession, SessionRows, WarrantsSound
<1>4. ASSUME NEW r \in Requests, DeleteSession(r) PROVE Sound(sessions'[s].warrant)
  BY <1>1, <1>4 DEF DeleteSession, SessionRows, WarrantsSound, LogoutsExclude, TypeOK
<1>5. ASSUME NEW r \in Requests, NEW t \in Sids, CreateSession(r, t) PROVE Sound(sessions'[s].warrant)
  <2>1. Sound(requests[r].warrant)
    BY <1>5 DEF CreateSession, WarrantsSound, Wields
  <2> QED
    BY <1>5, <2>1 DEF CreateSession, WarrantsSound, TypeOK
<1>6. ASSUME NEW r \in Requests, RenewSession(r) PROVE Sound(sessions'[s].warrant)
  <2> DEFINE q == requests[r]
             w == sessions[q.sid].warrant
  <2>1. q.sid \in Sids /\ Sound(q.warrant)
    BY <1>6 DEF RenewSession, RequestsFit, WarrantsSound, Wields
  <2>2. CASE Renewable(q.sid, q.warrant)
    <3>1. sessions' = [sessions EXCEPT ![q.sid] = [sessions[q.sid] EXCEPT
                         !.expires = Later(q.seen, q.expires), !.warrant.identity = q.warrant.identity]]
      BY <1>6, <2>2 DEF RenewSession
    <3>2. CASE s # q.sid
      BY <3>1, <3>2 DEF WarrantsSound, TypeOK
    <3>3. CASE s = q.sid
      <4>1. w \in Warrants /\ Sound(w) /\ w.user = q.warrant.user /\ w.version = q.warrant.version
        BY <1>1, <2>2, <3>3 DEF Renewable, WarrantsSound, SessionRows
      <4>2. sessions'[s].warrant = [w EXCEPT !.identity = q.warrant.identity]
        BY <1>1, <2>1, <3>1, <3>3 DEF SessionRows, TypeOK
      <4> QED
        BY <2>1, <4>1, <4>2 DEF Sound, SoundIn, Warrants
    <3> QED
      BY <3>2, <3>3
  <2> QED
    BY <1>2, <1>6, <2>2 DEF RenewSession
<1> QED
  BY <1>2, <1>3, <1>4, <1>5, <1>6, SessionsChange

LEMMA GrantWarrants ==
  ASSUME AuthInv, Next, NEW g \in Grants, grants'[g].state # "unused"
  PROVE  Sound(grants'[g].warrant)
<1> USE DEF AuthInv
<1>1. grants[g] \in GrantRows
  BY DEF TypeOK
<1>2. CASE grants' = grants
  BY <1>2 DEF WarrantsSound
<1>3. ASSUME NEW h \in Grants, RevokeGrant(h) PROVE Sound(grants'[g].warrant)
  BY <1>1, <1>3 DEF RevokeGrant, GrantRows, WarrantsSound, TypeOK
<1>4. ASSUME NEW h \in Grants, NEW r \in Requests, IssueGrant(r, h) PROVE Sound(grants'[g].warrant)
  <2>1. Sound(requests[r].warrant)
    BY <1>4 DEF IssueGrant, WarrantsSound, Wields
  <2>2. WithoutExpired[g].state # "unused" => Sound(WithoutExpired[g].warrant)
    BY <1>1 DEF WithoutExpired, WarrantsSound, GrantRows
  <2>3. WithoutExpired \in [Grants -> GrantRows]
    BY DEF WithoutExpired, TypeOK, GrantRows, Stages
  <2> QED
    BY <1>4, <2>1, <2>2, <2>3 DEF IssueGrant
<1>5. ASSUME NEW r \in Requests, NEW p \in Passwords, CompleteReset(r, p) PROVE Sound(grants'[g].warrant)
  BY <1>1, <1>5 DEF CompleteReset, GrantRows, WarrantsSound
<1> QED
  BY <1>2, <1>3, <1>4, <1>5, GrantsChange

LEMMA ClaimWarrants ==
  ASSUME AuthInv, TypeOK', Next, NEW c \in Claims, claims'[c].state # "unused"
  PROVE  SoundIn(users', claims'[c].warrant)
<1> USE DEF AuthInv
<1>1. claims[c] \in ClaimRows /\ claims'[c] \in ClaimRows
  BY DEF TypeOK
<1>2. \A u \in Users : Advances(u)
  BY EveryStepAdvances
<1>3. claims'[c].warrant \in Warrants
  BY <1>1 DEF ClaimRows
<1>4. SUFFICES ASSUME ~Sound(claims'[c].warrant) PROVE SoundIn(users', claims'[c].warrant)
  BY <1>2, <1>3, SoundStays DEF Sound
<1>5. claims' # claims
  BY <1>4 DEF WarrantsSound
<1>6. ASSUME NEW d \in Claims, ClaimExpires(d) PROVE FALSE
  BY <1>1, <1>4, <1>6 DEF ClaimExpires, ClaimRows, WarrantsSound, TypeOK
<1>7. ASSUME NEW d \in Claims, NEW r \in Requests, TakeClaim(r, d) PROVE FALSE
  BY <1>1, <1>4, <1>7 DEF TakeClaim, ClaimRows, WarrantsSound, TypeOK
<1>8. ASSUME NEW d \in Claims, NEW u \in Users, LoginChallenged(d, u) PROVE FALSE
  <2>1. Sound(Warrant(u, users[u].password))
    BY <1>8, FreshSound, AuthAssumption DEF LoginChallenged, VerifiesPassword, Proofs
  <2> QED
    BY <1>4, <1>8, <2>1 DEF LoginChallenged, Opens, WarrantsSound, TypeOK
<1>9. ASSUME NEW d \in Claims, NEW u \in Users, SsoCallback(d, u) PROVE SoundIn(users', claims'[c].warrant)
  <2>1. users'[u].linked /\ users'[u].version = users[u].version /\ users'[u].identity = users[u].identity
    BY <1>9 DEF SsoCallback, TypeOK, Accounts
  <2>2. users[u].version \in Nat
    BY AuthAssumption DEF TypeOK, Accounts, Versions
  <2>3. SoundIn(users', Warrant(u, Sso))
    BY <2>1, <2>2, AuthAssumption DEF Warrant, SoundIn
  <2>4. claims'[c].warrant = Warrant(u, Sso)
    BY <1>4, <1>9 DEF SsoCallback, Opens, WarrantsSound, TypeOK
  <2> QED
    BY <2>3, <2>4
<1> QED
  BY <1>5, <1>6, <1>7, <1>8, <1>9, ClaimsChange

LEMMA RequestWarrants ==
  ASSUME AuthInv, TypeOK', Next, NEW t \in Requests, Wields(t)'
  PROVE  Sound(requests'[t].warrant)
<1> USE DEF AuthInv
<1>1. requests[t] \in RequestRows /\ requests[t].warrant \in Warrants
  BY DEF TypeOK, RequestRows
<1>2. CASE requests'[t] = requests[t]
  BY <1>2 DEF WarrantsSound, Wields
<1>3. SUFFICES ASSUME Acts(t) PROVE Sound(requests'[t].warrant)
  BY <1>2, RequestsChange
<1>4. ASSUME SignsIn(t) PROVE Sound(requests'[t].warrant)
  <2>1. ASSUME NEW u \in Users, Login(t, u) PROVE Sound(requests'[t].warrant)
    <3>1. Sound(Warrant(u, users[u].password))
      BY <2>1, FreshSound, AuthAssumption DEF Login, VerifiesPassword, Proofs
    <3>2. requests'[t].warrant = Warrant(u, users[u].password)
      BY <1>1, <2>1 DEF Login, Becomes, RequestRows, TypeOK
    <3> QED
      BY <3>1, <3>2
  <2>2. ASSUME NEW c \in Claims, TakeClaim(t, c) PROVE Sound(requests'[t].warrant)
    BY <1>1, <2>2 DEF TakeClaim, Becomes, RequestRows, TypeOK, WarrantsSound
  <2>3. ASSUME RereadAccount(t) PROVE Sound(requests'[t].warrant)
    <3> DEFINE w == requests[t].warrant
    <3>1. Sound(w) /\ w.user \in Users /\ w.proof \in Proofs
      BY <1>1, <2>3, WarrantFields DEF RereadAccount, WarrantsSound, Wields
    <3>2. CASE Current(w)
      <4>1. Sound(Warrant(w.user, w.proof))
        BY <3>1, <3>2, FreshSound DEF Current, Sound, SoundIn
      <4>2. requests'[t].warrant = Warrant(w.user, w.proof)
        BY <1>1, <2>3, <3>2 DEF RereadAccount, Starts, Becomes, RequestRows, TypeOK
      <4> QED
        BY <4>1, <4>2
    <3>3. CASE ~Current(w)
      BY <2>3, <3>3, EndsType DEF RereadAccount, Wields
    <3> QED
      BY <3>2, <3>3
  <2>4. ASSUME PrepareSession(t) PROVE Sound(requests'[t].warrant)
    BY <1>1, <2>4 DEF PrepareSession, Becomes, RequestRows, TypeOK, WarrantsSound, Wields
  <2>5. ASSUME NEW s \in Sids, CreateSession(t, s) PROVE FALSE
    BY <2>5, EndsType DEF CreateSession, Wields
  <2> QED
    BY <1>4, <2>1, <2>2, <2>3, <2>4, <2>5 DEF SignsIn
<1>5. ASSUME Renews(t) PROVE Sound(requests'[t].warrant)
  <2>1. ASSUME NEW s \in Sids, Refresh(t, s) PROVE Sound(requests'[t].warrant)
    <3>1. sessions[s].warrant.user \in Users
      BY WarrantFields DEF TypeOK, SessionRows
    <3>2. Sound(Warrant(sessions[s].warrant.user, Possession))
      BY <3>1, FreshSound, AuthAssumption DEF Proofs
    <3>3. requests'[t].warrant = Warrant(sessions[s].warrant.user, Possession)
      BY <1>1, <2>1 DEF Refresh, Becomes, RequestRows, TypeOK
    <3> QED
      BY <3>2, <3>3
  <2>2. ASSUME LockAccount(t) PROVE Sound(requests'[t].warrant)
    <3>1. Sound(requests[t].warrant)
      BY <2>2 DEF LockAccount, WarrantsSound, Wields
    <3> QED
      BY <1>1, <2>2, <3>1, EndsType DEF LockAccount, Goes, Becomes, TypeOK, RequestRows, Wields
  <2>3. ASSUME ReadExpiry(t) PROVE Sound(requests'[t].warrant)
    <3>1. Sound(requests[t].warrant)
      BY <2>3 DEF ReadExpiry, WarrantsSound, Wields
    <3>2. requests'[t].warrant = requests[t].warrant \/ requests'[t].at = "idle"
      BY <1>1, <2>3, EndsType DEF ReadExpiry, Becomes, RequestRows, TypeOK
    <3> QED
      BY <3>1, <3>2 DEF Wields
  <2>4. ASSUME RenewSession(t) PROVE FALSE
    BY <2>4, EndsType DEF RenewSession, Wields
  <2> QED
    BY <1>5, <2>1, <2>2, <2>3, <2>4 DEF Renews
<1>6. ASSUME LogsOut(t) PROVE FALSE
  <2>1. ASSUME NEW s \in Sids, Logout(t, s) PROVE FALSE
    BY <1>1, <2>1 DEF Logout, Becomes, RequestRows, TypeOK, Wields
  <2>2. ASSUME SelectSession(t) PROVE FALSE
    <3>1. requests'[t].at = "deleting" \/ requests'[t].at = "idle"
      <4>1. CASE Ends(t)
        BY <4>1, EndsType
      <4>2. CASE Becomes(t, [requests[t] EXCEPT !.at = "deleting", !.idToken = sessions[requests[t].sid].idToken])
        BY <1>1, <4>2 DEF Becomes, TypeOK, RequestRows
      <4> QED
        BY <2>2, <4>1, <4>2 DEF SelectSession
    <3> QED
      BY <3>1 DEF Wields
  <2>3. ASSUME DeleteSession(t) PROVE FALSE
    BY <2>3, EndsType DEF DeleteSession, Wields
  <2> QED
    BY <1>6, <2>1, <2>2, <2>3 DEF LogsOut
<1>7. ASSUME ChangesPassword(t) PROVE Sound(requests'[t].warrant)
  <2>1. ASSUME NEW s \in Sids, ProvePassword(t, s) PROVE Sound(requests'[t].warrant)
    <3> DEFINE u == sessions[s].warrant.user
    <3>1. u \in Users
      BY WarrantFields DEF TypeOK, SessionRows
    <3>2. Sound(Warrant(u, users[u].password))
      BY <2>1, <3>1, FreshSound, AuthAssumption DEF ProvePassword, VerifiesPassword, Proofs
    <3>3. requests'[t].warrant = Warrant(u, users[u].password)
      BY <1>1, <2>1 DEF ProvePassword, Starts, Becomes, RequestRows, TypeOK
    <3> QED
      BY <3>2, <3>3
  <2>2. ASSUME NEW u \in Users, RequestReset(t, u) PROVE Sound(requests'[t].warrant)
    <3>1. Sound(Warrant(u, Possession))
      BY FreshSound, AuthAssumption DEF Proofs
    <3>2. requests'[t].warrant = Warrant(u, Possession)
      BY <1>1, <2>2 DEF RequestReset, Starts, Becomes, RequestRows, TypeOK
    <3> QED
      BY <3>1, <3>2
  <2>3. ASSUME NEW g \in Grants, CheckGrant(t, g) PROVE FALSE
    BY <1>1, <2>3 DEF CheckGrant, Becomes, RequestRows, TypeOK, Wields
  <2>4. ASSUME NEW g \in Grants, IssueGrant(t, g) PROVE FALSE
    BY <2>4, EndsType DEF IssueGrant, Wields
  <2>5. ASSUME NEW p \in Passwords, ChangePassword(t, p) \/ CompleteReset(t, p) PROVE FALSE
    BY <2>5, EndsType DEF ChangePassword, CompleteReset, Wields
  <2> QED
    BY <1>7, <2>1, <2>2, <2>3, <2>4, <2>5 DEF ChangesPassword
<1> QED
  BY <1>3, <1>4, <1>5, <1>6, <1>7 DEF Acts

LEMMA WarrantsStep == AuthInv /\ TypeOK' /\ Next => WarrantsSound'
<1> SUFFICES ASSUME AuthInv, TypeOK', Next PROVE WarrantsSound'
  OBVIOUS
<1>1. \A u \in Users : Advances(u)
  BY EveryStepAdvances DEF AuthInv
<1>2. \A s \in Sids : sessions'[s].state # "unused" => SoundIn(users', sessions'[s].warrant)
  BY <1>1, SessionWarrants, SoundStays DEF AuthInv, Sound, TypeOK, SessionRows
<1>3. \A g \in Grants : grants'[g].state # "unused" => SoundIn(users', grants'[g].warrant)
  BY <1>1, GrantWarrants, SoundStays DEF AuthInv, Sound, TypeOK, GrantRows
<1>4. \A r \in Requests : Wields(r)' => SoundIn(users', requests'[r].warrant)
  BY <1>1, RequestWarrants, SoundStays DEF AuthInv, Sound, TypeOK, RequestRows
<1> QED
  BY <1>2, <1>3, <1>4, ClaimWarrants DEF WarrantsSound, Sound

-----------------------------------------------------------------------------
(* Row locks *)

\* Where a request can go, and what it takes along.
LEMMA RequestMoves ==
  ASSUME TypeOK, Next, NEW t \in Requests, requests'[t] # requests[t]
  PROVE  \/ requests'[t].at \in {"idle", "create", "claimed", "insert", "mail"}
         \/ requests'[t].at = "change" /\ requests'[t].warrant.proof \in Passwords
         \/ \E s \in Sids : Refresh(t, s) /\ requests'[t].at = "refresh" /\ requests'[t].sid = s
                             /\ requests'[t].warrant.user = sessions[s].warrant.user
         \/ LockAccount(t) /\ requests'[t].at = "locked" /\ requests'[t].sid = requests[t].sid
                           /\ requests'[t].warrant = requests[t].warrant
         \/ ReadExpiry(t) /\ requests'[t].at = "expiry" /\ requests'[t].sid = requests[t].sid
                          /\ requests'[t].warrant = requests[t].warrant
                          /\ requests'[t].seen = sessions[requests[t].sid].expires
         \/ requests'[t].at = "logout" /\ requests'[t].sid \in Sids
         \/ SelectSession(t) /\ requests'[t].at = "deleting" /\ requests'[t].sid = requests[t].sid
                             /\ sessions[requests[t].sid].state = "live"
         \/ requests'[t].at = "reset" /\ requests'[t].grant \in Grants
<1>1. requests[t] \in RequestRows
  BY DEF TypeOK
<1>2. Acts(t)
  BY RequestsChange
<1>3. ASSUME NEW q, Becomes(t, q) PROVE requests'[t] = q
  BY <1>3 DEF Becomes, TypeOK
<1>4. ASSUME Ends(t) PROVE requests'[t].at = "idle"
  BY <1>4, EndsType
<1>5. CASE SignsIn(t)
  <2>1. ASSUME NEW u \in Users, Login(t, u) PROVE requests'[t].at = "create"
    BY <1>1, <1>3, <2>1 DEF Login, RequestRows
  <2>2. ASSUME NEW c \in Claims, TakeClaim(t, c) PROVE requests'[t].at = "claimed"
    BY <1>1, <1>3, <2>2 DEF TakeClaim, RequestRows
  <2>3. ASSUME RereadAccount(t) PROVE requests'[t].at \in {"create", "idle"}
    BY <1>1, <1>3, <1>4, <2>3 DEF RereadAccount, Starts, RequestRows
  <2>4. ASSUME PrepareSession(t) PROVE requests'[t].at = "insert"
    BY <1>1, <1>3, <2>4 DEF PrepareSession, RequestRows
  <2>5. ASSUME NEW s \in Sids, CreateSession(t, s) PROVE requests'[t].at = "idle"
    BY <1>4, <2>5 DEF CreateSession
  <2> QED
    BY <1>5, <2>1, <2>2, <2>3, <2>4, <2>5 DEF SignsIn
<1>6. CASE Renews(t)
  <2>1. ASSUME NEW s \in Sids, Refresh(t, s)
        PROVE  /\ requests'[t].at = "refresh" /\ requests'[t].sid = s
               /\ requests'[t].warrant.user = sessions[s].warrant.user
    <3>1. Warrant(sessions[s].warrant.user, Possession).user = sessions[s].warrant.user
      BY DEF Warrant
    <3> QED
      BY <1>1, <1>3, <2>1, <3>1 DEF Refresh, RequestRows
  <2>2. ASSUME LockAccount(t), requests'[t].at # "idle"
        PROVE  /\ requests'[t].at = "locked" /\ requests'[t].sid = requests[t].sid
               /\ requests'[t].warrant = requests[t].warrant
    BY <1>1, <1>3, <1>4, <2>2 DEF LockAccount, Goes, RequestRows
  <2>3. ASSUME ReadExpiry(t), requests'[t].at # "idle"
        PROVE  /\ requests'[t].at = "expiry" /\ requests'[t].sid = requests[t].sid
               /\ requests'[t].warrant = requests[t].warrant
               /\ requests'[t].seen = sessions[requests[t].sid].expires
    BY <1>1, <1>3, <1>4, <2>3 DEF ReadExpiry, RequestRows
  <2>4. ASSUME RenewSession(t) PROVE requests'[t].at = "idle"
    BY <1>4, <2>4 DEF RenewSession
  <2> QED
    BY <1>6, <2>1, <2>2, <2>3, <2>4 DEF Renews
<1>7. CASE LogsOut(t)
  <2>1. ASSUME NEW s \in Sids, Logout(t, s) PROVE requests'[t].at = "logout" /\ requests'[t].sid \in Sids
    BY <1>1, <1>3, <2>1 DEF Logout, RequestRows
  <2>2. ASSUME SelectSession(t), requests'[t].at # "idle"
        PROVE  /\ requests'[t].at = "deleting" /\ requests'[t].sid = requests[t].sid
               /\ sessions[requests[t].sid].state = "live"
    BY <1>1, <1>3, <1>4, <2>2 DEF SelectSession, RequestRows
  <2>3. ASSUME DeleteSession(t) PROVE requests'[t].at = "idle"
    BY <1>4, <2>3 DEF DeleteSession
  <2> QED
    BY <1>7, <2>1, <2>2, <2>3 DEF LogsOut
<1>8. CASE ChangesPassword(t)
  <2>1. ASSUME NEW s \in Sids, ProvePassword(t, s)
        PROVE  requests'[t].at = "change" /\ requests'[t].warrant.proof \in Passwords
    <3> DEFINE w == Warrant(sessions[s].warrant.user, users[sessions[s].warrant.user].password)
    <3>1. w.proof \in Passwords
      BY <2>1 DEF ProvePassword, VerifiesPassword, Warrant
    <3>2. requests'[t] = [requests[t] EXCEPT !.at = "change", !.warrant = w]
      BY <1>3, <2>1 DEF ProvePassword, Starts
    <3> QED
      BY <1>1, <3>1, <3>2 DEF RequestRows
  <2>2. ASSUME NEW u \in Users, RequestReset(t, u) PROVE requests'[t].at = "mail"
    BY <1>1, <1>3, <2>2 DEF RequestReset, Starts, RequestRows
  <2>3. ASSUME NEW g \in Grants, CheckGrant(t, g) PROVE requests'[t].at = "reset" /\ requests'[t].grant \in Grants
    BY <1>1, <1>3, <2>3 DEF CheckGrant, RequestRows
  <2>4. ASSUME NEW g \in Grants, IssueGrant(t, g) PROVE requests'[t].at = "idle"
    BY <1>4, <2>4 DEF IssueGrant
  <2>5. ASSUME NEW p \in Passwords, ChangePassword(t, p) \/ CompleteReset(t, p) PROVE requests'[t].at = "idle"
    BY <1>4, <2>5 DEF ChangePassword, CompleteReset
  <2> QED
    BY <1>8, <2>1, <2>2, <2>3, <2>4, <2>5 DEF ChangesPassword
<1> QED
  BY <1>2, <1>5, <1>6, <1>7, <1>8 DEF Acts

LEMMA FitStep == TypeOK /\ RequestsFit /\ Next => RequestsFit'
<1> SUFFICES ASSUME TypeOK, RequestsFit, Next, NEW t \in Requests
             PROVE  /\ requests'[t].at \in {"refresh", "locked", "expiry", "logout", "deleting"}
                          => requests'[t].sid \in Sids
                    /\ requests'[t].at = "reset" => requests'[t].grant \in Grants
                    /\ requests'[t].at = "change" => requests'[t].warrant.proof \in Passwords
  BY DEF RequestsFit
<1>1. CASE requests'[t] = requests[t]
  BY <1>1 DEF RequestsFit
<1>2. CASE requests'[t] # requests[t]
  BY <1>2, RequestMoves DEF RequestsFit, LockAccount, ReadExpiry, SelectSession
<1> QED
  BY <1>1, <1>2

\* What a step may do to a session's row.
LEMMA SessionMoves ==
  ASSUME AuthInv, Next, NEW s \in Sids
  PROVE  \/ sessions'[s] = sessions[s]
         \/ /\ sessions[s].state = "unused" /\ sessions'[s].state = "live"
            /\ \E r \in Requests : CreateSession(r, s)
         \/ /\ sessions[s].state = "live" /\ sessions'[s].state = "gone"
            /\ sessions'[s].warrant = sessions[s].warrant /\ sessions'[s].expires = sessions[s].expires
            /\ SessionFree(s) \/ \E r \in Requests : DeleteSession(r) /\ requests[r].sid = s
         \/ \E r \in Requests :
              /\ RenewSession(r) /\ requests[r].sid = s /\ Renewable(s, requests[r].warrant)
              /\ sessions'[s].state = "live" /\ sessions'[s].warrant.user = sessions[s].warrant.user
              /\ sessions'[s].warrant.version = sessions[s].warrant.version
              /\ sessions'[s].expires = Later(requests[r].seen, requests[r].expires)
<1> USE DEF AuthInv
<1>1. sessions[s] \in SessionRows
  BY DEF TypeOK
<1>2. ASSUME NEW r \in Requests, PrepareSession(r), sessions'[s] # sessions[s]
      PROVE  /\ sessions[s].state = "live" /\ sessions'[s].state = "gone"
            /\ sessions'[s].warrant = sessions[s].warrant /\ sessions'[s].expires = sessions[s].expires
             /\ SessionFree(s)
  BY <1>1, <1>2 DEF PrepareSession, SessionRows
<1>3. ASSUME NEW r \in Requests, DeleteSession(r), sessions'[s] # sessions[s]
      PROVE  /\ sessions[s].state = "live" /\ sessions'[s].state = "gone"
            /\ sessions'[s].warrant = sessions[s].warrant /\ sessions'[s].expires = sessions[s].expires
             /\ requests[r].sid = s
  BY <1>1, <1>3 DEF DeleteSession, SessionRows, TypeOK, LogoutsExclude
<1>4. ASSUME NEW r \in Requests, NEW t \in Sids, CreateSession(r, t), sessions'[s] # sessions[s]
      PROVE  sessions[s].state = "unused" /\ sessions'[s].state = "live" /\ t = s
  BY <1>1, <1>4 DEF CreateSession, SessionRows, TypeOK
<1>5. ASSUME NEW r \in Requests, RenewSession(r), sessions'[s] # sessions[s]
      PROVE  /\ requests[r].sid = s /\ Renewable(s, requests[r].warrant)
             /\ sessions'[s].state = "live" /\ sessions'[s].warrant.user = sessions[s].warrant.user
             /\ sessions'[s].warrant.version = sessions[s].warrant.version
             /\ sessions'[s].expires = Later(requests[r].seen, requests[r].expires)
  <2> DEFINE q == requests[r]
  <2>1. Renewable(q.sid, q.warrant)
    BY <1>5 DEF RenewSession
  <2>2. sessions' = [sessions EXCEPT ![q.sid] = [sessions[q.sid] EXCEPT
                       !.expires = Later(q.seen, q.expires), !.warrant.identity = q.warrant.identity]]
    BY <1>5, <2>1 DEF RenewSession
  <2>3. q.sid = s
    BY <1>5, <2>2 DEF TypeOK
  <2>4. /\ sessions'[s].expires = Later(q.seen, q.expires) /\ sessions'[s].state = sessions[s].state
        /\ sessions'[s].warrant = [sessions[s].warrant EXCEPT !.identity = q.warrant.identity]
    BY <1>1, <2>2, <2>3 DEF TypeOK, SessionRows
  <2>5. sessions[s].warrant \in Warrants
    BY <1>1 DEF SessionRows
  <2> QED
    BY <2>1, <2>3, <2>4, <2>5 DEF Warrants, Renewable
<1> QED
  BY <1>2, <1>3, <1>4, <1>5, SessionsChange

LEMMA LogoutsStep == AuthInv /\ Next => LogoutsExclude'
<1> SUFFICES ASSUME AuthInv, Next PROVE LogoutsExclude'
  OBVIOUS
<1> USE DEF AuthInv
<1>1. ASSUME NEW t \in Requests, requests'[t].at = "deleting"
      PROVE  /\ requests'[t].sid = requests[t].sid /\ requests[t].sid \in Sids
             /\ sessions[requests[t].sid].state = "live"
             /\ requests[t].at = "deleting" \/ SessionFree(requests[t].sid)
             /\ requests'[t] = requests[t] \/ SelectSession(t)
  BY <1>1, RequestMoves DEF RequestsFit, LogoutsExclude, SelectSession
<1>2. ASSUME NEW t \in Requests, requests'[t].at = "deleting" PROVE sessions'[requests[t].sid].state = "live"
  <2> DEFINE s == requests[t].sid
  <2>1. CASE requests'[t] = requests[t]
    <3>1. ~SessionFree(s)
      BY <1>2, <2>1 DEF SessionFree
    <3>2. ASSUME NEW r \in Requests, DeleteSession(r), requests[r].sid = s PROVE FALSE
      <4>1. r = t
        BY <1>2, <2>1, <3>2 DEF DeleteSession, LogoutsExclude
      <4> QED
        BY <1>2, <3>2, <4>1, EndsType DEF DeleteSession
    <3> QED
      BY <1>1, <1>2, <3>1, <3>2, SessionMoves
  <2>2. CASE SelectSession(t)
    BY <1>1, <1>2, <2>2 DEF SelectSession
  <2> QED
    BY <1>1, <1>2, <2>1, <2>2
<1>3. ASSUME NEW r \in Requests, NEW q \in Requests, requests'[r].at = "deleting", requests'[q].at = "deleting",
             requests'[r].sid = requests'[q].sid
      PROVE  r = q
  <2>1. SUFFICES ASSUME r # q PROVE FALSE
    OBVIOUS
  <2>2. requests'[r] = requests[r] \/ requests'[q] = requests[q]
    BY <2>1, RequestsChange
  <2>3. ASSUME NEW a \in Requests, NEW b \in Requests, a # b, requests'[a] = requests[a],
               requests'[a].at = "deleting", requests'[b].at = "deleting", requests'[a].sid = requests'[b].sid
        PROVE  FALSE
    <3>1. requests[a].at = "deleting" /\ requests[a].sid = requests[b].sid
      BY <1>1, <2>3
    <3>2. ~SessionFree(requests[b].sid)
      BY <3>1 DEF SessionFree
    <3> QED
      BY <1>1, <2>3, <3>1, <3>2 DEF LogoutsExclude
  <2> QED
    BY <1>3, <2>1, <2>2, <2>3
<1>4. ASSUME NEW s \in Sids PROVE handedOut'[s] <= 1 /\ (handedOut'[s] = 1 => sessions'[s].state = "gone")
  <2>1. handedOut[s] \in Nat /\ handedOut[s] <= 1 /\ (handedOut[s] = 1 => sessions[s].state = "gone")
    BY DEF TypeOK, LogoutsExclude
  <2>2. CASE \E r \in Requests : DeleteSession(r)
    BY <2>1, <2>2 DEF DeleteSession, LogoutsExclude, TypeOK, SessionRows
  <2>3. CASE ~\E r \in Requests : DeleteSession(r)
    <3>1. handedOut' = handedOut
      BY <2>3 DEF Next, SignsIn, Renews, LogsOut, ChangesPassword, AccountChanges, Elapses,
         Login, TakeClaim, RereadAccount, PrepareSession, CreateSession, Refresh, LockAccount, ReadExpiry,
         RenewSession, Logout, SelectSession, ProvePassword, RequestReset, IssueGrant, CheckGrant,
         ChangePassword, CompleteReset, LoginChallenged, SsoCallback, AdminSetsPassword, UpdateIdentity, DeleteUser, UnlinkSso,
         ClaimExpires, RevokeGrant, Tick
    <3> QED
      BY <2>1, <3>1, SessionMoves DEF Renewable
  <2> QED
    BY <2>2, <2>3
<1> QED
  BY <1>1, <1>2, <1>3, <1>4 DEF LogoutsExclude

LEMMA RenewalsStep == AuthInv /\ TypeOK' /\ Next => RenewalsExclude'
<1> SUFFICES ASSUME AuthInv, TypeOK', Next PROVE RenewalsExclude'
  OBVIOUS
<1> USE DEF AuthInv
<1>1. ASSUME NEW s \in Sids, sessions[s].state # "unused"
      PROVE  sessions'[s].state # "unused" /\ sessions'[s].warrant.user = sessions[s].warrant.user
  BY <1>1, SessionMoves
<1>2. ASSUME NEW t \in Requests, requests'[t].at \in {"refresh", "locked", "expiry"}
      PROVE  /\ requests'[t].sid \in Sids /\ sessions[requests'[t].sid].state # "unused"
             /\ sessions[requests'[t].sid].warrant.user = requests'[t].warrant.user
             /\ requests'[t] = requests[t] \/ requests'[t].at = "refresh" \/ LockAccount(t) \/ ReadExpiry(t)
  BY <1>2, RequestMoves DEF RequestsFit, RenewalsExclude, Refresh, LockAccount, ReadExpiry
<1>3. ASSUME NEW t \in Requests, requests'[t].at \in {"locked", "expiry"}
      PROVE  /\ requests'[t].warrant.user = requests[t].warrant.user
             /\ requests[t].at \in {"locked", "expiry"} \/ AccountFree(requests[t].warrant.user)
             /\ requests'[t] = requests[t] \/ LockAccount(t) \/ ReadExpiry(t)
  BY <1>3, RequestMoves DEF LockAccount, ReadExpiry
<1>4. ASSUME NEW r \in Requests, NEW q \in Requests, r # q,
             requests'[r].at \in {"locked", "expiry"}, requests'[q].at \in {"locked", "expiry"},
             requests'[r].warrant.user = requests'[q].warrant.user
      PROVE  FALSE
  <2>1. requests'[r] = requests[r] \/ requests'[q] = requests[q]
    BY <1>4, RequestsChange
  <2> QED
    BY <1>3, <1>4, <2>1 DEF RenewalsExclude, AccountFree
<1>5. ASSUME NEW t \in Requests, requests'[t].at = "expiry"
      PROVE  sessions'[requests'[t].sid].expires <= requests'[t].seen
  <2> DEFINE s == requests'[t].sid
  <2>1. s \in Sids /\ sessions[s] \in SessionRows /\ sessions'[s] \in SessionRows /\ requests'[t] \in RequestRows
    BY <1>2, <1>5 DEF TypeOK
  <2>2. /\ sessions[s].expires \in Nat /\ sessions'[s].expires \in Nat /\ requests'[t].seen \in Nat
    BY <2>1, AuthAssumption DEF SessionRows, RequestRows, Instants
  <2>3. CASE requests'[t] # requests[t]
    <3>1. ReadExpiry(t) /\ requests'[t].seen = sessions[s].expires
      BY <1>5, <2>3, RequestMoves
    <3> QED
      BY <2>2, <3>1 DEF ReadExpiry
  <2>4. CASE requests'[t] = requests[t]
    <3>1. sessions[s].expires <= requests[t].seen
      BY <1>5, <2>4 DEF RenewalsExclude
    <3>2. ASSUME NEW r \in Requests, RenewSession(r), requests[r].sid = s PROVE FALSE
      <4>1. r = t
        BY <1>5, <2>4, <3>2 DEF RenewSession, RenewalsExclude
      <4> QED
        BY <1>5, <3>2, <4>1, EndsType DEF RenewSession
    <3>3. sessions'[s].expires = sessions[s].expires
      BY <2>1, <2>4, <1>2, <1>5, <3>2, SessionMoves
    <3> QED
      BY <2>4, <3>1, <3>3
  <2> QED
    BY <2>3, <2>4
<1> QED
  BY <1>1, <1>2, <1>4, <1>5 DEF RenewalsExclude

LEMMA InvInit == Init => AuthInv
<1> SUFFICES ASSUME Init PROVE AuthInv
  OBVIOUS
<1>1. TypeOK
  BY TypeInit
<1>2. \A r \in Requests : requests[r].at = "idle"
  BY DEF Init, Blank
<1> QED
  BY <1>1, <1>2 DEF Init, AuthInv, WarrantsSound, RequestsFit, LogoutsExclude, RenewalsExclude, Wields

LEMMA InvStep == AuthInv /\ [Next]_vars => AuthInv'
<1>1. ASSUME AuthInv, Next PROVE AuthInv'
  <2>1. TypeOK'
    BY <1>1, TypeStep DEF AuthInv
  <2> QED
    BY <1>1, <2>1, WarrantsStep, FitStep, LogoutsStep, RenewalsStep DEF AuthInv
<1>2. ASSUME AuthInv, UNCHANGED vars PROVE AuthInv'
  BY <1>2 DEF vars, AuthInv, TypeOK, WarrantsSound, RequestsFit, LogoutsExclude, RenewalsExclude,
              Wields, Sound, SoundIn
<1> QED
  BY <1>1, <1>2

-----------------------------------------------------------------------------
(* Theorems *)

\* The invariant holds of every reachable state.
THEOREM AuthInvariant == Spec => []AuthInv
  BY InvInit, InvStep, PTL DEF Spec

\* Every variable keeps its type.
THEOREM AuthTypes == Spec => []TypeOK
<1>1. AuthInv => TypeOK
  BY DEF AuthInv
<1> QED
  BY <1>1, AuthInvariant, PTL

\* A session authenticates only with the credentials, email and role of today.
THEOREM SessionsMatch == Spec => []SessionsMatchTheirAccount
<1>1. AuthInv => SessionsMatchTheirAccount
  BY DEF AuthInv, WarrantsSound, SessionsMatchTheirAccount, Active, Current, Sound, SoundIn, Holds
<1> QED
  BY <1>1, AuthInvariant, PTL

\* A usable reset link was mailed to today's address.
THEOREM GrantsMatch == Spec => []GrantsReachTheirOwner
<1>1. AuthInv => GrantsReachTheirOwner
  BY DEF AuthInv, WarrantsSound, GrantsReachTheirOwner, Usable, Current, Sound, SoundIn, Holds
<1> QED
  BY <1>1, AuthInvariant, PTL

\* Two logouts never both receive the ID token.
THEOREM IdTokenOnce == Spec => []IdTokenHandedOutOnce
<1>1. AuthInv => IdTokenHandedOutOnce
  BY DEF AuthInv, LogoutsExclude, IdTokenHandedOutOnce
<1> QED
  BY <1>1, AuthInvariant, PTL

\* An account that is not current for a warrant now is not current for it later.
LEMMA NeverCurrentAgain ==
  ASSUME AuthInv, AuthInv', Next
  PROVE  \A w \in Warrants : SoundIn(users, w) /\ users'[w.user].live /\ users'[w.user].version = w.version
           => Current(w)
<1> SUFFICES ASSUME NEW w \in Warrants, SoundIn(users, w), users'[w.user].live, users'[w.user].version = w.version
             PROVE  Current(w)
  OBVIOUS
<1>1. w.user \in Users /\ w.version \in Nat /\ users[w.user].version \in Nat
  BY AuthAssumption DEF AuthInv, TypeOK, Warrants, Accounts, Versions
<1>2. Advances(w.user)
  BY <1>1, EveryStepAdvances DEF AuthInv
<1> QED
  BY <1>1, <1>2 DEF SoundIn, Advances, Current

LEMMA TimeAdvances == ASSUME TypeOK, Next PROVE now' >= now /\ now \in Nat /\ now' \in Nat
<1>1. now \in Nat
  BY AuthAssumption DEF TypeOK
<1>2. now' = now \/ now' = now + 1
  BY DEF Next, SignsIn, Renews, LogsOut, ChangesPassword, AccountChanges, Elapses,
         Login, TakeClaim, RereadAccount, PrepareSession, CreateSession, Refresh, LockAccount, ReadExpiry,
         RenewSession, Logout, SelectSession, DeleteSession, ProvePassword, RequestReset, IssueGrant,
         CheckGrant, ChangePassword, CompleteReset,
         LoginChallenged, SsoCallback, AdminSetsPassword, UpdateIdentity, DeleteUser, UnlinkSso,
         ClaimExpires, RevokeGrant, Tick
<1> QED
  BY <1>1, <1>2

\* No interleaving brings a dead session back.
THEOREM EndedStayEnded == Spec => EndedSessionsStayEnded
<1>1. ASSUME AuthInv, AuthInv', Next, NEW s \in Sids, sessions[s].state # "unused", Active(s)'
      PROVE  Active(s)
  <2> DEFINE w == sessions[s].warrant
             v == sessions'[s].warrant
  <2>1. /\ sessions'[s].state = "live" /\ sessions'[s].expires > now'
        /\ users'[v.user].live /\ users'[v.user].version = v.version
    BY <1>1 DEF Active, Current
  <2>2. /\ sessions[s].state = "live" /\ w.user = v.user /\ w.version = v.version
        /\ sessions'[s].expires = sessions[s].expires \/ sessions[s].expires > now
    BY <1>1, <2>1, SessionMoves DEF Renewable
  <2>3. w \in Warrants /\ SoundIn(users, w) /\ sessions[s].expires \in Nat
    BY <1>1, <2>2, AuthAssumption DEF AuthInv, TypeOK, SessionRows, WarrantsSound, Sound, Instants
  <2>4. Current(w)
    BY <1>1, <2>1, <2>2, <2>3, NeverCurrentAgain
  <2>5. sessions[s].expires > now
    BY <1>1, <2>1, <2>2, <2>3, TimeAdvances DEF AuthInv
  <2> QED
    BY <2>2, <2>4, <2>5 DEF Active
<1>2. AuthInv /\ AuthInv' /\ [Next]_vars
      => [\A s \in Sids : sessions[s].state # "unused" /\ ~Active(s) => ~Active(s)']_vars
  BY <1>1
<1> QED
  BY <1>2, AuthInvariant, PTL DEF Spec, EndedSessionsStayEnded

\* A renewal never takes time away.
THEOREM RenewalsExtend == Spec => RenewalsOnlyExtend
<1>1. ASSUME AuthInv, AuthInv', Next, NEW s \in Sids, sessions[s].state = "live", sessions'[s].state = "live"
      PROVE  sessions'[s].expires >= sessions[s].expires
  <2>1. sessions[s].expires \in Nat
    BY AuthAssumption, <1>1 DEF AuthInv, TypeOK, SessionRows, Instants
  <2>2. ASSUME NEW r \in Requests, RenewSession(r), requests[r].sid = s,
               sessions'[s].expires = Later(requests[r].seen, requests[r].expires)
        PROVE  sessions'[s].expires >= sessions[s].expires
    <3>1. sessions[s].expires <= requests[r].seen /\ requests[r].seen \in Nat /\ requests[r].expires \in Nat
      BY <1>1, <2>2, AuthAssumption DEF AuthInv, RenewalsExclude, RenewSession, TypeOK, RequestRows, Instants
    <3> QED
      BY <2>1, <2>2, <3>1 DEF Later
  <2> QED
    BY <1>1, <2>1, <2>2, SessionMoves
<1>2. AuthInv /\ AuthInv' /\ [Next]_vars
      => [\A s \in Sids : sessions[s].state = "live" /\ sessions'[s].state = "live"
            => sessions'[s].expires >= sessions[s].expires]_vars
  BY <1>1
<1> QED
  BY <1>2, AuthInvariant, PTL DEF Spec, RenewalsOnlyExtend

\* A self-service password change is paid for with the account's own password.
THEOREM ChangesProve == Spec => ChangesProveThePassword
<1>1. ASSUME AuthInv, AuthInv', Next, NEW r \in Requests,
             requests[r].at = "change", requests'[r].at # "change", users' # users
      PROVE  users[requests[r].warrant.user].password = requests[r].warrant.proof
  <2>1. Acts(r)
    BY <1>1, RequestsChange DEF AuthInv
  <2>2. \E p \in Passwords : ChangePassword(r, p)
    BY <1>1, <2>1 DEF Acts, SignsIn, Renews, LogsOut, ChangesPassword,
         Login, TakeClaim, RereadAccount, PrepareSession, CreateSession, Refresh, LockAccount, ReadExpiry,
         RenewSession, Logout, SelectSession, DeleteSession, ProvePassword, RequestReset, IssueGrant,
         CheckGrant, CompleteReset
  <2>3. Current(requests[r].warrant)
    BY <1>1, <2>2 DEF ChangePassword
  <2> QED
    BY <1>1, <2>3 DEF AuthInv, RequestsFit, WarrantsSound, Wields, Sound, SoundIn, Current
<1>2. AuthInv /\ AuthInv' /\ [Next]_vars
      => [\A r \in Requests :
            requests[r].at = "change" /\ requests'[r].at # "change" /\ users' # users
            => users[requests[r].warrant.user].password = requests[r].warrant.proof]_vars
  BY <1>1
<1> QED
  BY <1>2, AuthInvariant, PTL DEF Spec, ChangesProveThePassword

-----------------------------------------------------------------------------
(* What a change of an account leaves behind *)

\* The step takes credentials, identity, link or the account itself from u.
Loses(u) ==
  \/ users'[u].password # users[u].password \/ users'[u].identity # users[u].identity
  \/ users[u].linked /\ ~users'[u].linked
  \/ users[u].live /\ ~users'[u].live

\* After it, what was issued before names an account that is no longer current.
LEMMA LossOvertakes ==
  ASSUME TypeOK, TypeOK', NEW u \in Users, Advances(u), Loses(u),
         NEW w \in Warrants, w.user = u, SoundIn(users, w)
  PROVE  ~(users'[w.user].live /\ users'[w.user].version = w.version)
<1>1. w.version \in Nat /\ users[u].version \in Nat /\ users'[u].version \in Nat
  BY AuthAssumption DEF TypeOK, Warrants, Accounts, Versions
<1>2. users'[u].version > users[u].version \/ ~users'[u].live
  BY <1>1 DEF Advances, Loses
<1> QED
  BY <1>1, <1>2 DEF SoundIn

\* A step that writes an account touches no session, and of the grants only those
\* that a completed reset drops.
LEMMA AccountsAlone ==
  ASSUME TypeOK, Next, users' # users
  PROVE  /\ sessions' = sessions
         /\ \A g \in Grants : grants'[g] = grants[g] \/ grants'[g].state = "gone"
<1> DEFINE Alone == /\ sessions' = sessions
                    /\ \A g \in Grants : grants'[g] = grants[g] \/ grants'[g].state = "gone"
<1>1. ASSUME NEW v \in Users,
             \/ \E c \in Claims : SsoCallback(c, v)
             \/ \E p \in Passwords : AdminSetsPassword(v, p)
             \/ \E i \in Identities : UpdateIdentity(v, i)
             \/ DeleteUser(v) \/ UnlinkSso(v)
      PROVE  sessions' = sessions /\ grants' = grants
  BY <1>1 DEF SsoCallback, AdminSetsPassword, UpdateIdentity, DeleteUser, UnlinkSso
<1>2. ASSUME NEW r \in Requests, NEW p \in Passwords, ChangePassword(r, p)
      PROVE  sessions' = sessions /\ grants' = grants
  BY <1>2 DEF ChangePassword
<1>3. ASSUME NEW r \in Requests, NEW p \in Passwords, CompleteReset(r, p) PROVE Alone
  <2>1. ASSUME NEW g \in Grants PROVE grants'[g] = grants[g] \/ grants'[g].state = "gone"
    <3>1. grants[g] \in GrantRows
      BY DEF TypeOK
    <3>2. [grants[g] EXCEPT !.state = "gone"].state = "gone"
      BY <3>1 DEF GrantRows
    <3> QED
      BY <1>3, <3>2 DEF CompleteReset
  <2> QED
    BY <1>3, <2>1 DEF CompleteReset
<1>4. ASSUME NEW v \in Users,
             \/ \E c \in Claims : SsoCallback(c, v)
             \/ \E p \in Passwords : AdminSetsPassword(v, p)
             \/ \E i \in Identities : UpdateIdentity(v, i)
             \/ DeleteUser(v) \/ UnlinkSso(v)
      PROVE  Alone
  <2>1. sessions' = sessions /\ grants' = grants
    BY <1>1, <1>4
  <2> QED
    BY <2>1
<1>5. ASSUME NEW r \in Requests, NEW p \in Passwords, ChangePassword(r, p) PROVE Alone
  BY <1>2, <1>5
<1> HIDE DEF Alone
<1>6. Alone
  BY <1>3, <1>4, <1>5, AccountsChange
<1> QED
  BY <1>6 DEF Alone

\* A change of password, email, role or link, and a deletion, end every session and
\* every grant of the account in the step that commits them (UserService,
\* PasswordResetService.completeReset): nothing has to be swept up afterwards.
THEOREM ChangesEnd == Spec => ChangesEndEverything
<1>1. ASSUME AuthInv, AuthInv', Next, NEW u \in Users, Loses(u)
      PROVE  /\ \A s \in Sids : sessions'[s].warrant.user = u => ~Active(s)'
             /\ \A g \in Grants : grants'[g].warrant.user = u => ~Usable(g)'
  <2>1. users' # users /\ Advances(u)
    BY <1>1, EveryStepAdvances DEF Loses, AuthInv
  <2>2. /\ sessions' = sessions
        /\ \A g \in Grants : grants'[g] = grants[g] \/ grants'[g].state = "gone"
    BY <1>1, <2>1, AccountsAlone DEF AuthInv
  <2>3. ASSUME NEW s \in Sids, sessions'[s].warrant.user = u, Active(s)' PROVE FALSE
    <3> DEFINE w == sessions[s].warrant
    <3>1. sessions'[s].state = "live" /\ users'[w.user].live /\ users'[w.user].version = w.version
      BY <2>2, <2>3 DEF Active, Current
    <3>2. w \in Warrants /\ w.user = u /\ SoundIn(users, w)
      BY <1>1, <2>2, <2>3, <3>1 DEF AuthInv, TypeOK, SessionRows, WarrantsSound, Sound
    <3> QED
      BY <1>1, <2>1, <3>1, <3>2, LossOvertakes DEF AuthInv
  <2>4. ASSUME NEW g \in Grants, grants'[g].warrant.user = u, Usable(g)' PROVE FALSE
    <3> DEFINE w == grants[g].warrant
    <3>1. grants'[g] = grants[g] /\ grants[g].state = "live"
      BY <2>2, <2>4 DEF Usable
    <3>2. users'[w.user].live /\ users'[w.user].version = w.version
      BY <2>4, <3>1 DEF Usable, Current
    <3>3. w \in Warrants /\ w.user = u /\ SoundIn(users, w)
      BY <1>1, <2>4, <3>1 DEF AuthInv, TypeOK, GrantRows, WarrantsSound, Sound
    <3> QED
      BY <1>1, <2>1, <3>2, <3>3, LossOvertakes DEF AuthInv
  <2> QED
    BY <2>3, <2>4
<1>2. AuthInv /\ AuthInv' /\ [Next]_vars
      => [\A u \in Users :
           \/ users'[u].password # users[u].password \/ users'[u].identity # users[u].identity
           \/ users[u].linked /\ ~users'[u].linked
           \/ users[u].live /\ ~users'[u].live
           => /\ \A s \in Sids : sessions'[s].warrant.user = u => ~Active(s)'
              /\ \A g \in Grants : grants'[g].warrant.user = u => ~Usable(g)']_vars
  BY <1>1 DEF Loses
<1> QED
  BY <1>2, AuthInvariant, PTL DEF Spec, ChangesEndEverything
=============================================================================
