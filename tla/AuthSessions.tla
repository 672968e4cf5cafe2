---------------------------- MODULE AuthSessions ----------------------------
(***************************************************************************)
(* Sign-in, session renewal, logout, and the ways an account loses its     *)
(* credentials.  Every statement of a READ COMMITTED transaction that      *)
(* another request can overtake is a step of its own; a transaction whose  *)
(* statements all follow the FOR UPDATE lock of the account's row and      *)
(* touch nothing a concurrent request can change is one step.              *)
(*                                                                         *)
(* Whatever lets its bearer act for an account (a session row, a pending   *)
(* challenge or hand-off, a mailed grant, a request under way) carries a   *)
(* warrant: the account and its auth_version when it was read, what was    *)
(* proved then (a password, an SSO identity) and the email and role the    *)
(* account had.  The code stores the first two; `proof' and `identity' say *)
(* what the stored version is supposed to stand for (`identity' is also    *)
(* what the issued JWTs claim).                                            *)
(***************************************************************************)
EXTENDS Naturals

CONSTANTS Users, Sids, Claims, Grants, Requests,
          Passwords, NoPassword,   \* a passwordless account has a NULL hash
          Sso, Possession,         \* proofs that are not a password
          Identities,              \* (email, role) pairs an account can have
          None,
          MaxVersion, MaxTime,     \* bounds of auth_version and of the clock
          Lifetime                 \* of a token, a session and a grant

ASSUME AuthAssumption ==
  /\ Users # {} /\ Identities # {} /\ Lifetime \in Nat \ {0}
  /\ MaxVersion \in Nat /\ MaxTime \in Nat
  /\ Sso \notin Passwords /\ Possession \notin Passwords \cup {Sso}
  /\ NoPassword \notin Passwords \cup {Sso, Possession}
  /\ None \notin Sids \cup Grants

VARIABLES users,      \* the account rows
          sessions,   \* auth_sessions, one row per sign-in
          claims,     \* single-use sign-in steps: MFA challenges, SSO hand-offs
          grants,     \* password_reset_tokens
          requests,   \* the requests under way
          now,
          handedOut   \* how often a logout returned the ID token of a session

vars == <<users, sessions, claims, grants, requests, now, handedOut>>

Versions == 0 .. MaxVersion
Instants == 0 .. MaxTime + Lifetime
Proofs == Passwords \cup {Sso, Possession}
Warrants == [user : Users, version : Versions, proof : Proofs, identity : Identities]

Accounts == [live : BOOLEAN, version : Versions, password : Passwords \cup {NoPassword},
             linked : BOOLEAN, identity : Identities]
Stages == {"unused", "live", "gone"}
Places == {"idle", "claimed", "create", "insert", "refresh", "locked", "expiry",
           "logout", "deleting", "change", "mail", "reset"}

SessionRows == [state : Stages, warrant : Warrants, expires : Instants, idToken : BOOLEAN]
ClaimRows == [state : Stages, warrant : Warrants, idToken : BOOLEAN]
GrantRows == [state : Stages, warrant : Warrants, expires : Instants]
RequestRows == [at : Places, warrant : Warrants, sid : Sids \cup {None}, grant : Grants \cup {None},
                expires : Instants, seen : Instants, idToken : BOOLEAN]

\* Every variable has its type: rows of the tables and of the in-memory stores.
TypeOK ==
  /\ users \in [Users -> Accounts]
  /\ sessions \in [Sids -> SessionRows]
  /\ claims \in [Claims -> ClaimRows]
  /\ grants \in [Grants -> GrantRows]
  /\ requests \in [Requests -> RequestRows]
  /\ now \in 0 .. MaxTime
  /\ handedOut \in [Sids -> Nat]

Warrant(u, proof) ==
  [user |-> u, version |-> users[u].version, proof |-> proof, identity |-> users[u].identity]

\* An account that exists, at the version the warrant was given for.
Current(w) == users[w.user].live /\ users[w.user].version = w.version

Active(s) ==
  /\ sessions[s].state = "live" /\ sessions[s].expires > now
  /\ Current(sessions[s].warrant)

Usable(g) ==
  /\ grants[g].state = "live" /\ grants[g].expires > now
  /\ Current(grants[g].warrant)

-----------------------------------------------------------------------------
(* Row locks: a renewal holds the account's row, a logout the session's *)

AccountFree(u) == \A r \in Requests : ~(requests[r].at \in {"locked", "expiry"} /\ requests[r].warrant.user = u)

\* Mutant: a logout's SELECT does not lock the session's row.
SessionNeverLocked(s) == TRUE

SessionFree(s) == \A r \in Requests : ~(requests[r].at = "deleting" /\ requests[r].sid = s)

AnyWarrant == CHOOSE w \in Warrants : w.version = 0 /\ w.proof = Possession
Blank == [at |-> "idle", warrant |-> AnyWarrant, sid |-> None, grant |-> None,
          expires |-> 0, seen |-> 0, idToken |-> FALSE]

Becomes(r, q) == requests' = [requests EXCEPT ![r] = q]
Goes(r, place) == Becomes(r, [requests[r] EXCEPT !.at = place])
Starts(r, place, w) == Becomes(r, [requests[r] EXCEPT !.at = place, !.warrant = w])
Ends(r) == Becomes(r, Blank)

Init ==
  /\ \E identity \in Identities, password \in Passwords \cup {NoPassword}, linked \in BOOLEAN :
       users = [u \in Users |-> [live |-> TRUE, version |-> 0, password |-> password,
                                 linked |-> linked, identity |-> identity]]
  /\ sessions = [s \in Sids |-> [state |-> "unused", warrant |-> AnyWarrant, expires |-> 0, idToken |-> FALSE]]
  /\ claims = [c \in Claims |-> [state |-> "unused", warrant |-> AnyWarrant, idToken |-> FALSE]]
  /\ grants = [g \in Grants |-> [state |-> "unused", warrant |-> AnyWarrant, expires |-> 0]]
  /\ requests = [r \in Requests |-> Blank]
  /\ now = 0
  /\ handedOut = [s \in Sids |-> 0]

-----------------------------------------------------------------------------
(* Signing in: read the account, prove who you are, register a session *)

VerifiesPassword(u) == users[u].live /\ users[u].password \in Passwords

Login(r, u) ==
  /\ requests[r].at = "idle" /\ VerifiesPassword(u)
  /\ Becomes(r, [requests[r] EXCEPT !.at = "create", !.warrant = Warrant(u, users[u].password), !.idToken = FALSE])
  /\ UNCHANGED <<users, sessions, claims, grants, now, handedOut>>

Opens(c, w, idToken) ==
  /\ claims[c].state = "unused"
  /\ claims' = [claims EXCEPT ![c] = [state |-> "live", warrant |-> w, idToken |-> idToken]]

\* The same login for an account with the MFA feature on.
LoginChallenged(c, u) ==
  /\ VerifiesPassword(u)
  /\ Opens(c, Warrant(u, users[u].password), FALSE)
  /\ UNCHANGED <<users, sessions, grants, requests, now, handedOut>>

\* The provider vouched for the identity: find the account, or link it by email.
SsoCallback(c, u) ==
  /\ users[u].live /\ AccountFree(u)
  /\ users' = [users EXCEPT ![u].linked = TRUE]
  /\ \E idToken \in BOOLEAN : Opens(c, Warrant(u, Sso), idToken)
  /\ UNCHANGED <<sessions, grants, requests, now, handedOut>>

\* `verify' and `consume' remove what they accept.
TakeClaim(r, c) ==
  /\ requests[r].at = "idle" /\ claims[c].state = "live"
  /\ claims' = [claims EXCEPT ![c].state = "gone"]
  /\ Becomes(r, [requests[r] EXCEPT !.at = "claimed", !.warrant = claims[c].warrant, !.idToken = claims[c].idToken])
  /\ UNCHANGED <<users, sessions, grants, now, handedOut>>

ClaimExpires(c) ==
  /\ claims[c].state = "live"
  /\ claims' = [claims EXCEPT ![c].state = "gone"]
  /\ UNCHANGED <<users, sessions, grants, requests, now, handedOut>>

\* Mutant: the account is only required to exist, whatever happened since.
RereadAccountOnly(r) ==
  LET w == requests[r].warrant IN
  /\ requests[r].at = "claimed"
  /\ IF users[w.user].live THEN Starts(r, "create", Warrant(w.user, w.proof)) ELSE Ends(r)
  /\ UNCHANGED <<users, sessions, claims, grants, now, handedOut>>

\* The account is read again, and its email and role with it.
RereadAccount(r) ==
  LET w == requests[r].warrant IN
  /\ requests[r].at = "claimed"
  /\ IF Current(w) THEN Starts(r, "create", Warrant(w.user, w.proof)) ELSE Ends(r)
  /\ UNCHANGED <<users, sessions, claims, grants, now, handedOut>>

\* Tokens are minted, then a transaction of its own drops the expired sessions.
PrepareSession(r) ==
  /\ requests[r].at = "create"
  /\ \A s \in Sids : sessions[s].state = "live" /\ sessions[s].expires <= now => SessionFree(s)
  /\ Becomes(r, [requests[r] EXCEPT !.at = "insert", !.expires = now + Lifetime])
  /\ sessions' = [s \in Sids |-> IF sessions[s].state = "live" /\ sessions[s].expires <= now
                                 THEN [sessions[s] EXCEPT !.state = "gone"] ELSE sessions[s]]
  /\ UNCHANGED <<users, claims, grants, now, handedOut>>

CreateSession(r, s) ==
  LET w == requests[r].warrant IN
  /\ requests[r].at = "insert" /\ sessions[s].state = "unused" /\ AccountFree(w.user)
  /\ sessions' = IF Current(w)
                 THEN [sessions EXCEPT ![s] = [state |-> "live", warrant |-> w, expires |-> requests[r].expires,
                                               idToken |-> requests[r].idToken]]
                 ELSE sessions
  /\ Ends(r)
  /\ UNCHANGED <<users, claims, grants, now, handedOut>>

-----------------------------------------------------------------------------
(* Refresh: a new pair in the same session *)

Refresh(r, s) ==
  LET u == sessions[s].warrant.user IN
  /\ requests[r].at = "idle" /\ sessions[s].state # "unused" /\ users[u].live
  /\ Becomes(r, [requests[r] EXCEPT !.at = "refresh", !.warrant = Warrant(u, Possession),
                                    !.sid = s, !.expires = now + Lifetime])
  /\ UNCHANGED <<users, sessions, claims, grants, now, handedOut>>

LockAccount(r) ==
  LET w == requests[r].warrant IN
  /\ requests[r].at = "refresh" /\ AccountFree(w.user)
  /\ IF Current(w) THEN Goes(r, "locked") ELSE Ends(r)
  /\ UNCHANGED <<users, sessions, claims, grants, now, handedOut>>

ReadExpiry(r) ==
  LET s == requests[r].sid IN
  /\ requests[r].at = "locked"
  /\ IF sessions[s].state = "live"
     THEN Becomes(r, [requests[r] EXCEPT !.at = "expiry", !.seen = sessions[s].expires])
     ELSE Ends(r)
  /\ UNCHANGED <<users, sessions, claims, grants, now, handedOut>>

Renewable(s, w) ==
  /\ sessions[s].state = "live" /\ sessions[s].warrant.user = w.user
  /\ sessions[s].warrant.version = w.version /\ sessions[s].expires > now

Later(a, b) == IF a > b THEN a ELSE b

\* Mutant: an upsert brings a deleted row back.
RenewSessionUpserting(r) ==
  LET q == requests[r] IN
  /\ q.at = "expiry" /\ SessionFree(q.sid)
  /\ sessions' = [sessions EXCEPT ![q.sid].state = "live", ![q.sid].expires = Later(q.seen, q.expires)]
  /\ Ends(r)
  /\ UNCHANGED <<users, claims, grants, now, handedOut>>

RenewSession(r) ==
  LET q == requests[r] IN
  /\ q.at = "expiry" /\ SessionFree(q.sid)
  /\ sessions' = IF Renewable(q.sid, q.warrant)
                 THEN [sessions EXCEPT ![q.sid] = [sessions[q.sid] EXCEPT
                         !.expires = Later(q.seen, q.expires), !.warrant.identity = q.warrant.identity]]
                 ELSE sessions
  /\ Ends(r)
  /\ UNCHANGED <<users, claims, grants, now, handedOut>>

-----------------------------------------------------------------------------
(* Logout: SELECT the row FOR UPDATE, then DELETE it *)

Logout(r, s) ==
  /\ requests[r].at = "idle" /\ Active(s)
  /\ Becomes(r, [requests[r] EXCEPT !.at = "logout", !.sid = s])
  /\ UNCHANGED <<users, sessions, claims, grants, now, handedOut>>

SelectSession(r) ==
  LET s == requests[r].sid IN
  /\ requests[r].at = "logout" /\ SessionFree(s)
  /\ IF sessions[s].state = "live"
     THEN Becomes(r, [requests[r] EXCEPT !.at = "deleting", !.idToken = sessions[s].idToken])
     ELSE Ends(r)
  /\ UNCHANGED <<users, sessions, claims, grants, now, handedOut>>

DeleteSession(r) ==
  LET s == requests[r].sid IN
  /\ requests[r].at = "deleting"
  /\ sessions' = [sessions EXCEPT ![s].state = "gone"]
  /\ handedOut' = [handedOut EXCEPT ![s] = IF requests[r].idToken THEN @ + 1 ELSE @]
  /\ Ends(r)
  /\ UNCHANGED <<users, claims, grants, now>>

-----------------------------------------------------------------------------
(* Changes of the account *)

\* Mutant: the epoch is not advanced.
SetsPasswordOnly(u, p) == users[u].version < MaxVersion /\ users' = [users EXCEPT ![u].password = p]

SetsPassword(u, p) ==
  /\ users[u].version < MaxVersion
  /\ users' = [users EXCEPT ![u] = [users[u] EXCEPT !.password = p, !.version = users[u].version + 1]]

\* PUT /users/{id}/password on oneself: the current password is read and
\* verified; the new one is hashed before the row is touched.
ProvePassword(r, s) ==
  LET u == sessions[s].warrant.user IN
  /\ requests[r].at = "idle" /\ Active(s) /\ VerifiesPassword(u)
  /\ Starts(r, "change", Warrant(u, users[u].password))
  /\ UNCHANGED <<users, sessions, claims, grants, now, handedOut>>

\* Mutant: the update does not compare the version that was verified.
ChangePasswordAnyway(r, p) ==
  LET w == requests[r].warrant IN
  /\ requests[r].at = "change" /\ AccountFree(w.user)
  /\ IF users[w.user].live THEN SetsPassword(w.user, p) ELSE UNCHANGED users
  /\ Ends(r)
  /\ UNCHANGED <<sessions, claims, grants, now, handedOut>>

ChangePassword(r, p) ==
  LET w == requests[r].warrant IN
  /\ requests[r].at = "change" /\ AccountFree(w.user)
  /\ IF Current(w) THEN SetsPassword(w.user, p) ELSE UNCHANGED users
  /\ Ends(r)
  /\ UNCHANGED <<sessions, claims, grants, now, handedOut>>

AdminSetsPassword(u, p) ==
  /\ users[u].live /\ AccountFree(u) /\ SetsPassword(u, p)
  /\ UNCHANGED <<sessions, claims, grants, requests, now, handedOut>>

\* Mutant: a change of email or role leaves auth_version alone.
UpdateIdentityOnly(u, i) ==
  /\ users[u].live /\ AccountFree(u)
  /\ users[u].version < MaxVersion
  /\ users' = [users EXCEPT ![u].identity = i]
  /\ UNCHANGED <<sessions, claims, grants, requests, now, handedOut>>

UpdateIdentity(u, i) ==
  /\ users[u].live /\ AccountFree(u)
  /\ users[u].version < MaxVersion
  /\ users' = [users EXCEPT ![u] = [users[u] EXCEPT
                   !.identity = i,
                   !.version = IF users[u].identity # i THEN users[u].version + 1 ELSE users[u].version]]
  /\ UNCHANGED <<sessions, claims, grants, requests, now, handedOut>>

DeleteUser(u) ==
  /\ users[u].live /\ AccountFree(u)
  /\ users' = [users EXCEPT ![u].live = FALSE]
  /\ UNCHANGED <<sessions, claims, grants, requests, now, handedOut>>

\* Refused for an active passwordless ADMIN or MFA account.  Reaches deleted rows.
UnlinkSso(u) ==
  /\ users[u].linked /\ AccountFree(u) /\ users[u].version < MaxVersion
  /\ users' = [users EXCEPT ![u] = [users[u] EXCEPT !.linked = FALSE, !.version = users[u].version + 1]]
  /\ UNCHANGED <<sessions, claims, grants, requests, now, handedOut>>

-----------------------------------------------------------------------------
(* Password reset by a mailed grant *)

RequestReset(r, u) ==
  /\ requests[r].at = "idle" /\ VerifiesPassword(u)
  /\ Starts(r, "mail", Warrant(u, Possession))
  /\ UNCHANGED <<users, sessions, claims, grants, now, handedOut>>

WithoutExpired == [g \in Grants |-> IF grants[g].state = "live" /\ grants[g].expires <= now
                                    THEN [grants[g] EXCEPT !.state = "gone"] ELSE grants[g]]

IssueGrant(r, g) ==
  LET w == requests[r].warrant IN
  /\ requests[r].at = "mail" /\ grants[g].state = "unused" /\ AccountFree(w.user)
  /\ grants' = IF Current(w)
               THEN [WithoutExpired EXCEPT ![g] = [state |-> "live", warrant |-> w, expires |-> now + Lifetime]]
               ELSE WithoutExpired
  /\ Ends(r)
  /\ UNCHANGED <<users, sessions, claims, now, handedOut>>

\* The mail could not be delivered.
RevokeGrant(g) ==
  /\ grants[g].state = "live"
  /\ grants' = [grants EXCEPT ![g].state = "gone"]
  /\ UNCHANGED <<users, sessions, claims, requests, now, handedOut>>

\* `isUsable', before the new password is hashed.
CheckGrant(r, g) ==
  /\ requests[r].at = "idle" /\ Usable(g)
  /\ Becomes(r, [requests[r] EXCEPT !.at = "reset", !.grant = g])
  /\ UNCHANGED <<users, sessions, claims, grants, now, handedOut>>

CompleteReset(r, p) ==
  LET g == requests[r].grant
      u == grants[g].warrant.user IN
  /\ requests[r].at = "reset" /\ AccountFree(u)
  /\ IF Usable(g)
     THEN /\ SetsPassword(u, p)
          /\ grants' = [h \in Grants |-> IF grants[h].state = "live" /\ grants[h].warrant.user = u
                                         THEN [grants[h] EXCEPT !.state = "gone"] ELSE grants[h]]
     ELSE UNCHANGED <<users, grants>>
  /\ Ends(r)
  /\ UNCHANGED <<sessions, claims, now, handedOut>>

Tick ==
  /\ now < MaxTime
  /\ now' = now + 1
  /\ UNCHANGED <<users, sessions, claims, grants, requests, handedOut>>

-----------------------------------------------------------------------------
SignsIn(r) ==
  \/ \E u \in Users : Login(r, u)
  \/ \E c \in Claims : TakeClaim(r, c)
  \/ RereadAccount(r)
  \/ PrepareSession(r)
  \/ \E s \in Sids : CreateSession(r, s)

Renews(r) ==
  \/ \E s \in Sids : Refresh(r, s)
  \/ LockAccount(r)
  \/ ReadExpiry(r)
  \/ RenewSession(r)

LogsOut(r) ==
  \/ \E s \in Sids : Logout(r, s)
  \/ SelectSession(r)
  \/ DeleteSession(r)

ChangesPassword(r) ==
  \/ \E s \in Sids : ProvePassword(r, s)
  \/ \E u \in Users : RequestReset(r, u)
  \/ \E g \in Grants : IssueGrant(r, g) \/ CheckGrant(r, g)
  \/ \E p \in Passwords : ChangePassword(r, p) \/ CompleteReset(r, p)

AccountChanges ==
  \E u \in Users :
    \/ \E c \in Claims : LoginChallenged(c, u) \/ SsoCallback(c, u)
    \/ \E p \in Passwords : AdminSetsPassword(u, p)
    \/ \E i \in Identities : UpdateIdentity(u, i)
    \/ DeleteUser(u)
    \/ UnlinkSso(u)

Elapses ==
  \/ \E c \in Claims : ClaimExpires(c)
  \/ \E g \in Grants : RevokeGrant(g)
  \/ Tick

Next ==
  \/ \E r \in Requests : SignsIn(r) \/ Renews(r) \/ LogsOut(r) \/ ChangesPassword(r)
  \/ AccountChanges
  \/ Elapses

Spec == Init /\ [][Next]_vars

-----------------------------------------------------------------------------
(* Properties *)

\* What a warrant says still holds of its account.
Holds(w) ==
  /\ w.proof \in Passwords => users[w.user].password = w.proof
  /\ w.proof = Sso => users[w.user].linked
  /\ users[w.user].identity = w.identity

\* A session that authenticates a request was opened with the credentials the
\* account has now, and its tokens claim the role and email the account has now,
\* however a sign-in or a refresh interleaved with a password change, an unlink,
\* a role change or a deletion.
SessionsMatchTheirAccount ==
  \A s \in Sids : Active(s) => Holds(sessions[s].warrant)

\* A reset link that still works was mailed to the address the account has now.
GrantsReachTheirOwner ==
  \A g \in Grants : Usable(g) => Holds(grants[g].warrant)

\* A session that ended, by logout, by its lifetime or by a change of its account,
\* never works again: a refresh that read it earlier cannot bring it back.
EndedSessionsStayEnded ==
  [][\A s \in Sids : sessions[s].state # "unused" /\ ~Active(s) => ~Active(s)']_vars

\* What a change of password, email, role or link, or a deletion, leaves behind:
\* no session of the account authenticates, and no outstanding grant resets it.
ChangesEndEverything ==
  [][\A u \in Users :
       \/ users'[u].password # users[u].password \/ users'[u].identity # users[u].identity
       \/ users[u].linked /\ ~users'[u].linked
       \/ users[u].live /\ ~users'[u].live
       => /\ \A s \in Sids : sessions'[s].warrant.user = u => ~Active(s)'
          /\ \A g \in Grants : grants'[g].warrant.user = u => ~Usable(g)']_vars

\* Two refreshes of one session, answered out of order, never shorten it.
RenewalsOnlyExtend ==
  [][\A s \in Sids : sessions[s].state = "live" /\ sessions'[s].state = "live"
        => sessions'[s].expires >= sessions[s].expires]_vars

\* Overlapping logouts hand the provider's ID token to at most one of them.
IdTokenHandedOutOnce == \A s \in Sids : handedOut[s] <= 1

\* An account's own password change takes effect only while the password it
\* verified, before hashing the new one, is still the account's.
ChangesProveThePassword ==
  [][\A r \in Requests :
       requests[r].at = "change" /\ requests'[r].at # "change" /\ users' # users
       => users[requests[r].warrant.user].password = requests[r].warrant.proof]_vars
=============================================================================
