------------------------------ MODULE OneTimeKeys -----------------------------
(***************************************************************************)
(* The integration clients page, where a key is shown once: to the login   *)
(* that created it.  Another tab may replace the login at any moment, and  *)
(* the page may stay mounted under the new one; answers to the requests of *)
(* a replaced login still arrive.                                          *)
(***************************************************************************)
EXTENDS Naturals, Sequences, FiniteSets

CONSTANTS Names, MaxKeys, MaxLogins, None

VARIABLES login,    \* the login of the page, a counter
          clients,  \* per client: its name, its state, the login that created it
          listed,   \* the clients the page last read
          form,     \* the name typed
          shown,    \* the client whose key is on the page
          revokeTarget,   \* the client the revoke dialog names
          requests, \* requests under way: [what, client, login, done]
          busy      \* the buttons that load: subset of {"creating", "revoking"}

keyVars == <<login, clients, listed, form, shown, revokeTarget, requests, busy>>

KeyInit ==
  /\ login = 1
  /\ clients = << >>
  /\ listed = {}
  /\ form = None /\ shown = None /\ revokeTarget = None
  /\ requests = {} /\ busy = {}

nameValid == form # None

Type ==
  /\ revokeTarget = None
  /\ \E n \in Names : n # form /\ form' = n
  /\ UNCHANGED <<login, clients, listed, shown, revokeTarget, requests, busy>>

addClient ==
  /\ revokeTarget = None /\ nameValid /\ "creating" \notin busy
  /\ requests' = requests \cup {[what |-> "create", client |-> None, name |-> form, login |-> login, done |-> "sent"]}
  /\ busy' = busy \cup {"creating"}
  /\ UNCHANGED <<login, clients, listed, form, shown, revokeTarget>>

\* The server stores a client, or revokes one that still lives; either may be refused.
Serve ==
  /\ \E r \in requests :
       /\ r.done = "sent"
       /\ \/ /\ r.what = "create" /\ Len(clients) < MaxKeys
             /\ clients' = Append(clients, [name |-> r.name, revoked |-> FALSE, by |-> r.login])
             /\ requests' = (requests \ {r}) \cup {[r EXCEPT !.done = "stored", !.client = Len(clients) + 1]}
          \/ /\ r.what = "revoke" /\ ~clients[r.client].revoked
             /\ clients' = [clients EXCEPT ![r.client].revoked = TRUE]
             /\ requests' = (requests \ {r}) \cup {[r EXCEPT !.done = "stored"]}
          \/ requests' = (requests \ {r}) \cup {[r EXCEPT !.done = "refused"]} /\ UNCHANGED clients
  /\ UNCHANGED <<login, listed, form, shown, revokeTarget, busy>>

\* Mutant: an answer is taken whoever asked.
TakesEveryAnswer(owner) == TRUE

ownsCurrentSession(owner) == owner = login

\* The answer of a create: of the same login, its key replaces what is shown.
Created ==
  /\ \E r \in requests :
       /\ r.what = "create" /\ r.done # "sent"
       /\ requests' = requests \ {r}
       /\ IF ownsCurrentSession(r.login)
          THEN /\ busy' = busy \ {"creating"}
               /\ IF r.done = "stored" THEN shown' = r.client /\ form' = None ELSE UNCHANGED <<shown, form>>
          ELSE UNCHANGED <<busy, shown, form>>
  /\ UNCHANGED <<login, clients, listed, revokeTarget>>

Reread ==
  /\ listed # DOMAIN clients /\ listed' = DOMAIN clients
  /\ UNCHANGED <<login, clients, form, shown, revokeTarget, requests, busy>>

AskRevoke ==
  /\ revokeTarget = None
  /\ \E c \in listed : revokeTarget' = c
  /\ UNCHANGED <<login, clients, listed, form, shown, requests, busy>>

CloseRevoke ==
  /\ revokeTarget # None /\ "revoking" \notin busy /\ revokeTarget' = None
  /\ UNCHANGED <<login, clients, listed, form, shown, requests, busy>>

revokeClient ==
  /\ revokeTarget # None /\ "revoking" \notin busy
  /\ requests' = requests \cup {[what |-> "revoke", client |-> revokeTarget, name |-> None, login |-> login, done |-> "sent"]}
  /\ busy' = busy \cup {"revoking"}
  /\ UNCHANGED <<login, clients, listed, form, shown, revokeTarget>>

\* A key shown goes with its client; the dialog stays open on a refusal.
Revoked ==
  /\ \E r \in requests :
       /\ r.what = "revoke" /\ r.done # "sent"
       /\ requests' = requests \ {r}
       /\ IF ownsCurrentSession(r.login)
          THEN /\ busy' = busy \ {"revoking"}
               /\ IF r.done = "stored"
                  THEN shown' = (IF shown = r.client THEN None ELSE shown) /\ revokeTarget' = None
                  ELSE UNCHANGED <<shown, revokeTarget>>
          ELSE UNCHANGED <<busy, shown, revokeTarget>>
  /\ UNCHANGED <<login, clients, listed, form>>

Dismiss ==
  /\ revokeTarget = None /\ shown # None /\ shown' = None
  /\ UNCHANGED <<login, clients, listed, form, revokeTarget, requests, busy>>

\* The login is replaced: everything of the page starts over (subscribeAuthLifecycle).
Replace ==
  /\ login < MaxLogins /\ login' = login + 1
  /\ form' = None /\ shown' = None /\ revokeTarget' = None /\ busy' = {}
  /\ UNCHANGED <<clients, listed, requests>>

KeyNext ==
  \/ Type \/ addClient \/ Serve \/ Created \/ Reread \/ AskRevoke \/ CloseRevoke
  \/ revokeClient \/ Revoked \/ Dismiss \/ Replace

KeySpec == KeyInit /\ [][KeyNext]_keyVars

-----------------------------------------------------------------------------
\* A key is on the page only under the login that created it; and while the login lasts a
\* button that loads has its request under way.
KeysStayWithTheirLogin ==
  /\ shown # None => clients[shown].by = login
  /\ "creating" \in busy => \E r \in requests : r.what = "create" /\ r.login = login
  /\ "revoking" \in busy => \E r \in requests : r.what = "revoke" /\ r.login = login
=============================================================================
