---------------------------- MODULE WebPagesProofs ----------------------------
(***************************************************************************)
(* Proofs about pages of the web client, for any number of accounts,       *)
(* texts, clients, documents and writes.  Queries of an account: a         *)
(* snapshot says whose it is, so what is shown is either that account's    *)
(* own snapshot or its storage.  Keys shown once: an answer is taken only  *)
(* by the login that asked, and a login that is replaced takes its key     *)
(* along.  Source syncs: what the dialog compared is what its request      *)
(* carries.  Edit pages: the revision a form sends is that of the document *)
(* it shows, and the re-read that follows an operation began after its     *)
(* write.  Bulk feature changes are kept for every account or for none, a  *)
(* rename reaches the saved view of its row, a registry modal sends what   *)
(* was typed for its own target, rows of a dictionary form become one      *)
(* entry each.  Batches: a report names each document by its place, and    *)
(* what is confirmed is stored over the versions that were previewed.      *)
(***************************************************************************)
EXTENDS AccountQueries, OneTimeKeys, SourceSync, DocumentEditors, FiniteSetTheorems, SequenceTheorems, WellFoundedInduction, TLAPS

-----------------------------------------------------------------------------
(* The queries of an account *)

\* The accounts and texts are told from the markers.
QueryConstants == NoText \notin Texts /\ NoUser \notin Users

\* Texts are kept, and snapshots taken, by the account that put them in.
QueryInv ==
  /\ user \in Users \cup {NoUser}
  /\ storage \in [Users -> [Keys -> {NoText} \cup Texts]]
  /\ known \in [Users -> SUBSET Texts]
  /\ DOMAIN snapshot = Keys
  /\ \A u \in Users, k \in Keys : storage[u][k] \in known[u] \cup {NoText}
  /\ \A k \in Keys : snapshot[k][1] \in Users /\ snapshot[k][2] \in known[snapshot[k][1]] \cup {NoText}

LEMMA QueryInvInit == ASSUME QueryConstants, QueryInit PROVE QueryInv
  BY DEF QueryConstants, QueryInit, QueryInv, Keys

\* A set of the keys is of the account of the session.
LEMMA SetKeepsQueries ==
  ASSUME QueryInv, NEW values, DOMAIN values \subseteq Keys,
         \A k \in DOMAIN values : values[k] \in {NoText} \cup Texts, Set(values), QueryConstants
  PROVE  QueryInv'
<1>1. user \in Users /\ user' = user /\ NoText \notin Texts
  BY DEF Set, QueryInv, QueryConstants
<1> DEFINE kept == known[user] \cup ({values[k] : k \in DOMAIN values} \ {NoText})
<1>2. known' = [known EXCEPT ![user] = kept] /\ kept \subseteq Texts
  BY DEF Set, QueryInv
<1>3. known' \in [Users -> SUBSET Texts]
      /\ \A u \in Users : known[u] \subseteq known'[u]
      /\ \A k \in DOMAIN values : values[k] \in known'[user] \cup {NoText}
  BY <1>1, <1>2 DEF QueryInv
<1>4. PICK lost \in SUBSET DOMAIN values :
        storage' = [storage EXCEPT ![user] = [k \in Keys |-> IF k \in DOMAIN values \ lost THEN values[k] ELSE storage[user][k]]]
  BY DEF Set
<1>5. storage' \in [Users -> [Keys -> {NoText} \cup Texts]]
  BY <1>1, <1>4 DEF QueryInv
<1>6. \A u \in Users, k \in Keys : storage'[u][k] \in known'[u] \cup {NoText}
  BY <1>1, <1>3, <1>4 DEF QueryInv
<1>7. snapshot' = [k \in Keys |-> IF k \in DOMAIN values THEN <<user, values[k]>> ELSE snapshot[k]]
  BY DEF Set
<1>8. \A k \in Keys : snapshot'[k][1] \in Users /\ snapshot'[k][2] \in known'[snapshot'[k][1]] \cup {NoText}
  BY <1>1, <1>3, <1>7 DEF QueryInv
<1> QED
  BY <1>1, <1>3, <1>5, <1>6, <1>7, <1>8 DEF QueryInv

LEMMA DraftsAreTexts ==
  ASSUME QueryInv
  PROVE  Draft \in {NoText} \cup Texts
  BY DEF QueryInv, Draft, Value, Read, Keys

LEMMA QueryStepKeeps == ASSUME QueryConstants, QueryInv, [QueryNext]_queryVars PROVE QueryInv'
<1>1. CASE Normalize
  BY <1>1, SetKeepsQueries DEF Normalize, Keys
<1>2. CASE SetDraft
  <2>1. PICK x \in {NoText} \cup Texts : Set([k \in {"text"} \cup (IF x = NoText THEN {"applied"} ELSE {}) |-> x])
    BY <1>2 DEF SetDraft
  <2> QED
    BY <2>1, SetKeepsQueries DEF Keys
<1>3. CASE Run
  BY <1>3, SetKeepsQueries, DraftsAreTexts DEF Run, Keys
<1>4. CASE Clear
  BY <1>4, SetKeepsQueries DEF Clear, Keys
<1>5. CASE RunText
  <2>1. PICK x \in Texts : Set([k \in {"text", "applied"} |-> x])
    BY <1>5 DEF RunText
  <2> QED
    BY <2>1, SetKeepsQueries DEF Keys
<1>6. CASE SwitchAccount
  BY <1>6 DEF SwitchAccount, QueryInv
<1>7. CASE UNCHANGED queryVars
  BY <1>7 DEF queryVars, QueryInv
<1> QED
  BY <1>1, <1>2, <1>3, <1>4, <1>5, <1>6, <1>7 DEF QueryNext

LEMMA QueriesStay == ASSUME QueryConstants, QueryInv PROVE StaysWithItsAccount
<1>1. \A k \in Keys : Value(k) # NoText => user \in Users /\ Value(k) \in known[user]
  BY DEF QueryInv, QueryConstants, Value, Read
<1> QED
  BY <1>1 DEF QueryConstants, QueryInv, StaysWithItsAccount, Draft, Applied, Keys

\* What is in the bar, and what narrows the page, is a text of the account itself,
\* whichever tab replaces the session and whatever storage loses (useEntityQuery).
THEOREM QueriesAreOwn ==
  ASSUME QueryConstants
  PROVE  QuerySpec => []StaysWithItsAccount
<1>1. QueryInit => QueryInv
  BY QueryInvInit
<1>2. QueryInv /\ [QueryNext]_queryVars => QueryInv'
  BY QueryStepKeeps
<1>3. QueryInv => StaysWithItsAccount
  BY QueriesStay
<1> QED
  BY <1>1, <1>2, <1>3, PTL DEF QuerySpec

LEMMA SetValues ==
  ASSUME QueryInv, NEW values, DOMAIN values \subseteq Keys, Set(values)
  PROVE  \A k \in Keys : Value(k)' = IF k \in DOMAIN values THEN values[k] ELSE Value(k)
<1>1. user \in Users /\ user' = user
  BY DEF Set, QueryInv
<1>2. \A k \in Keys \ DOMAIN values : storage'[user][k] = storage[user][k]
  BY <1>1 DEF Set, QueryInv
<1>3. snapshot' = [k \in Keys |-> IF k \in DOMAIN values THEN <<user, values[k]>> ELSE snapshot[k]]
  BY DEF Set
<1> QED
  BY <1>1, <1>2, <1>3 DEF Value, Read

LEMMA QueryStepNarrows ==
  ASSUME QueryInv, [QueryNext]_queryVars
  PROVE  NarrowsByTheDraft
<1> SUFFICES ASSUME user' = user, Applied' # Applied, Applied' # NoText PROVE Applied' = Draft'
  BY DEF NarrowsByTheDraft
<1>1. CASE Normalize
  BY <1>1, SetValues DEF Normalize, Draft, Applied, Keys
<1>2. CASE SetDraft
  <2>1. PICK x \in {NoText} \cup Texts : Set([k \in {"text"} \cup (IF x = NoText THEN {"applied"} ELSE {}) |-> x])
    BY <1>2 DEF SetDraft
  <2>2. Value("text")' = x /\ (x # NoText => Value("applied")' = Value("applied"))
    BY <2>1, SetValues DEF Keys
  <2>3. ~StalePair /\ user # NoUser
    BY <1>2, <2>1 DEF SetDraft, Set
  <2> QED
    BY <2>2, <2>3 DEF Draft, Applied, StalePair
<1>3. CASE Run
  <2>1. Value("applied")' = Draft /\ Value("text")' = Draft
    BY <1>3, SetValues DEF Run, Draft, Keys
  <2> QED
    BY <2>1 DEF Draft, Applied
<1>4. CASE Clear
  BY <1>4, SetValues DEF Clear, Draft, Applied, Keys
<1>5. CASE RunText
  <2>1. PICK x \in Texts : Set([k \in {"text", "applied"} |-> x])
    BY <1>5 DEF RunText
  <2>2. Value("text")' = x /\ Value("applied")' = x
    BY <2>1, SetValues DEF Keys
  <2> QED
    BY <2>2 DEF Draft, Applied
<1>6. CASE SwitchAccount
  BY <1>6 DEF SwitchAccount
<1>7. CASE UNCHANGED queryVars
  BY <1>7 DEF queryVars, Draft, Applied, Value, Read
<1> QED
  BY <1>1, <1>2, <1>3, <1>4, <1>5, <1>6, <1>7 DEF QueryNext

\* A page comes to be narrowed by another text only when that text is the one in its
\* bar: the text applied never comes from another account or an earlier draft.
THEOREM PagesNarrowByTheDraft ==
  ASSUME QueryConstants
  PROVE  QuerySpec => [][NarrowsByTheDraft]_queryVars
<1>1. QueryInit => QueryInv
  BY QueryInvInit
<1>2. QueryInv /\ [QueryNext]_queryVars => QueryInv'
  BY QueryStepKeeps
<1>3. QueryInv /\ [QueryNext]_queryVars => NarrowsByTheDraft
  BY QueryStepNarrows
<1> QED
  BY <1>1, <1>2, <1>3, PTL DEF QuerySpec

-----------------------------------------------------------------------------
(* Keys shown once *)

KeyConstants == None \notin Nat

KeyClients == [name : Names, revoked : BOOLEAN, by : Nat]
KeyRequests ==
  [what : {"create", "revoke"}, client : Nat \cup {None}, name : Names \cup {None}, login : Nat,
   done : {"sent", "stored", "refused"}]

\* A request is of a login there was; what it stored, or revokes, is a client.
KeyRequestInv(r) ==
  /\ r.login <= login
  /\ r.what = "create" => r.name \in Names
  /\ r.what = "create" /\ r.done = "stored" => r.client \in DOMAIN clients /\ clients[r.client].by = r.login
  /\ r.what = "revoke" => r.client \in DOMAIN clients

KeyInv ==
  /\ login \in Nat /\ clients \in Seq(KeyClients) /\ requests \subseteq KeyRequests
  /\ form \in Names \cup {None}
  /\ listed \subseteq DOMAIN clients /\ revokeTarget \in listed \cup {None}
  /\ busy \subseteq {"creating", "revoking"}
  /\ \A r \in requests : KeyRequestInv(r)
  /\ shown # None => shown \in DOMAIN clients
  /\ KeysStayWithTheirLogin

\* A request sent or answered is of the present login or an earlier one.
LEMMA KeyRequestsKept ==
  ASSUME KeyInv, UNCHANGED login, \A c \in DOMAIN clients : c \in DOMAIN clients' /\ clients'[c].by = clients[c].by,
         NEW r \in requests
  PROVE  KeyRequestInv(r)'
  BY DEF KeyInv, KeyRequestInv

LEMMA ServeKeeps == ASSUME KeyConstants, KeyInv, Serve PROVE KeyInv'
<1> PICK r \in requests :
       /\ r.done = "sent"
       /\ \/ /\ r.what = "create" /\ Len(clients) < MaxKeys
             /\ clients' = Append(clients, [name |-> r.name, revoked |-> FALSE, by |-> r.login])
             /\ requests' = (requests \ {r}) \cup {[r EXCEPT !.done = "stored", !.client = Len(clients) + 1]}
          \/ /\ r.what = "revoke" /\ ~clients[r.client].revoked
             /\ clients' = [clients EXCEPT ![r.client].revoked = TRUE]
             /\ requests' = (requests \ {r}) \cup {[r EXCEPT !.done = "stored"]}
          \/ requests' = (requests \ {r}) \cup {[r EXCEPT !.done = "refused"]} /\ UNCHANGED clients
  BY DEF Serve
<1>1. /\ r \in KeyRequests /\ KeyRequestInv(r)
      /\ UNCHANGED <<login, listed, form, shown, revokeTarget, busy>>
  BY DEF KeyInv, Serve
<1>2. /\ clients' \in Seq(KeyClients)
      /\ \A c \in DOMAIN clients : c \in DOMAIN clients' /\ clients'[c].by = clients[c].by
  <2>1. CASE r.what = "create" /\ clients' = Append(clients, [name |-> r.name, revoked |-> FALSE, by |-> r.login])
    BY <1>1, <2>1 DEF KeyInv, KeyRequests, KeyClients, KeyRequestInv
  <2>2. CASE r.what = "revoke" /\ clients' = [clients EXCEPT ![r.client].revoked = TRUE]
    <3>1. clients[r.client] \in KeyClients /\ r.client \in DOMAIN clients
      BY <1>1, <2>2 DEF KeyInv, KeyRequestInv
    <3> DEFINE c == [clients[r.client] EXCEPT !.revoked = TRUE]
    <3>2. c \in KeyClients /\ c.by = clients[r.client].by
      BY <3>1 DEF KeyClients
    <3>3. clients' = [clients EXCEPT ![r.client] = c]
      BY <2>2
    <3> HIDE DEF c
    <3> QED
      BY <3>1, <3>2, <3>3 DEF KeyInv
  <2>3. CASE UNCHANGED clients
    BY <2>3 DEF KeyInv
  <2> QED
    BY <2>1, <2>2, <2>3
<1>3. PICK q \in KeyRequests :
        /\ requests' = (requests \ {r}) \cup {q} /\ KeyRequestInv(q)'
        /\ q.what = r.what /\ q.login = r.login
  <2>1. CASE /\ r.what = "create"
             /\ clients' = Append(clients, [name |-> r.name, revoked |-> FALSE, by |-> r.login])
             /\ requests' = (requests \ {r}) \cup {[r EXCEPT !.done = "stored", !.client = Len(clients) + 1]}
    <3> PICK q : q = [r EXCEPT !.done = "stored", !.client = Len(clients) + 1]
      OBVIOUS
    <3>0. Len(clients) + 1 \in Nat
      BY DEF KeyInv
    <3>1. q \in KeyRequests /\ q.what = "create" /\ q.login = r.login /\ q.name = r.name /\ q.client = Len(clients) + 1
      BY <1>1, <2>1, <3>0 DEF KeyRequests
    <3>2. q.client \in DOMAIN clients' /\ clients'[q.client].by = r.login
      BY <2>1, <3>1 DEF KeyInv
    <3>3. KeyRequestInv(q)'
      BY <1>1, <2>1, <3>1, <3>2 DEF KeyRequestInv
    <3> QED
      BY <2>1, <3>1, <3>3
  <2>2. ASSUME NEW d \in {"stored", "refused"}, d = "stored" => r.what = "revoke",
               requests' = (requests \ {r}) \cup {[r EXCEPT !.done = d]}
        PROVE  \E q \in KeyRequests :
                 /\ requests' = (requests \ {r}) \cup {q} /\ KeyRequestInv(q)'
                 /\ q.what = r.what /\ q.login = r.login
    <3> PICK q : q = [r EXCEPT !.done = d]
      OBVIOUS
    <3>1. /\ q \in KeyRequests /\ q.what = r.what /\ q.login = r.login /\ q.name = r.name
          /\ q.client = r.client /\ q.done = d
      BY <1>1 DEF KeyRequests
    <3>2. KeyRequestInv(q)'
      BY <1>1, <1>2, <2>2, <3>1 DEF KeyRequestInv
    <3> QED
      BY <2>2, <3>1, <3>2
  <2> QED
    BY <2>1, <2>2
<1>4. \A p \in requests : KeyRequestInv(p)'
  BY <1>1, <1>2, KeyRequestsKept
<1>5. KeysStayWithTheirLogin'
  <2>1. shown' # None => clients'[shown'].by = login'
    BY <1>1, <1>2 DEF KeyInv, KeysStayWithTheirLogin
  <2>2. \A w \in {"create", "revoke"} :
          (\E p \in requests : p.what = w /\ p.login = login) => \E p \in requests' : p.what = w /\ p.login = login'
    BY <1>1, <1>3
  <2> QED
    BY <1>1, <2>1, <2>2 DEF KeyInv, KeysStayWithTheirLogin
<1> QED
  BY <1>1, <1>2, <1>3, <1>4, <1>5 DEF KeyInv

\* A step that asks the server nothing, and makes no login.
LEMMA PageKeeps ==
  ASSUME KeyInv, UNCHANGED <<login, clients, requests, busy>>,
         form' \in Names \cup {None}, listed' \subseteq DOMAIN clients, listed \subseteq listed',
         revokeTarget' \in listed' \cup {None}, shown' \in {shown, None}
  PROVE  KeyInv'
  BY DEF KeyInv, KeyRequestInv, KeysStayWithTheirLogin

\* A request goes out, its button loading.
LEMMA SendKeeps ==
  ASSUME KeyInv, UNCHANGED <<login, clients, listed, form, shown, revokeTarget>>,
         NEW r \in KeyRequests, KeyRequestInv(r), r.login = login, r.done = "sent",
         requests' = requests \cup {r},
         busy' = busy \cup {IF r.what = "create" THEN "creating" ELSE "revoking"}
  PROVE  KeyInv'
<1>1. \A q \in requests' : KeyRequestInv(q)'
  BY DEF KeyInv, KeyRequestInv
<1>2. r.what \in {"create", "revoke"}
  BY DEF KeyRequests
<1> QED
  BY <1>1, <1>2 DEF KeyInv, KeysStayWithTheirLogin

\* An answer is taken by the login that asked.
LEMMA AnswerKeeps ==
  ASSUME KeyConstants, KeyInv, UNCHANGED <<login, clients, listed>>,
         NEW r \in requests, requests' = requests \ {r},
         busy' = busy \ (IF r.login # login THEN {} ELSE IF r.what = "create" THEN {"creating"} ELSE {"revoking"}),
         form' \in {form, None}, revokeTarget' \in {revokeTarget, None},
         \/ shown' \in {shown, None}
         \/ r.login = login /\ r.what = "create" /\ r.done = "stored" /\ shown' = r.client
  PROVE  KeyInv'
<1>1. r \in KeyRequests /\ KeyRequestInv(r)
  BY DEF KeyInv
<1>2. \A q \in requests' : KeyRequestInv(q)'
  BY DEF KeyInv, KeyRequestInv
<1>3. shown' # None => shown' \in DOMAIN clients' /\ clients'[shown'].by = login'
  BY <1>1 DEF KeyInv, KeyRequestInv, KeysStayWithTheirLogin
<1>4. r.what \in {"create", "revoke"}
  BY <1>1 DEF KeyRequests
<1>5. KeysStayWithTheirLogin'
  BY <1>3, <1>4 DEF KeyInv, KeysStayWithTheirLogin
<1> QED
  BY <1>2, <1>3, <1>5 DEF KeyInv

LEMMA KeyStepKeeps == ASSUME KeyConstants, KeyInv, [KeyNext]_keyVars PROVE KeyInv'
<1>1. CASE Type \/ Reread \/ AskRevoke \/ CloseRevoke \/ Dismiss \/ UNCHANGED keyVars
  <2>1. form' \in Names \cup {None} /\ listed' \subseteq DOMAIN clients /\ listed \subseteq listed'
    BY <1>1 DEF KeyInv, Type, Reread, AskRevoke, CloseRevoke, Dismiss, keyVars
  <2>2. /\ UNCHANGED <<login, clients, requests, busy>> /\ revokeTarget' \in listed' \cup {None} /\ shown' \in {shown, None}
    BY <1>1, <2>1 DEF KeyInv, Type, Reread, AskRevoke, CloseRevoke, Dismiss, keyVars
  <2> QED
    BY <2>1, <2>2, PageKeeps
<1>2. CASE addClient
  <2> DEFINE r == [what |-> "create", client |-> None, name |-> form, login |-> login, done |-> "sent"]
  <2>1. r \in KeyRequests /\ KeyRequestInv(r) /\ r.login = login /\ r.done = "sent" /\ r.what = "create"
    BY <1>2 DEF KeyInv, KeyRequests, KeyRequestInv, addClient, nameValid
  <2>2. requests' = requests \cup {r} /\ busy' = busy \cup {"creating"}
        /\ UNCHANGED <<login, clients, listed, form, shown, revokeTarget>>
    BY <1>2 DEF addClient
  <2> HIDE DEF r
  <2> QED
    BY <2>1, <2>2, SendKeeps
<1>3. CASE revokeClient
  <2> DEFINE r == [what |-> "revoke", client |-> revokeTarget, name |-> None, login |-> login, done |-> "sent"]
  <2>1. r \in KeyRequests /\ KeyRequestInv(r) /\ r.login = login /\ r.done = "sent" /\ r.what = "revoke"
    BY <1>3 DEF KeyInv, KeyRequests, KeyRequestInv, revokeClient
  <2>2. requests' = requests \cup {r} /\ busy' = busy \cup {"revoking"}
        /\ UNCHANGED <<login, clients, listed, form, shown, revokeTarget>>
    BY <1>3 DEF revokeClient
  <2> HIDE DEF r
  <2> QED
    BY <2>1, <2>2, SendKeeps
<1>4. CASE Serve
  BY <1>4, ServeKeeps
<1>5. CASE Created
  <2>1. PICK r \in requests :
       /\ r.what = "create" /\ r.done # "sent"
       /\ requests' = requests \ {r}
       /\ IF ownsCurrentSession(r.login)
          THEN /\ busy' = busy \ {"creating"}
               /\ IF r.done = "stored" THEN shown' = r.client /\ form' = None ELSE UNCHANGED <<shown, form>>
          ELSE UNCHANGED <<busy, shown, form>>
    BY <1>5 DEF Created
  <2>2. UNCHANGED <<login, clients, listed, revokeTarget>>
    BY <1>5 DEF Created
  <2> QED
    BY <2>1, <2>2, AnswerKeeps DEF ownsCurrentSession
<1>6. CASE Revoked
  <2>1. PICK r \in requests :
       /\ r.what = "revoke" /\ r.done # "sent"
       /\ requests' = requests \ {r}
       /\ IF ownsCurrentSession(r.login)
          THEN /\ busy' = busy \ {"revoking"}
               /\ IF r.done = "stored"
                  THEN shown' = (IF shown = r.client THEN None ELSE shown) /\ revokeTarget' = None
                  ELSE UNCHANGED <<shown, revokeTarget>>
          ELSE UNCHANGED <<busy, shown, revokeTarget>>
    BY <1>6 DEF Revoked
  <2>2. UNCHANGED <<login, clients, listed, form>>
    BY <1>6 DEF Revoked
  <2> QED
    BY <2>1, <2>2, AnswerKeeps DEF ownsCurrentSession
<1>7. CASE Replace
  <2>1. \A r \in requests' : KeyRequestInv(r)'
    BY <1>7 DEF KeyInv, KeyRequests, KeyRequestInv, Replace
  <2> QED
    BY <1>7, <2>1 DEF KeyInv, KeysStayWithTheirLogin, Replace
<1> QED
  BY <1>1, <1>2, <1>3, <1>4, <1>5, <1>6, <1>7 DEF KeyNext

LEMMA KeysStart == ASSUME KeyInit PROVE KeyInv
  BY DEF KeyInit, KeyInv, KeysStayWithTheirLogin

\* A key that is shown once is shown to the login that made it, however many logins
\* replace each other and however late answers arrive; and a button that loads waits for
\* a request of its own login (IntegrationClients).
THEOREM KeysAreShownToTheirLogin ==
  ASSUME KeyConstants
  PROVE  KeySpec => []KeysStayWithTheirLogin
<1>1. KeyInit => KeyInv
  BY KeysStart
<1>2. KeyInv /\ [KeyNext]_keyVars => KeyInv'
  BY KeyStepKeeps
<1>3. KeyInv => KeysStayWithTheirLogin
  BY DEF KeyInv
<1> QED
  BY <1>1, <1>2, <1>3, PTL DEF KeySpec

-----------------------------------------------------------------------------
(* The sync dialogs *)

SyncConstants == Targets \subseteq {"file", "entity", "blueprint"}

SyncRows == [rev : Nat, url : Urls \cup {Nothing}, doc : Copies, baseline : Copies \cup {Nothing}, synced : Nat]

Syncs == [doc : Copies, guard : [rev : Nat, url : Urls \cup {Nothing}], from : Urls, over : Nat,
          accepted : {"accepted", "INVALID", "empty", Nothing}, answer : {"none", "ok", "conflict", "lost"}]

\* What a query has answered; a row read at a revision has the reference of that revision.
AskedInv(q) ==
  /\ "data" \in DOMAIN asked[q]
  /\ Loaded(q) =>
       /\ q = "detail" => asked[q].data \in SyncRows /\ asked[q].data.rev <= row.rev
                            /\ (asked[q].data.rev = row.rev => asked[q].data.url = row.url)
       /\ q = "copy" => asked[q].data \in [url : Urls, doc : Copies \cup Unusable]
       /\ q = "check" => asked[q].data \in [doc : Copies, verdict : {"accepted", "INVALID", "empty"}]

\* A sync under way carries what was compared, and the guard that stands for it.
ConfirmedInv ==
  confirmed # Nothing =>
    /\ confirmed \in Syncs
    /\ target = "file" => /\ confirmed.guard.rev = confirmed.over /\ confirmed.over <= row.rev
                          /\ confirmed.over = row.rev => confirmed.from = row.url
    /\ target # "file" => confirmed.guard.url = confirmed.from /\ confirmed.accepted = "accepted"

SyncInv ==
  /\ target \in {"file", "entity", "blueprint"}
  /\ row \in SyncRows /\ source \in [Urls -> Copies]
  /\ DOMAIN asked = Queries /\ \A q \in Queries : AskedInv(q)
  /\ ConfirmedInv

\* What the red button writes.
LEMMA WhatIsConfirmed ==
  ASSUME SyncInv, CanConfirm
  PROVE  /\ Loaded("detail") /\ asked["detail"].data \in SyncRows
         /\ RemoteDocument \in Copies
         /\ asked["copy"].data.url = SourceUrl /\ SourceUrl = asked["detail"].data.url /\ SourceUrl \in Urls
         /\ Preflight \in {"accepted", "INVALID", "empty", Nothing}
         /\ target # "file" => Preflight = "accepted"
<1>1. Loaded("detail") /\ RemoteDocument # Nothing /\ (target # "file" => Preflight = "accepted")
  BY DEF SyncInv, CanConfirm, FileConfirm, FileReady, EntityConfirm, EntityReady, BlueprintConfirm, BlueprintReady,
         QuerySettled, Loaded, PreflightAccepted
<1>2. "detail" \in Queries /\ "copy" \in Queries /\ "check" \in Queries
  BY DEF Queries
<1>3. asked["detail"].data \in SyncRows /\ SourceUrl = asked["detail"].data.url
  BY <1>1, <1>2 DEF SyncInv, AskedInv, SourceUrl
<1>4. Fetched # Nothing /\ RemoteDocument = Fetched /\ Fetched \notin Unusable
  BY <1>1 DEF RemoteDocument
<1>5. SourceUrl # Nothing /\ Loaded("copy") /\ asked["copy"].data.url = SourceUrl /\ Fetched = asked["copy"].data.doc
  BY <1>4 DEF Fetched, CopyOf
<1>6. asked["copy"].data \in [url : Urls, doc : Copies \cup Unusable]
  BY <1>2, <1>5 DEF SyncInv, AskedInv
<1>7. Preflight \in {"accepted", "INVALID", "empty", Nothing}
  BY <1>2 DEF SyncInv, AskedInv, Preflight
<1> QED
  BY <1>1, <1>3, <1>4, <1>5, <1>6, <1>7 DEF SyncRows

\* The row stands still: what was read of it, and what is compared with it, stays true.
LEMMA AskedKept ==
  ASSUME SyncInv, UNCHANGED row, NEW q \in Queries, asked'[q] = asked[q]
  PROVE  AskedInv(q)'
  BY DEF SyncInv, AskedInv, Loaded

LEMMA ConfirmedKept ==
  ASSUME SyncInv, UNCHANGED <<target, row, confirmed>>
  PROVE  ConfirmedInv'
  BY DEF SyncInv, ConfirmedInv

\* The row moves on.
LEMMA RowMoves ==
  ASSUME SyncInv, UNCHANGED <<target, asked>>, row' \in SyncRows, row'.rev = row.rev + 1,
         UNCHANGED confirmed \/ (confirmed # Nothing /\ confirmed' = [confirmed EXCEPT !.answer = "ok"])
  PROVE  (\A q \in Queries : AskedInv(q)') /\ ConfirmedInv'
<1>1. row.rev \in Nat
  BY DEF SyncInv, SyncRows
<1>2. ASSUME NEW q \in Queries PROVE AskedInv(q)'
  <2>1. AskedInv(q)
    BY DEF SyncInv
  <2>2. q = "detail" /\ Loaded(q) => asked[q].data.rev \in Nat
    BY <2>1 DEF AskedInv, SyncRows
  <2> QED
    BY <1>1, <2>1, <2>2 DEF AskedInv, Loaded
<1>3. CASE UNCHANGED confirmed
  <2>1. confirmed # Nothing => confirmed.over \in Nat
    BY DEF SyncInv, ConfirmedInv, Syncs
  <2> QED
    BY <1>1, <1>2, <1>3, <2>1 DEF SyncInv, ConfirmedInv
<1>4. CASE confirmed # Nothing /\ confirmed' = [confirmed EXCEPT !.answer = "ok"]
  <2>1. /\ confirmed \in Syncs /\ confirmed' \in Syncs /\ confirmed'.guard = confirmed.guard
        /\ confirmed'.over = confirmed.over /\ confirmed'.from = confirmed.from
        /\ confirmed'.accepted = confirmed.accepted /\ confirmed.over \in Nat
    BY <1>4 DEF SyncInv, ConfirmedInv, Syncs
  <2> QED
    BY <1>1, <1>2, <1>4, <2>1 DEF SyncInv, ConfirmedInv
<1> QED
  BY <1>2, <1>3, <1>4

\* A query starts, is answered or fails.
LEMMA OneAsked ==
  ASSUME SyncInv, UNCHANGED <<target, row, source, confirmed>>, NEW q \in Queries, NEW a,
         asked' = [asked EXCEPT ![q] = a], AskedInv(q)'
  PROVE  SyncInv'
<1>1. DOMAIN asked' = Queries /\ \A p \in Queries \ {q} : asked'[p] = asked[p]
  BY DEF SyncInv
<1>2. \A p \in Queries : AskedInv(p)'
  BY <1>1, AskedKept
<1> QED
  BY <1>1, <1>2, ConfirmedKept DEF SyncInv

LEMMA AnswersFit ==
  ASSUME SyncInv, NEW q \in Queries, QueryAnswered(q)
  PROVE  SyncInv'
<1>1. PICK a \in Answer(q) : asked' = [asked EXCEPT ![q] = [data |-> a, failed |-> FALSE, fetching |-> FALSE]]
  BY DEF QueryAnswered
<1>2. UNCHANGED <<target, row, source, confirmed>>
  BY DEF QueryAnswered
<1>3. asked'[q] = [data |-> a, failed |-> FALSE, fetching |-> FALSE]
  BY <1>1 DEF SyncInv
<1>4. CASE q = "detail"
  <2>1. a = row /\ row \in SyncRows /\ row.rev <= row.rev
    BY <1>1, <1>4 DEF Answer, SyncInv, SyncRows
  <2>2. AskedInv(q)'
    BY <1>2, <1>3, <1>4, <2>1 DEF AskedInv, Loaded
  <2> QED
    BY <1>1, <1>2, <2>2, OneAsked
<1>5. CASE q = "copy"
  <2>1. SourceUrl # Nothing /\ Loaded("detail") /\ SourceUrl = asked["detail"].data.url /\ "detail" \in Queries
    BY <1>5 DEF QueryAnswered, SourceUrl, Queries
  <2>2. SourceUrl \in Urls
    BY <2>1 DEF SyncInv, AskedInv, SyncRows
  <2>3. a \in [url : Urls, doc : Copies \cup Unusable]
    BY <1>1, <1>5, <2>2 DEF Answer, SyncInv
  <2>4. AskedInv(q)'
    BY <1>2, <1>3, <1>5, <2>3 DEF AskedInv, Loaded
  <2> QED
    BY <1>1, <1>2, <2>4, OneAsked
<1>6. CASE q = "check"
  <2>1. RemoteDocument # Nothing /\ Fetched # Nothing /\ RemoteDocument = Fetched /\ Fetched \notin Unusable
    BY <1>6 DEF QueryAnswered, RemoteDocument
  <2>2. Loaded("copy") /\ Fetched = asked["copy"].data.doc /\ "copy" \in Queries
    BY <2>1 DEF Fetched, CopyOf, Queries
  <2>3. RemoteDocument \in Copies
    BY <2>1, <2>2 DEF SyncInv, AskedInv
  <2>4. a \in [doc : Copies, verdict : {"accepted", "INVALID", "empty"}]
    BY <1>1, <1>6, <2>3 DEF Answer, Verdicts
  <2>5. AskedInv(q)'
    BY <1>2, <1>3, <1>6, <2>4 DEF AskedInv, Loaded
  <2> QED
    BY <1>1, <1>2, <2>5, OneAsked
<1>7. CASE q \in {"state", "blueprints"}
  <2>1. AskedInv(q)'
    BY <1>3, <1>7 DEF AskedInv
  <2> QED
    BY <1>1, <1>2, <2>1, OneAsked
<1> QED
  BY <1>4, <1>5, <1>6, <1>7 DEF Queries

\* A query that keeps its data, or has none.
LEMMA SameData ==
  ASSUME SyncInv, UNCHANGED row, NEW q \in Queries, "data" \in DOMAIN asked'[q],
         asked'[q].data \in {asked[q].data, Nothing}
  PROVE  AskedInv(q)'
  BY DEF SyncInv, AskedInv, Loaded

LEMMA ConfirmKeeps ==
  ASSUME SyncInv, ConfirmSourceSync
  PROVE  SyncInv'
<1>1. /\ UNCHANGED <<target, row, source, asked>>
      /\ confirmed' = [doc |-> RemoteDocument, guard |-> Guard, from |-> asked["copy"].data.url,
                       over |-> asked["detail"].data.rev, accepted |-> Preflight, answer |-> "none"]
  BY DEF ConfirmSourceSync
<1>2. CanConfirm
  BY DEF ConfirmSourceSync
<1> DEFINE compared == asked["detail"].data
<1>3. /\ compared.rev \in Nat /\ compared.rev <= row.rev /\ (compared.rev = row.rev => compared.url = row.url)
      /\ compared.url \in Urls
  BY <1>2, WhatIsConfirmed DEF SyncInv, AskedInv, SyncRows, Queries
<1>4. /\ Guard \in [rev : Nat, url : Urls \cup {Nothing}]
      /\ target = "file" => Guard.rev = compared.rev
      /\ target # "file" => Guard.url = compared.url
  BY <1>2, <1>3, WhatIsConfirmed DEF SyncInv, Guard, FileGuard, EntityGuard, BlueprintGuard
<1> HIDE DEF compared
<1>5. ConfirmedInv'
  <2>1. confirmed' \in Syncs
    BY <1>1, <1>2, <1>3, <1>4, WhatIsConfirmed DEF Syncs, compared
  <2> QED
    BY <1>1, <1>2, <1>3, <1>4, <2>1, WhatIsConfirmed DEF ConfirmedInv, compared
<1>6. \A q \in Queries : AskedInv(q)'
  BY <1>1, AskedKept
<1> QED
  BY <1>1, <1>5, <1>6 DEF SyncInv

LEMMA SyncStepKeeps == ASSUME SyncInv, [SyncNext]_syncVars PROVE SyncInv'
<1>1. CASE OpenSync \/ CloseSync
  <2>1. UNCHANGED <<target, row, source, confirmed>> /\ DOMAIN asked' = Queries
        /\ \A q \in Queries : asked'[q] \in {Idle, Fetching}
    BY <1>1 DEF OpenSync, CloseSync
  <2>2. \A q \in Queries : "data" \in DOMAIN asked'[q] /\ asked'[q].data = Nothing
    BY <2>1 DEF Idle, Fetching
  <2>3. \A q \in Queries : AskedInv(q)'
    BY <2>1, <2>2, SameData
  <2> QED
    BY <2>1, <2>3, ConfirmedKept DEF SyncInv
<1>2. CASE ConfirmSourceSync
  BY <1>2, ConfirmKeeps
<1>3. CASE SyncHandled
  <2>1. UNCHANGED <<target, source, asked>> /\ confirmed # Nothing
    BY <1>3 DEF SyncHandled
  <2>2. CASE GuardHolds(confirmed.guard)
    <3>1. /\ row' = [row EXCEPT !.rev = row.rev + 1, !.doc = confirmed.doc, !.baseline = confirmed.doc, !.synced = row.rev + 1]
          /\ confirmed' = [confirmed EXCEPT !.answer = "ok"]
      BY <1>3, <2>2 DEF SyncHandled
    <3>2. row \in SyncRows /\ confirmed.doc \in Copies
      BY <2>1 DEF SyncInv, ConfirmedInv, Syncs
    <3>3. row' = [rev |-> row.rev + 1, url |-> row.url, doc |-> confirmed.doc, baseline |-> confirmed.doc,
                  synced |-> row.rev + 1]
      BY <3>1, <3>2 DEF SyncRows
    <3>4. row.rev + 1 \in Nat /\ row.url \in Urls \cup {Nothing}
      BY <3>2 DEF SyncRows
    <3>5. row' \in SyncRows /\ row'.rev = row.rev + 1
      BY <3>2, <3>3, <3>4 DEF SyncRows
    <3> QED
      BY <2>1, <3>1, <3>5, RowMoves DEF SyncInv
  <2>3. CASE ~GuardHolds(confirmed.guard)
    <3>1. confirmed' = [confirmed EXCEPT !.answer = "conflict"] /\ UNCHANGED row
      BY <1>3, <2>3 DEF SyncHandled
    <3>2. ConfirmedInv'
      BY <2>1, <3>1 DEF SyncInv, ConfirmedInv, Syncs
    <3> QED
      BY <2>1, <3>1, <3>2, AskedKept DEF SyncInv
  <2> QED
    BY <2>2, <2>3
<1>4. CASE SyncLost
  <2>1. UNCHANGED <<target, row, source, asked>> /\ confirmed # Nothing
        /\ confirmed' = [confirmed EXCEPT !.answer = "lost"]
    BY <1>4 DEF SyncLost
  <2>2. ConfirmedInv'
    BY <2>1 DEF SyncInv, ConfirmedInv, Syncs
  <2> QED
    BY <2>1, <2>2, AskedKept DEF SyncInv
<1>5. CASE SyncAnswered
  <2>1. UNCHANGED <<target, row, source>> /\ confirmed' = Nothing
        /\ DOMAIN asked' = Queries /\ \A q \in Queries : asked'[q] \in {asked[q], Idle}
    BY <1>5 DEF SyncAnswered, SyncInv
  <2>2. \A q \in Queries : "data" \in DOMAIN asked'[q] /\ asked'[q].data \in {asked[q].data, Nothing}
    BY <2>1 DEF SyncInv, AskedInv, Idle
  <2>3. \A q \in Queries : AskedInv(q)'
    BY <2>1, <2>2, SameData
  <2> QED
    BY <2>1, <2>3 DEF SyncInv, ConfirmedInv
<1>6. CASE \E q \in Queries : DependentStarts(q) \/ Refetch(q) \/ QueryFails(q)
  <2>1. PICK q \in Queries : DependentStarts(q) \/ Refetch(q) \/ QueryFails(q)
    BY <1>6
  <2>2. UNCHANGED <<target, row, source, confirmed>>
    BY <2>1 DEF DependentStarts, Refetch, QueryFails
  <2>3. "data" \in DOMAIN asked[q] /\ DOMAIN asked = Queries
    BY DEF SyncInv, AskedInv
  <2>4. PICK a : /\ asked' = [asked EXCEPT ![q] = a]
                 /\ "data" \in DOMAIN a /\ a.data \in {asked[q].data, Nothing}
    <3>1. CASE DependentStarts(q)
      <4>1. asked' = [asked EXCEPT ![q] = Fetching]
        BY <3>1 DEF DependentStarts
      <4>2. "data" \in DOMAIN Fetching /\ Fetching.data = Nothing
        BY DEF Fetching, Idle
      <4> QED
        BY <4>1, <4>2
    <3>2. CASE Refetch(q)
      <4> DEFINE a == [asked[q] EXCEPT !.fetching = TRUE]
      <4>1. asked' = [asked EXCEPT ![q] = a]
        BY <3>2 DEF Refetch
      <4>2. "data" \in DOMAIN a /\ a.data = asked[q].data
        BY <2>3
      <4> QED
        BY <4>1, <4>2
    <3>3. CASE QueryFails(q)
      <4> DEFINE a == [[asked[q] EXCEPT !.failed = TRUE] EXCEPT !.fetching = FALSE]
      <4>1. asked' = [asked EXCEPT ![q] = a]
        BY <2>3, <3>3 DEF QueryFails
      <4>2. "data" \in DOMAIN a /\ a.data = asked[q].data
        BY <2>3
      <4> QED
        BY <4>1, <4>2
    <3> QED
      BY <2>1, <3>1, <3>2, <3>3
  <2>5. asked'[q] = a
    BY <2>3, <2>4
  <2>6. AskedInv(q)'
    BY <2>2, <2>4, <2>5, SameData
  <2> QED
    BY <2>2, <2>4, <2>6, OneAsked
<1>7. CASE \E q \in Queries : QueryAnswered(q)
  BY <1>7, AnswersFit
<1>8. CASE RowEdited
  <2>1. UNCHANGED <<target, source, asked, confirmed>> /\ row \in SyncRows
    BY <1>8 DEF RowEdited, SyncInv
  <2>2. row.rev + 1 \in Nat /\ 0 \in Nat
    BY <2>1 DEF SyncRows
  <2>3. CASE \E doc \in Copies : row' = [row EXCEPT !.rev = row.rev + 1, !.doc = doc]
    <3>1. PICK doc \in Copies : row' = [row EXCEPT !.rev = row.rev + 1, !.doc = doc]
      BY <2>3
    <3>2. row' = [rev |-> row.rev + 1, url |-> row.url, doc |-> doc, baseline |-> row.baseline, synced |-> row.synced]
      BY <2>1, <3>1 DEF SyncRows
    <3>3. row' \in SyncRows /\ row'.rev = row.rev + 1
      BY <2>1, <2>2, <3>2 DEF SyncRows
    <3> QED
      BY <2>1, <3>3, RowMoves DEF SyncInv
  <2>4. CASE \E url \in (Urls \cup {Nothing}) \ {row.url} :
               row' = [row EXCEPT !.rev = row.rev + 1, !.url = url, !.baseline = Nothing, !.synced = 0]
    <3>1. PICK url \in Urls \cup {Nothing} :
            row' = [row EXCEPT !.rev = row.rev + 1, !.url = url, !.baseline = Nothing, !.synced = 0]
      BY <2>4
    <3>2. row' = [rev |-> row.rev + 1, url |-> url, doc |-> row.doc, baseline |-> Nothing, synced |-> 0]
      BY <2>1, <3>1 DEF SyncRows
    <3>3. row' \in SyncRows /\ row'.rev = row.rev + 1
      BY <2>1, <2>2, <3>2 DEF SyncRows
    <3> QED
      BY <2>1, <3>3, RowMoves DEF SyncInv
  <2> QED
    BY <1>8, <2>3, <2>4 DEF RowEdited
<1>9. CASE SourceMoves
  <2>1. UNCHANGED <<target, row, asked, confirmed>> /\ source' \in [Urls -> Copies]
    BY <1>9 DEF SourceMoves, SyncInv
  <2> QED
    BY <2>1, AskedKept, ConfirmedKept DEF SyncInv
<1>10. CASE UNCHANGED syncVars
  BY <1>10, AskedKept, ConfirmedKept DEF syncVars, SyncInv
<1> QED
  BY <1>1, <1>2, <1>3, <1>4, <1>5, <1>6, <1>7, <1>8, <1>9, <1>10 DEF SyncNext

\* Only the server's handling of a sync applies it, when its guard holds.
LEMMA AppliedAsCompared == ASSUME SyncInv, [SyncNext]_syncVars PROVE WritesWhatWasCompared
<1> SUFFICES ASSUME SyncApplied
             PROVE  /\ confirmed.from = row.url
                    /\ target = "file" => confirmed.over = row.rev
                    /\ target # "file" => confirmed.accepted = "accepted"
  BY DEF WritesWhatWasCompared
<1>1. row' # row /\ confirmed # Nothing /\ ConfirmedInv /\ UNCHANGED confirmed => confirmed'.answer = "none"
  BY DEF SyncApplied
<1>2. GuardHolds(confirmed.guard)
  BY <1>1 DEF SyncApplied, SyncNext, syncVars, OpenSync, CloseSync, ConfirmSourceSync, SyncHandled, SyncLost, SyncAnswered,
         DependentStarts, Refetch, QueryAnswered, QueryFails, RowEdited, SourceMoves
<1> QED
  BY <1>2 DEF SyncApplied, SyncInv, ConfirmedInv, GuardHolds

LEMMA SyncStarts == ASSUME SyncConstants, SyncInit PROVE SyncInv
  BY DEF SyncConstants, SyncInit, SyncInv, Rows, SyncRows, Idle, AskedInv, Loaded, ConfirmedInv

\* A confirmed sync writes a document of the reference the row carries when it is
\* written; a file over the revision its diff was made with only, an entity or a blueprint
\* only what the dry run accepted, whatever others write while the dialog is open.
THEOREM SyncsWriteWhatWasCompared ==
  ASSUME SyncConstants
  PROVE  SyncSpec => [][WritesWhatWasCompared]_syncVars
<1>1. SyncInit => SyncInv
  BY SyncStarts
<1>2. SyncInv /\ [SyncNext]_syncVars => SyncInv'
  BY SyncStepKeeps
<1>3. SyncInv /\ [SyncNext]_syncVars => WritesWhatWasCompared
  BY AppliedAsCompared
<1> QED
  BY <1>1, <1>2, <1>3, PTL DEF SyncSpec

-----------------------------------------------------------------------------
(* The edit pages *)

EditorConstants == Kinds \subseteq {"file", "entity", "blueprint", "mapping"}

StoredDocuments == [rev : Nat, source : Sources]

DetailQueries == [data : StoredDocuments \cup {Missing}, failed : BOOLEAN, fetching : BOOLEAN,
                  read : StoredDocuments \cup {Missing}, reseeds : BOOLEAN]

Forms == [shows : StoredDocuments \cup {Missing}, guard : Nat,
          message : {"none", "error", "conflict", "findings", "left"}, waiver : StoredDocuments \cup {Missing}]

SentRequests == [of : {"save", "anyway", "overwrite", "sync"}, expected : Nat, base : Nat, source : Sources,
                 after : Nat, wrote : Nat, answer : {"none", "ok", "conflict", "soft", "refused", "lost"}]

\* What was read of the document, at the revision it had then.
AsRead(d) == d.rev <= stored.rev /\ (d.rev = stored.rev => d = stored)

\* An answer under way was read after the page's own last write: that write cancels the fetch before it.
DetailInv ==
  /\ detail \in DetailQueries
  /\ detail.data # Missing => AsRead(detail.data)
  /\ detail.read # Missing => AsRead(detail.read) /\ own <= detail.read.rev

\* The form of a file guards what it shows; the others show what followed the page's own last
\* write, unless its re-read is still to come.
FormInv ==
  /\ editor \in Forms
  /\ kind # "entity" /\ Stays /\ detail.data # Missing => editor.shows # Missing
  /\ editor.shows # Missing /\ kind = "file" => editor.guard = editor.shows.rev
  /\ editor.shows # Missing /\ kind # "file" /\ ~detail.reseeds => own <= editor.shows.rev

\* A request carries what the user saw when it was sent.
SentInv(f) ==
  sent[f] # Missing =>
    /\ sent[f] \in SentRequests
    /\ sent[f].wrote <= stored.rev /\ sent[f].after <= stored.rev
    /\ kind = "file" /\ sent[f].of # "anyway" => sent[f].expected = sent[f].base
    /\ sent[f].of = "overwrite" => sent[f].base <= stored.rev /\ (sent[f].base = stored.rev => sent[f].source = stored.source)
    /\ sent[f].of = "save" /\ kind # "file" => sent[f].after <= sent[f].base

EditorInv ==
  /\ kind \in {"file", "entity", "blueprint", "mapping"}
  /\ stored \in StoredDocuments
  /\ own \in Nat /\ own <= stored.rev
  /\ kind = "mapping" => dialog = "closed" /\ sent["operation"] = Missing /\ own = 0
  /\ DetailInv /\ FormInv
  /\ DOMAIN sent = Flows /\ \A f \in Flows : SentInv(f)

LEMMA RevisionsAreNumbers ==
  ASSUME EditorInv
  PROVE  /\ stored.rev \in Nat /\ own \in Nat
         /\ detail.data # Missing => detail.data.rev \in Nat /\ detail.data.source \in Sources
         /\ detail.read # Missing => detail.read.rev \in Nat
         /\ editor.shows # Missing => editor.shows.rev \in Nat
         /\ editor.waiver # Missing => editor.waiver.rev \in Nat /\ editor.waiver.source \in Sources
         /\ \A f \in Flows : sent[f] # Missing =>
              sent[f].base \in Nat /\ sent[f].wrote \in Nat /\ sent[f].after \in Nat /\ sent[f].expected \in Nat
                /\ sent[f].source \in Sources
  BY DEF EditorInv, DetailInv, FormInv, SentInv, StoredDocuments, DetailQueries, Forms, SentRequests

\* The document stands still, or a write makes a revision of it.
Moves == stored' = stored \/ (stored' \in StoredDocuments /\ stored'.rev = stored.rev + 1)

LEMMA SentKept ==
  ASSUME EditorInv, Moves, UNCHANGED kind, NEW f \in Flows, sent'[f] = sent[f]
  PROVE  SentInv(f)'
  BY RevisionsAreNumbers DEF EditorInv, SentInv, Moves

LEMMA DetailKept ==
  ASSUME EditorInv, Moves, UNCHANGED detail, own' \in Nat, own' <= own
  PROVE  DetailInv'
  BY RevisionsAreNumbers DEF EditorInv, DetailInv, AsRead, Moves

LEMMA FormKept ==
  ASSUME EditorInv, UNCHANGED <<kind, detail, own>>, editor' \in Forms,
         editor'.shows = editor.shows, editor'.guard = editor.guard, Stays' => Stays
  PROVE  FormInv'
  BY DEF EditorInv, FormInv

\* One request is sent, handled or lost; everything else keeps.
LEMMA OneSent ==
  ASSUME EditorInv, Moves, stored' \in StoredDocuments, UNCHANGED <<kind, detail, dialog, own>>, FormInv',
         NEW f \in Flows, NEW r, sent' = [sent EXCEPT ![f] = r], SentInv(f)',
         kind = "mapping" /\ f = "operation" => r = Missing
  PROVE  EditorInv'
<1>1. DOMAIN sent' = Flows /\ \A g \in Flows \ {f} : sent'[g] = sent[g]
  BY DEF EditorInv
<1>2. \A g \in Flows : SentInv(g)'
  BY <1>1, SentKept
<1>3. DetailInv'
  BY RevisionsAreNumbers, DetailKept
<1>4. own <= stored'.rev
  BY RevisionsAreNumbers DEF EditorInv, Moves
<1>5. kind = "mapping" => sent'["operation"] = Missing
  BY DEF EditorInv, Flows
<1> QED
  BY <1>1, <1>2, <1>3, <1>4, <1>5 DEF EditorInv

LEMMA SubmitKeeps == ASSUME EditorInv, Submit PROVE EditorInv'
<1>1. UNCHANGED <<kind, stored, detail, dialog, own>> /\ editor' = [editor EXCEPT !.message = "none"]
  BY DEF Submit
<1>2. editor.shows # Missing
  BY DEF Submit, EditorShown, EntityFormShown, FileEditorShown, EditorInv, FormInv
<1> DEFINE expected == IF kind = "file" THEN editor.guard ELSE 0
<1>3. PICK s \in Sources : sent' = [sent EXCEPT !["save"] = Request("save", expected, editor.shows.rev, s)]
  BY DEF Submit
<1>4. PICK r : r = Request("save", expected, editor.shows.rev, s)
  OBVIOUS
<1>5. /\ r.of = "save" /\ r.base = editor.shows.rev /\ r.wrote = 0
      /\ r.after = (IF detail.reseeds THEN 0 ELSE own)
      /\ kind = "file" => r.expected = r.base
      /\ r \in SentRequests
  BY <1>2, <1>4, RevisionsAreNumbers DEF Request, SentRequests, EditorInv, FormInv, Forms
<1>6. editor' \in Forms /\ editor'.shows = editor.shows /\ editor'.guard = editor.guard /\ Stays
  BY <1>1 DEF EditorInv, FormInv, Forms, Submit, EditorShown, EntityFormShown, FileEditorShown
<1>7. FormInv'
  BY <1>1, <1>6, FormKept
<1>8. "save" \in Flows /\ sent'["save"] = r
  BY <1>3, <1>4 DEF EditorInv, Flows
<1>9. SentInv("save")'
  <2>1. stored.rev \in Nat /\ own \in Nat /\ editor.shows.rev \in Nat /\ own <= stored.rev
    BY <1>2, RevisionsAreNumbers DEF EditorInv
  <2>2. r.wrote <= stored.rev
    BY <1>5, <2>1
  <2>3. r.after <= stored.rev /\ (kind # "file" => r.after <= r.base)
    <3>1. CASE detail.reseeds
      <4>1. r.after = 0 /\ r.base \in Nat
        BY <1>5, <2>1, <3>1
      <4> QED
        BY <2>1, <4>1
    <3>2. CASE ~detail.reseeds
      <4>1. r.after = own /\ r.base = editor.shows.rev
        BY <1>5, <3>2
      <4>2. kind # "file" => own <= editor.shows.rev
        BY <1>2, <3>2 DEF EditorInv, FormInv
      <4> QED
        BY <2>1, <4>1, <4>2
    <3> QED
      BY <3>1, <3>2
  <2>4. kind' = kind /\ stored' = stored
    BY <1>1
  <2> QED
    BY <1>5, <1>8, <2>2, <2>3, <2>4 DEF SentInv
<1> QED
  BY <1>1, <1>3, <1>4, <1>7, <1>8, <1>9, OneSent DEF Moves, EditorInv
LEMMA SaveAnywayKeeps == ASSUME EditorInv, SaveAnyway PROVE EditorInv'
<1>1. UNCHANGED <<kind, stored, detail, editor, dialog, own>> /\ editor.waiver # Missing
  BY DEF SaveAnyway
<1>2. sent' = [sent EXCEPT !["save"] = Request("anyway", editor.guard, editor.waiver.rev, editor.waiver.source)]
  BY DEF SaveAnyway
<1>3. PICK r : r = Request("anyway", editor.guard, editor.waiver.rev, editor.waiver.source)
  OBVIOUS
<1>4. r.of = "anyway" /\ r.wrote = 0 /\ r.after = (IF detail.reseeds THEN 0 ELSE own) /\ r \in SentRequests
  BY <1>1, <1>3, RevisionsAreNumbers DEF Request, SentRequests, EditorInv, FormInv, Forms
<1>5. "save" \in Flows /\ sent'["save"] = r
  BY <1>2, <1>3 DEF EditorInv, Flows
<1>6. SentInv("save")'
  <2>1. r.after <= stored.rev /\ r.wrote <= stored.rev
    BY <1>4, RevisionsAreNumbers DEF EditorInv
  <2> QED
    BY <1>1, <1>4, <1>5, <2>1 DEF SentInv
<1>7. FormInv'
  BY <1>1, FormKept DEF EditorInv, FormInv, Stays
<1> QED
  BY <1>1, <1>2, <1>3, <1>5, <1>6, <1>7, OneSent DEF Moves, EditorInv

\* What an operation beside the form carries is the settled answer of the query.
LEMMA OperationKeeps ==
  ASSUME EditorInv, UNCHANGED <<kind, stored, detail, editor, dialog, own>>, kind # "mapping",
         detail.data # Missing, NEW of \in {"overwrite", "sync"}, NEW expected \in Nat,
         kind = "file" => expected = detail.data.rev,
         sent' = [sent EXCEPT !["operation"] = Request(of, expected, detail.data.rev, detail.data.source)]
  PROVE  EditorInv'
<1>1. PICK r : r = Request(of, expected, detail.data.rev, detail.data.source)
  OBVIOUS
<1>2. /\ r.of = of /\ r.wrote = 0 /\ r.after = (IF detail.reseeds THEN 0 ELSE own) /\ r \in SentRequests
      /\ r.expected = expected /\ r.base = detail.data.rev /\ r.source = detail.data.source
  BY <1>1, RevisionsAreNumbers DEF Request, SentRequests
<1>3. "operation" \in Flows /\ sent'["operation"] = r
  BY <1>1 DEF EditorInv, Flows
<1>4. SentInv("operation")'
  <2>1. r.after <= stored.rev /\ r.wrote <= stored.rev
    BY <1>2, RevisionsAreNumbers DEF EditorInv
  <2>2. r.base <= stored.rev /\ (r.base = stored.rev => r.source = stored.source)
    BY <1>2 DEF EditorInv, DetailInv, AsRead
  <2> QED
    BY <1>2, <1>3, <2>1, <2>2 DEF SentInv
<1>5. FormInv'
  BY FormKept DEF EditorInv, FormInv, Stays
<1> QED
  BY <1>1, <1>3, <1>4, <1>5, OneSent DEF Moves, EditorInv

LEMMA ConfirmsKeep == ASSUME EditorInv, ConfirmOverwrite \/ ConfirmSync PROVE EditorInv'
<1>1. UNCHANGED <<kind, stored, detail, editor, dialog, own>> /\ kind # "mapping" /\ detail.data # Missing
  BY DEF ConfirmOverwrite, ConfirmSync, EditorInv, EditorShown, EntityFormShown, FileEditorShown
<1>2. detail.data.rev \in Nat
  BY <1>1, RevisionsAreNumbers
<1>3. CASE ConfirmOverwrite
  <2>1. sent' = [sent EXCEPT !["operation"] = Request("overwrite", detail.data.rev, detail.data.rev, detail.data.source)]
    BY <1>3 DEF ConfirmOverwrite, OverwriteRequest
  <2> QED
    BY <1>1, <1>2, <2>1, OperationKeeps
<1>4. CASE ConfirmSync
  <2>1. PICK expected : expected = (IF kind = "file" THEN detail.data.rev ELSE 0)
    OBVIOUS
  <2>2. expected \in Nat /\ (kind = "file" => expected = detail.data.rev)
    BY <1>2, <2>1
  <2>3. sent' = [sent EXCEPT !["operation"] = Request("sync", expected, detail.data.rev, detail.data.source)]
    BY <1>4, <2>1 DEF ConfirmSync
  <2> QED
    BY <1>1, <2>2, <2>3, OperationKeeps
<1> QED
  BY <1>3, <1>4

\* The server handles a request: it writes the next revision, or refuses.
LEMMA HandledKeeps == ASSUME EditorInv, NEW f \in Flows, WriteHandled(f) PROVE EditorInv'
<1>1. UNCHANGED <<kind, detail, editor, dialog, own>> /\ sent[f] # Missing
  BY DEF WriteHandled
<1>2. PICK v \in Outcomes(sent[f]) :
        /\ sent' = [sent EXCEPT ![f] = [sent[f] EXCEPT !.answer = v, !.wrote = IF v = "ok" THEN stored.rev + 1 ELSE 0]]
        /\ stored' = IF v # "ok" THEN stored
                     ELSE [rev |-> stored.rev + 1, source |-> IF sent[f].of = "sync" THEN stored.source ELSE sent[f].source]
  BY DEF WriteHandled
<1>3. PICK w : w = (IF v = "ok" THEN stored.rev + 1 ELSE 0)
  OBVIOUS
<1>4. stored.rev \in Nat /\ stored.rev + 1 \in Nat /\ w \in Nat /\ stored.source \in Sources /\ sent[f].source \in Sources
  BY <1>1, <1>3, RevisionsAreNumbers DEF EditorInv, StoredDocuments
<1>5. Moves /\ stored' \in StoredDocuments /\ w <= stored'.rev /\ stored.rev <= stored'.rev
  BY <1>2, <1>3, <1>4 DEF Moves, EditorInv, StoredDocuments
<1>6. v \in {"ok", "conflict", "soft", "refused"}
  BY <1>2 DEF Outcomes
<1>7. PICK r : r = [sent[f] EXCEPT !.answer = v, !.wrote = w]
  OBVIOUS
<1>8. sent[f] \in SentRequests
  BY <1>1 DEF EditorInv, SentInv
<1>9. /\ r = [of |-> sent[f].of, expected |-> sent[f].expected, base |-> sent[f].base, source |-> sent[f].source,
              after |-> sent[f].after, wrote |-> w, answer |-> v]
  BY <1>7, <1>8 DEF SentRequests
<1>10. r \in SentRequests
  BY <1>4, <1>6, <1>8, <1>9 DEF SentRequests
<1>11. sent' = [sent EXCEPT ![f] = r] /\ sent'[f] = r
  BY <1>2, <1>3, <1>7 DEF EditorInv
<1>12. SentInv(f)'
  <2>1. SentInv(f)
    BY DEF EditorInv
  <2>2. r.wrote = w /\ r.after = sent[f].after /\ r.base = sent[f].base /\ r.of = sent[f].of
        /\ r.expected = sent[f].expected /\ r.source = sent[f].source
    BY <1>9
  <2>3. r.wrote <= stored'.rev /\ r.after <= stored'.rev
    <3>1. stored'.rev \in Nat
      BY <1>5 DEF StoredDocuments
    <3>2. sent[f].after \in Nat /\ sent[f].after <= stored.rev
      BY <1>1, <2>1, RevisionsAreNumbers DEF SentInv
    <3> QED
      BY <1>4, <1>5, <2>2, <3>1, <3>2
  <2>4. r.of = "overwrite" => r.base <= stored'.rev /\ (r.base = stored'.rev => r.source = stored'.source)
    <3>1. CASE stored' = stored
      BY <1>1, <2>1, <2>2, <3>1 DEF SentInv
    <3>2. CASE stored'.rev = stored.rev + 1
      BY <1>1, <1>4, <2>1, <2>2, <3>2, RevisionsAreNumbers DEF SentInv
    <3> QED
      BY <1>5, <3>1, <3>2 DEF Moves
  <2> QED
    BY <1>1, <1>10, <1>11, <2>1, <2>2, <2>3, <2>4 DEF SentInv
<1>13. FormInv'
  BY <1>1, FormKept DEF EditorInv, FormInv, Stays
<1>14. kind = "mapping" => f # "operation"
  BY <1>1 DEF EditorInv
<1> QED
  BY <1>1, <1>5, <1>11, <1>12, <1>13, <1>14, OneSent

LEMMA LostKeeps == ASSUME EditorInv, NEW f \in Flows, AnswerLost(f) PROVE EditorInv'
<1>1. UNCHANGED <<kind, stored, detail, editor, dialog, own>> /\ sent[f] # Missing
  BY DEF AnswerLost
<1>2. PICK r : r = [sent[f] EXCEPT !.answer = "lost"]
  OBVIOUS
<1>3. sent' = [sent EXCEPT ![f] = r]
  BY <1>2 DEF AnswerLost
<1>4. SentInv(f) /\ sent'[f] = r
  BY <1>3 DEF EditorInv
<1>5. r \in SentRequests /\ r.wrote = sent[f].wrote /\ r.after = sent[f].after /\ r.base = sent[f].base
      /\ r.of = sent[f].of /\ r.expected = sent[f].expected /\ r.source = sent[f].source
  BY <1>1, <1>2, <1>4 DEF SentInv, SentRequests
<1>6. SentInv(f)'
  BY <1>1, <1>4, <1>5 DEF SentInv
<1>7. FormInv'
  BY <1>1, FormKept DEF EditorInv, FormInv, Stays
<1>8. kind = "mapping" => f # "operation"
  BY <1>1 DEF EditorInv
<1> QED
  BY <1>1, <1>3, <1>6, <1>7, <1>8, OneSent DEF Moves, EditorInv
\* Answers of the query reach the form.
LEMMA DetailAnsweredKeeps == ASSUME EditorInv, DetailAnswered PROVE EditorInv'
<1>1. UNCHANGED <<kind, stored, dialog, sent, own>> /\ Stays /\ detail.read # Missing
  BY DEF DetailAnswered
<1>2. PICK d : d = detail.read
  OBVIOUS
<1>3. d # Missing /\ d \in StoredDocuments /\ d.rev \in Nat /\ AsRead(d) /\ own <= d.rev
  BY <1>1, <1>2 DEF EditorInv, DetailInv, DetailQueries, StoredDocuments
<1>4. detail' = [data |-> d, failed |-> FALSE, fetching |-> FALSE, read |-> Missing, reseeds |-> FALSE]
  BY <1>2 DEF DetailAnswered
<1>5. DetailInv'
  BY <1>1, <1>3, <1>4 DEF DetailInv, DetailQueries, AsRead
<1>6. editor' = IF detail.reseeds /\ editor.shows # Missing THEN Reseeded(editor, d) ELSE Seen(editor, d)
  BY <1>2 DEF DetailAnswered
<1>7. editor \in Forms
  BY DEF EditorInv, FormInv
<1>8. /\ editor' \in {editor, [editor EXCEPT !.shows = d], [editor EXCEPT !.shows = d, !.guard = d.rev]}
      /\ editor' = editor => (editor.shows # Missing /\ ~detail.reseeds) \/ editor'.shows = d
      /\ kind = "file" => editor' \in {editor, [editor EXCEPT !.shows = d, !.guard = d.rev]}
  <2>1. CASE editor.shows = Missing
    BY <1>6, <2>1 DEF Seen, FileSeen, BlueprintSeen, EntitySeen, MappingSeen, EditorInv
  <2>2. CASE editor.shows # Missing /\ ~detail.reseeds
    BY <1>6, <2>2 DEF Seen, FileSeen, BlueprintSeen, EntitySeen, MappingSeen, EditorInv
  <2>3. CASE editor.shows # Missing /\ detail.reseeds
    BY <1>6, <2>3 DEF Reseeded, FileReseeded, BlueprintReseeded, EntityReseeded, EditorInv
  <2> QED
    BY <2>1, <2>2, <2>3
<1>9. FormInv'
  <2>1. CASE editor' = editor
    BY <1>1, <1>3, <1>4, <1>8, <2>1 DEF EditorInv, FormInv, Stays
  <2>2. CASE editor' = [editor EXCEPT !.shows = d] /\ kind # "file"
    <3>1. editor' \in Forms /\ editor'.shows = d /\ editor'.message = editor.message
      BY <1>3, <1>7, <2>2 DEF Forms
    <3> QED
      BY <1>1, <1>3, <1>4, <2>2, <3>1 DEF FormInv
  <2>3. CASE editor' = [editor EXCEPT !.shows = d, !.guard = d.rev]
    <3>1. editor' = [shows |-> d, guard |-> d.rev, message |-> editor.message, waiver |-> editor.waiver]
      BY <1>7, <2>3 DEF Forms
    <3>2. editor' \in Forms /\ editor'.shows = d /\ editor'.guard = d.rev
      BY <1>3, <1>7, <3>1 DEF Forms
    <3> QED
      BY <1>1, <1>3, <1>4, <3>2 DEF FormInv
  <2> QED
    BY <1>8, <2>1, <2>2, <2>3
<1>10. \A f \in Flows : SentInv(f)'
  BY <1>1, SentKept DEF Moves, EditorInv
<1> QED
  BY <1>1, <1>5, <1>9, <1>10 DEF EditorInv

\* The query is asked again, read, or fails; the form of an entity goes with it.
LEMMA DetailKeeps ==
  ASSUME EditorInv, BackgroundRefetch \/ DetailRead \/ DetailFails
  PROVE  EditorInv'
<1>1. UNCHANGED <<kind, stored, dialog, sent>> /\ Stays
  BY DEF BackgroundRefetch, DetailRead, DetailFails
<1>2. \A f \in Flows : SentInv(f)'
  BY <1>1, SentKept DEF Moves, EditorInv
<1>3. detail \in DetailQueries /\ stored \in StoredDocuments /\ stored.rev \in Nat /\ own <= stored.rev
  BY DEF EditorInv, DetailInv, StoredDocuments
<1>4. CASE BackgroundRefetch \/ DetailRead
  <2>1. UNCHANGED <<editor, own>>
    BY <1>4 DEF BackgroundRefetch, DetailRead
  <2>2. /\ detail' \in DetailQueries /\ detail'.data = detail.data /\ detail'.reseeds = detail.reseeds
        /\ detail'.read \in {detail.read, stored}
    BY <1>3, <1>4 DEF BackgroundRefetch, DetailRead, DetailQueries
  <2>3. DetailInv'
    BY <1>1, <1>3, <2>1, <2>2 DEF DetailInv, AsRead, EditorInv
  <2>4. FormInv'
    BY <1>1, <2>1, <2>2 DEF EditorInv, FormInv, Stays
  <2> QED
    BY <1>1, <1>2, <2>1, <2>3, <2>4 DEF EditorInv
<1>5. CASE DetailFails
  <2>1. /\ editor' = (IF kind = "entity" THEN Blank ELSE editor)
        /\ own' = (IF kind = "blueprint" /\ detail.reseeds THEN 0 ELSE own)
        /\ detail' = [detail EXCEPT !.failed = TRUE, !.fetching = FALSE, !.read = Missing, !.reseeds = FALSE]
    BY <1>5 DEF DetailFails
  <2>2. detail' = [data |-> detail.data, failed |-> TRUE, fetching |-> FALSE, read |-> Missing, reseeds |-> FALSE]
    BY <1>3, <2>1 DEF DetailQueries
  <2>3. DetailInv'
    BY <1>1, <1>3, <2>2 DEF DetailInv, DetailQueries, AsRead, EditorInv
  <2>4. own' \in Nat /\ own' <= own
    BY <2>1 DEF EditorInv
  <2>5. FormInv'
    <3>1. CASE kind = "entity"
      BY <1>1, <2>1, <3>1 DEF FormInv, Forms, Blank
    <3>2. CASE kind = "file"
      BY <1>1, <2>1, <2>2, <3>2 DEF FormInv, EditorInv, Stays
    <3>3. CASE kind = "mapping"
      <4>1. own' = 0
        BY <2>1, <3>3 DEF EditorInv
      <4> QED
        BY <1>1, <2>1, <2>2, <3>3, <4>1, RevisionsAreNumbers DEF FormInv, EditorInv, Stays
    <3>4. CASE kind = "blueprint"
      BY <1>1, <2>1, <2>2, <3>4, RevisionsAreNumbers DEF FormInv, EditorInv, Stays
    <3> QED
      BY <3>1, <3>2, <3>3, <3>4 DEF EditorInv
  <2>6. own' <= stored'.rev
    BY <1>1, <1>3, <2>4 DEF EditorInv
  <2>7. kind' = "mapping" => own' = 0
    BY <1>1, <2>1 DEF EditorInv
  <2> QED
    BY <1>1, <1>2, <2>3, <2>4, <2>5, <2>6, <2>7 DEF EditorInv
<1> QED
  BY <1>4, <1>5

\* The answers of the form's save, and of the operation beside it.
LEMMA SaveAnsweredKeeps == ASSUME EditorInv, SaveAnswered PROVE EditorInv'
<1>1. UNCHANGED <<kind, stored, detail, dialog, own>> /\ Stays /\ sent["save"] # Missing
      /\ sent' = [sent EXCEPT !["save"] = Missing]
  BY DEF SaveAnswered
<1>2. "save" \in Flows /\ SentInv("save")' /\ SentInv("save")
  BY <1>1 DEF Flows, EditorInv, SentInv
<1>3. sent["save"] \in SentRequests /\ editor \in Forms
  BY <1>1, <1>2 DEF SentInv, EditorInv, FormInv
<1>4. FormInv'
  <2>1. CASE sent["save"].answer = "ok"
    <3>1. editor' = [Blank EXCEPT !.message = "left"]
      BY <2>1 DEF SaveAnswered
    <3>2. editor' = [shows |-> Missing, guard |-> 0, message |-> "left", waiver |-> Missing]
      BY <3>1 DEF Blank
    <3> QED
      BY <3>2 DEF FormInv, Forms, Stays
  <2>2. CASE sent["save"].answer # "ok" /\ editor.shows = Missing
    BY <1>1, <2>2, FormKept DEF SaveAnswered, EditorInv, FormInv, Stays
  <2>3. CASE sent["save"].answer # "ok" /\ editor.shows # Missing
    <3>1. editor' = SaveRefused(sent["save"])
      BY <2>3 DEF SaveAnswered
    <3>2. PICK document \in StoredDocuments : document = [rev |-> sent["save"].base, source |-> sent["save"].source]
      BY <1>3 DEF SentRequests, StoredDocuments
    <3>3. \/ editor' = [editor EXCEPT !.waiver = document]
          \/ \E m \in {"error", "conflict", "findings"} :
                editor' \in {[editor EXCEPT !.message = m], [editor EXCEPT !.message = m, !.waiver = Missing]}
      BY <3>1, <3>2 DEF SaveRefused, FileSaveRefused, EntitySaveRefused, BlueprintSaveRefused, MappingSaveRefused, EditorInv
    <3>4. editor' \in Forms /\ editor'.shows = editor.shows /\ editor'.guard = editor.guard
      BY <1>3, <3>3 DEF Forms
    <3> QED
      BY <1>1, <3>4, FormKept
  <2> QED
    BY <2>1, <2>2, <2>3
<1> QED
  BY <1>1, <1>2, <1>4, OneSent DEF Moves, EditorInv

LEMMA OperationAnsweredKeeps == ASSUME EditorInv, OperationAnswered PROVE EditorInv'
<1>1. UNCHANGED <<kind, stored, editor>> /\ Stays /\ sent["operation"] # Missing
      /\ sent' = [sent EXCEPT !["operation"] = Missing]
  BY DEF OperationAnswered
<1>2. "operation" \in Flows /\ SentInv("operation")' /\ SentInv("operation") /\ kind # "mapping"
  BY <1>1 DEF Flows, EditorInv, SentInv
<1>3. CASE sent["operation"].answer # "ok"
  <2>1. UNCHANGED <<dialog, own, detail>>
    BY <1>3 DEF OperationAnswered
  <2>2. FormInv'
    BY <1>1, <2>1, FormKept DEF EditorInv, FormInv, Stays
  <2> QED
    BY <1>1, <1>2, <2>1, <2>2, OneSent DEF Moves, EditorInv
<1>4. CASE sent["operation"].answer = "ok"
  <2>1. /\ own' = sent["operation"].wrote
        /\ detail' = [detail EXCEPT !.fetching = TRUE, !.read = Missing, !.reseeds = TRUE]
    BY <1>4 DEF OperationAnswered, Completed
  <2>2. detail \in DetailQueries
    BY DEF EditorInv, DetailInv
  <2>3. detail' = [data |-> detail.data, failed |-> detail.failed, fetching |-> TRUE, read |-> Missing, reseeds |-> TRUE]
    BY <2>1, <2>2 DEF DetailQueries
  <2>4. DetailInv'
    BY <1>1, <2>2, <2>3 DEF DetailInv, DetailQueries, AsRead, EditorInv
  <2>5. own' \in Nat /\ own' <= stored'.rev
    BY <1>1, <1>2, <2>1 DEF SentInv, SentRequests
  <2>6. FormInv'
    BY <1>1, <2>3 DEF EditorInv, FormInv, Stays
  <2>7. DOMAIN sent' = Flows /\ \A g \in Flows \ {"operation"} : sent'[g] = sent[g]
    BY <1>1 DEF EditorInv
  <2>8. \A f \in Flows : SentInv(f)'
    BY <1>1, <1>2, <2>7, SentKept DEF Moves
  <2> QED
    BY <1>1, <1>2, <2>4, <2>5, <2>6, <2>7, <2>8 DEF EditorInv
<1> QED
  BY <1>3, <1>4

LEMMA EditorStepKeeps == ASSUME EditorInv, [EditorNext]_editorVars PROVE EditorInv'
<1>1. CASE OpenDialog \/ CloseDialog \/ CancelWaiver \/ OtherWrites \/ UNCHANGED editorVars
  <2>1. UNCHANGED <<kind, detail, sent, own>>
    BY <1>1 DEF OpenDialog, CloseDialog, CancelWaiver, OtherWrites, editorVars
  <2>2. Moves /\ stored' \in StoredDocuments
    <3>1. CASE OtherWrites
      <4>1. stored.rev + 1 \in Nat
        BY RevisionsAreNumbers
      <4> QED
        BY <3>1, <4>1 DEF OtherWrites, Moves, StoredDocuments
    <3>2. CASE ~OtherWrites
      BY <1>1, <3>2 DEF OpenDialog, CloseDialog, CancelWaiver, editorVars, Moves, EditorInv
    <3> QED
      BY <3>1, <3>2
  <2>3. editor' \in {editor, [editor EXCEPT !.waiver = Missing]}
    BY <1>1 DEF OpenDialog, CloseDialog, CancelWaiver, OtherWrites, editorVars
  <2>4. editor' \in Forms /\ editor'.shows = editor.shows /\ editor'.guard = editor.guard /\ editor'.message = editor.message
    BY <2>3 DEF EditorInv, FormInv, Forms
  <2>5. FormInv'
    BY <2>1, <2>4, FormKept DEF Stays
  <2>6. kind = "mapping" => dialog' = "closed"
    BY <1>1 DEF OpenDialog, Operations, CloseDialog, CancelWaiver, OtherWrites, editorVars, EditorInv
  <2>7. \A f \in Flows : SentInv(f)'
    BY <2>1, <2>2, SentKept
  <2>8. DetailInv'
    BY <2>1, <2>2, DetailKept, RevisionsAreNumbers
  <2>9. own <= stored'.rev
    BY <2>2, RevisionsAreNumbers DEF Moves, EditorInv
  <2> QED
    BY <2>1, <2>2, <2>5, <2>6, <2>7, <2>8, <2>9 DEF EditorInv
<1> QED
  BY <1>1, DetailKeeps, DetailAnsweredKeeps, SubmitKeeps, SaveAnywayKeeps, SaveAnsweredKeeps, ConfirmsKeep,
     OperationAnsweredKeeps, HandledKeeps, LostKeeps DEF EditorNext

\* What the server applies is a request whose guard held.
LEMMA StoredIsHandled ==
  ASSUME EditorInv, [EditorNext]_editorVars, NEW f \in Flows, StoredBy(f)
  PROVE  /\ ~Guarded(sent[f]) /\ sent[f] # Missing
         /\ stored' = [rev |-> stored.rev + 1, source |-> IF sent[f].of = "sync" THEN stored.source ELSE sent[f].source]
<1>1. stored' # stored /\ sent' # sent /\ sent[f] # Missing /\ sent'[f].answer = "ok"
  BY DEF StoredBy
<1>2. PICK g \in Flows : WriteHandled(g)
  BY <1>1 DEF EditorNext, editorVars, BackgroundRefetch, DetailRead, DetailAnswered, DetailFails, Submit, SaveAnyway, CancelWaiver,
     SaveAnswered, OpenDialog, CloseDialog, ConfirmOverwrite, ConfirmSync, OperationAnswered, AnswerLost, OtherWrites
<1>3. g = f
  BY <1>1, <1>2 DEF WriteHandled, StoredBy, EditorInv
<1>4. PICK v \in Outcomes(sent[f]) :
        /\ sent' = [sent EXCEPT ![f] = [sent[f] EXCEPT !.answer = v, !.wrote = IF v = "ok" THEN stored.rev + 1 ELSE 0]]
        /\ stored' = IF v # "ok" THEN stored
                     ELSE [rev |-> stored.rev + 1, source |-> IF sent[f].of = "sync" THEN stored.source ELSE sent[f].source]
  BY <1>2, <1>3 DEF WriteHandled
<1>5. v = "ok"
  BY <1>1, <1>4
<1> QED
  BY <1>1, <1>4, <1>5 DEF Outcomes

LEMMA EditorsWriteWhatWasSeen ==
  ASSUME EditorInv, [EditorNext]_editorVars
  PROVE  ReplacesAsSeen /\ FollowsTheReread
<1>1. ASSUME NEW f \in Flows, StoredBy(f), kind = "file", sent[f].of # "anyway"
      PROVE  sent[f].base = stored.rev /\ (sent[f].of = "overwrite" => stored'.source = stored.source)
                /\ sent[f].after <= sent[f].base
  <2>1. /\ sent[f].expected = stored.rev /\ sent[f] # Missing
        /\ stored' = [rev |-> stored.rev + 1, source |-> IF sent[f].of = "sync" THEN stored.source ELSE sent[f].source]
    BY <1>1, StoredIsHandled DEF Guarded
  <2>2. SentInv(f)
    BY DEF EditorInv
  <2> QED
    BY <1>1, <2>1, <2>2 DEF SentInv
<1>2. ASSUME NEW f \in Flows, StoredBy(f), kind # "file", sent[f].of = "save"
      PROVE  sent[f].after <= sent[f].base
  BY <1>2 DEF StoredBy, EditorInv, SentInv
<1>3. \A f \in Flows : StoredBy(f) => sent[f].base \in Nat /\ sent[f].after \in Nat
  BY RevisionsAreNumbers DEF StoredBy
<1> QED
  BY <1>1, <1>2, <1>3 DEF ReplacesAsSeen, FollowsTheReread

LEMMA EditorStarts == ASSUME EditorConstants, EditorInit PROVE EditorInv
  BY DEF EditorConstants, EditorInit, EditorInv, Documents, StoredDocuments, DetailInv, DetailQueries, FormInv, Forms, Blank,
         SentInv, Stays, Flows

\* A catalog file is replaced only while it is the document the user was looking at, and a
\* save pressed after the re-read that follows an overwrite or a sync of the page never
\* brings back the document from before it, for any number of writes of others.
THEOREM EditorsReplaceWhatIsSeen ==
  ASSUME EditorConstants
  PROVE  EditorSpec => [][ReplacesAsSeen /\ FollowsTheReread]_editorVars
<1>1. EditorInit => EditorInv
  BY EditorStarts
<1>2. EditorInv /\ [EditorNext]_editorVars => EditorInv'
  BY EditorStepKeeps
<1>3. EditorInv /\ [EditorNext]_editorVars => ReplacesAsSeen /\ FollowsTheReread
  BY EditorsWriteWhatWasSeen
<1> QED
  BY <1>1, <1>2, <1>3, PTL DEF EditorSpec

-----------------------------------------------------------------------------
(* Bulk changes of a feature *)

CONSTANTS Accounts, Features, SwitchWrites

VARIABLES flags, flagRows, feature, wanted, switch, preparing, pending, unsaved, run, agreed

Flags == INSTANCE FeatureFlags WITH Users <- Accounts, rows <- flagRows, failed <- unsaved

\* Rows as they were read, what is to be done to them, and a run that does it.
RowTables == UNION {[us -> SUBSET Features] : us \in SUBSET Accounts}
Changes == [target : BOOLEAN, rows : RowTables]
Toggles == [user : Accounts, next : SUBSET Features]
Runs == [target : BOOLEAN, rows : RowTables, feature : Features,
         left : SUBSET Accounts, stored : SUBSET Accounts, lost : SUBSET Accounts]

\* A change and a run are told from none.
FlagConstants == Nothing \notin Changes \cup Runs

\* A change is no more than what was agreed to.
Agreed(change) == DOMAIN change.rows \subseteq agreed.users /\ change.target = agreed.target

\* A run stores, loses or has yet to write each of its rows.  What failed can be retried
\* as agreed only once the run is over: until then it may be of an earlier one.
FlagInv ==
  /\ flags \in [Accounts -> SUBSET Features] /\ flagRows \in RowTables /\ feature \in Features
  /\ preparing # Nothing => preparing.target \in BOOLEAN
  /\ switch.writes \in [SwitchWrites -> {Nothing} \cup Toggles]
  /\ pending \in {Nothing} \cup Changes
  /\ unsaved \in {Nothing} \cup Changes
  /\ run \in {Nothing} \cup Runs
  /\ run = Nothing /\ unsaved # Nothing => Agreed(unsaved)
  /\ run # Nothing =>
       /\ Agreed(run)
       /\ run.left \subseteq DOMAIN run.rows /\ run.lost \subseteq DOMAIN run.rows
       /\ DOMAIN run.rows \subseteq run.left \cup run.stored \cup run.lost

LEMMA MatchingRows ==
  ASSUME NEW read \in RowTables, NEW f, NEW w
  PROVE  Flags!Matching(read, f, w) \in RowTables
<1> DEFINE us == {v \in DOMAIN read : w = "any" \/ (w = "disabled") = (f \in read[v])}
<1>1. Flags!Matching(read, f, w) = [u \in us |-> read[u]]
  BY DEF Flags!Matching
<1>2. PICK all \in SUBSET Accounts : read \in [all -> SUBSET Features]
  BY DEF RowTables
<1>3. us \in SUBSET Accounts /\ us \subseteq all
  BY <1>2
<1> HIDE DEF us
<1>4. [u \in us |-> read[u]] \in [us -> SUBSET Features]
  BY <1>2, <1>3
<1> QED
  BY <1>1, <1>3, <1>4 DEF RowTables

LEMMA RowsOfSome ==
  ASSUME NEW read \in RowTables, NEW us \in SUBSET DOMAIN read
  PROVE  [u \in us |-> read[u]] \in RowTables /\ us \in SUBSET Accounts
<1>1. PICK all \in SUBSET Accounts : read \in [all -> SUBSET Features]
  BY DEF RowTables
<1>2. us \in SUBSET Accounts /\ [u \in us |-> read[u]] \in [us -> SUBSET Features]
  BY <1>1
<1> QED
  BY <1>2 DEF RowTables

LEMMA FlagInvInit == ASSUME FlagConstants, Flags!FlagInit PROVE FlagInv
<1>1. flags \in [Accounts -> SUBSET Features]
  BY DEF Flags!FlagInit
<1>2. flags \in RowTables
  BY <1>1 DEF RowTables
<1> QED
  BY <1>1, <1>2 DEF Flags!FlagInit, FlagInv

\* A run begins with all of its rows left, and is as agreed if its change is.
LEMMA RunBegins ==
  ASSUME NEW change \in Changes, NEW f \in Features, NEW r, r = Flags!applyRows(change.target, change.rows, f)
  PROVE  /\ r \in Runs
         /\ r.rows = change.rows /\ r.target = change.target
         /\ r.left \subseteq DOMAIN r.rows /\ r.lost \subseteq DOMAIN r.rows
         /\ DOMAIN r.rows \subseteq r.left \cup r.stored \cup r.lost
<1>1. r = [target |-> change.target, rows |-> change.rows, feature |-> f,
           left |-> DOMAIN change.rows, stored |-> {}, lost |-> {}]
  BY DEF Flags!applyRows
<1>2. DOMAIN change.rows \in SUBSET Accounts
  BY RowsOfSome DEF Changes
<1> QED
  BY <1>1, <1>2 DEF Runs, Changes

LEMMA ApplyOneKeeps ==
  ASSUME FlagConstants, FlagInv, Flags!ApplyOne
  PROVE  FlagInv' /\ run # Nothing /\ run' # Nothing /\ run'.rows = run.rows
<1>1. PICK u \in run.left, arrives \in BOOLEAN, answered \in BOOLEAN :
        /\ flags' = IF arrives THEN [flags EXCEPT ![u] = Flags!Replaced(run.rows[u], run.feature, run.target)] ELSE flags
        /\ run' = [run EXCEPT !.left = @ \ {u},
                              !.stored = IF arrives THEN @ \cup {u} ELSE @,
                              !.lost = IF arrives /\ answered THEN @ ELSE @ \cup {u}]
  BY DEF Flags!ApplyOne
<1>2. run \in Runs /\ run # Nothing /\ UNCHANGED <<flagRows, feature, wanted, switch, preparing, pending, unsaved, agreed>>
  BY DEF FlagInv, Flags!ApplyOne
<1>3. u \in DOMAIN run.rows /\ run.rows \in RowTables /\ run.feature \in Features /\ u \in Accounts
  BY <1>1, <1>2, RowsOfSome DEF FlagInv, Runs
<1>4. run.rows[u] \in SUBSET Features
  BY <1>3 DEF RowTables
<1>5. Flags!Replaced(run.rows[u], run.feature, run.target) \in SUBSET Features
  BY <1>3, <1>4 DEF Flags!Replaced
<1>6. flags' \in [Accounts -> SUBSET Features]
  BY <1>1, <1>5 DEF FlagInv
<1>7. PICK kept \in SUBSET Accounts, lost \in SUBSET Accounts :
        /\ run' = [target |-> run.target, rows |-> run.rows, feature |-> run.feature,
                   left |-> run.left \ {u}, stored |-> kept, lost |-> lost]
        /\ run.stored \subseteq kept /\ run.lost \subseteq lost /\ lost \subseteq run.lost \cup {u} /\ u \in kept \cup lost
  <2> DEFINE kept == IF arrives THEN run.stored \cup {u} ELSE run.stored
             lost == IF arrives /\ answered THEN run.lost ELSE run.lost \cup {u}
  <2>1. kept \in SUBSET Accounts /\ lost \in SUBSET Accounts
    BY <1>2, <1>3 DEF Runs
  <2>2. run' = [run EXCEPT !.left = run.left \ {u}, !.stored = kept, !.lost = lost]
    BY <1>1
  <2>3. run.stored \subseteq kept /\ run.lost \subseteq lost /\ lost \subseteq run.lost \cup {u} /\ u \in kept \cup lost
    OBVIOUS
  <2> HIDE DEF kept, lost
  <2>4. run' = [target |-> run.target, rows |-> run.rows, feature |-> run.feature,
                left |-> run.left \ {u}, stored |-> kept, lost |-> lost]
    BY <1>2, <2>2 DEF Runs
  <2> QED
    BY <2>1, <2>3, <2>4
<1>8. run' \in Runs
  BY <1>2, <1>7 DEF Runs
<1>9. run' # Nothing
  BY <1>8 DEF FlagConstants
<1>10. /\ run'.rows = run.rows /\ run'.target = run.target
       /\ run'.left \subseteq DOMAIN run.rows /\ run'.lost \subseteq DOMAIN run.rows
       /\ DOMAIN run.rows \subseteq run'.left \cup run'.stored \cup run'.lost
  BY <1>2, <1>3, <1>7 DEF FlagInv
<1>11. Agreed(run)'
  BY <1>2, <1>10 DEF FlagInv, Agreed
<1> QED
  BY <1>2, <1>6, <1>8, <1>9, <1>10, <1>11 DEF FlagInv

\* What is left for a retry is the rows that failed.
LEMMA FinishKeeps ==
  ASSUME FlagConstants, FlagInv, Flags!Finish
  PROVE  /\ FlagInv' /\ run # Nothing /\ run' = Nothing
         /\ \A u \in DOMAIN run.rows : u \in run.stored \/ (unsaved' # Nothing /\ u \in DOMAIN unsaved'.rows)
<1>1. /\ run # Nothing /\ run' = Nothing /\ run.left = {} /\ run \in Runs
      /\ UNCHANGED <<flags, feature, wanted, switch, preparing, pending, agreed>>
      /\ flagRows' = Flags!Matching(flags, feature, wanted)
  BY DEF Flags!Finish, FlagInv
<1>2. flagRows' \in RowTables
  BY <1>1, MatchingRows DEF FlagInv, RowTables
<1>3. CASE run.lost = {}
  <2>1. unsaved' = Nothing
    BY <1>3 DEF Flags!Finish
  <2> QED
    BY <1>1, <1>2, <1>3, <2>1 DEF FlagInv
<1>4. CASE run.lost # {}
  <2> DEFINE kept == [u \in run.lost |-> run.rows[u]]
  <2>1. unsaved' = [target |-> run.target, rows |-> kept]
    BY <1>4 DEF Flags!Finish
  <2>2. kept \in RowTables /\ DOMAIN kept = run.lost
    BY <1>1, RowsOfSome DEF FlagInv, Runs
  <2> HIDE DEF kept
  <2>3. unsaved' \in Changes /\ unsaved'.rows = kept /\ unsaved'.target = run.target
    BY <1>1, <2>1, <2>2 DEF Changes, Runs
  <2>4. unsaved' # Nothing
    BY <2>3 DEF FlagConstants
  <2>5. Agreed(unsaved)'
    BY <1>1, <2>2, <2>3 DEF FlagInv, Agreed
  <2> QED
    BY <1>1, <1>2, <2>2, <2>3, <2>4, <2>5 DEF FlagInv
<1> QED
  BY <1>3, <1>4

\* A run begins with a confirmed change, or with what failed of the last one.
LEMMA RunKeeps ==
  ASSUME FlagConstants, FlagInv, Flags!Confirm \/ Flags!Retry
  PROVE  FlagInv' /\ run = Nothing /\ run' # Nothing /\ Agreed(run)'
<1>1. run = Nothing /\ UNCHANGED <<flags, flagRows, feature, switch, preparing, unsaved>>
  BY DEF Flags!Confirm, Flags!Retry
<1>2. PICK change \in Changes :
        /\ run' = Flags!applyRows(change.target, change.rows, feature)
        /\ DOMAIN change.rows \subseteq agreed'.users /\ change.target = agreed'.target
        /\ pending' \in {pending, Nothing}
  <2>1. CASE Flags!Confirm
    BY <2>1 DEF Flags!Confirm, Flags!Modal, FlagInv
  <2>2. CASE Flags!Retry
    BY <2>2 DEF Flags!Retry, FlagInv, Agreed
  <2> QED
    BY <2>1, <2>2
<1>3. PICK r : r = Flags!applyRows(change.target, change.rows, feature)
  OBVIOUS
<1>4. /\ r \in Runs /\ r.rows = change.rows /\ r.target = change.target
      /\ r.left \subseteq DOMAIN r.rows /\ r.lost \subseteq DOMAIN r.rows
      /\ DOMAIN r.rows \subseteq r.left \cup r.stored \cup r.lost
  BY <1>3, RunBegins DEF FlagInv
<1>5. run' = r /\ r # Nothing
  BY <1>2, <1>3, <1>4 DEF FlagConstants
<1>6. Agreed(run)'
  BY <1>2, <1>4, <1>5 DEF Agreed
<1> QED
  BY <1>1, <1>2, <1>4, <1>5, <1>6 DEF FlagInv

\* The other steps start no run, end none and change nothing of one.
LEMMA OthersKeepRuns ==
  ASSUME FlagConstants, FlagInv,
         \/ Flags!Select \/ Flags!Reread \/ Flags!Toggle \/ Flags!Toggled \/ Flags!Prepare \/ Flags!Prepared \/ Flags!Cancel
         \/ UNCHANGED Flags!flagVars
  PROVE  FlagInv' /\ run' = run
<1>1. CASE Flags!Select \/ Flags!Cancel \/ Flags!Prepare \/ UNCHANGED Flags!flagVars
  BY <1>1 DEF Flags!Select, Flags!Cancel, Flags!Prepare, Flags!flagVars, FlagInv, Agreed
<1>2. CASE Flags!Reread
  BY <1>2, MatchingRows DEF Flags!Reread, FlagInv, Agreed, RowTables
<1>3. CASE Flags!Toggle
  <2>1. PICK u \in DOMAIN flagRows, n \in SwitchWrites :
          switch' = [row |-> u, writes |-> [switch.writes EXCEPT ![n] =
                       [user |-> u, next |-> Flags!Replaced(flagRows[u], feature, feature \in flagRows[u])]]]
    BY <1>3 DEF Flags!Toggle
  <2>2. u \in Accounts /\ flagRows[u] \in SUBSET Features
    BY DEF FlagInv, RowTables
  <2>3. [user |-> u, next |-> Flags!Replaced(flagRows[u], feature, feature \in flagRows[u])] \in Toggles
    BY <2>2 DEF FlagInv, Flags!Replaced, Toggles
  <2>4. switch'.writes \in [SwitchWrites -> {Nothing} \cup Toggles]
    BY <2>1, <2>3 DEF FlagInv
  <2>5. UNCHANGED <<flags, flagRows, feature, wanted, preparing, pending, unsaved, run, agreed>>
    BY <1>3 DEF Flags!Toggle
  <2> QED
    BY <2>4, <2>5 DEF FlagInv, Agreed
<1>4. CASE Flags!Toggled
  <2>1. PICK n \in SwitchWrites, arrives \in BOOLEAN, answered \in BOOLEAN :
          /\ switch.writes[n] # Nothing
          /\ switch' = [row |-> Nothing, writes |-> [switch.writes EXCEPT ![n] = Nothing]]
          /\ flags' = IF arrives THEN [flags EXCEPT ![switch.writes[n].user] = switch.writes[n].next] ELSE flags
          /\ flagRows' = IF arrives /\ answered THEN Flags!Matching(flags', feature, wanted) ELSE flagRows
    BY <1>4 DEF Flags!Toggled
  <2>2. switch.writes[n] \in Toggles
    BY <2>1 DEF FlagInv
  <2>3. switch.writes[n].user \in Accounts /\ switch.writes[n].next \in SUBSET Features
    BY <2>2 DEF Toggles
  <2>4. flags' \in [Accounts -> SUBSET Features]
    BY <2>1, <2>3 DEF FlagInv
  <2>5. flagRows' \in RowTables
    <3>1. flags' \in RowTables
      BY <2>4 DEF RowTables
    <3>2. CASE flagRows' = Flags!Matching(flags', feature, wanted)
      BY <3>1, <3>2, MatchingRows
    <3>3. CASE flagRows' = flagRows
      BY <3>3 DEF FlagInv
    <3> QED
      BY <2>1, <3>2, <3>3
  <2>6. switch'.writes \in [SwitchWrites -> {Nothing} \cup Toggles]
    BY <2>1 DEF FlagInv
  <2>7. UNCHANGED <<feature, wanted, preparing, pending, unsaved, run, agreed>>
    BY <1>4 DEF Flags!Toggled
  <2> QED
    BY <2>4, <2>5, <2>6, <2>7 DEF FlagInv, Agreed
<1>5. CASE Flags!Prepared
  <2>1. UNCHANGED <<flags, flagRows, feature, wanted, switch, unsaved, run, agreed>> /\ preparing' = Nothing /\ preparing # Nothing
    BY <1>5 DEF Flags!Prepared
  <2>2. PICK all, affected :
          /\ all = Flags!Matching(flags, preparing.feature, preparing.wanted) /\ affected \in SUBSET DOMAIN all
          /\ pending' \in {pending, Nothing, [target |-> preparing.target, rows |-> [u \in affected |-> all[u]]]}
    <3> DEFINE all == Flags!Matching(flags, preparing.feature, preparing.wanted)
               affected == {u \in DOMAIN all : Flags!isAffected(all[u], preparing.feature, preparing.target)}
    <3>1. pending' \in {pending} \cup (IF affected = {} THEN {} ELSE {[target |-> preparing.target, rows |-> [u \in affected |-> all[u]]]})
      BY <1>5 DEF Flags!Prepared
    <3>2. affected \in SUBSET DOMAIN all
      OBVIOUS
    <3> HIDE DEF all, affected
    <3>3. \E a, s : /\ a = all /\ s \in SUBSET DOMAIN a
                    /\ pending' \in {pending, Nothing, [target |-> preparing.target, rows |-> [u \in s |-> a[u]]]}
      BY <3>1, <3>2
    <3> QED
      BY <3>3 DEF all
  <2>3. all \in RowTables
    BY <2>2, MatchingRows DEF FlagInv, RowTables
  <2>4. [target |-> preparing.target, rows |-> [u \in affected |-> all[u]]] \in Changes
    BY <2>1, <2>2, <2>3, RowsOfSome DEF FlagInv, Changes
  <2>5. pending' \in {Nothing} \cup Changes
    BY <2>2, <2>4 DEF FlagInv
  <2> QED
    BY <2>1, <2>5 DEF FlagInv, Agreed
<1> QED
  BY <1>1, <1>2, <1>3, <1>4, <1>5

LEMMA FlagStep ==
  ASSUME FlagConstants, FlagInv, [Flags!FlagNext]_Flags!flagVars
  PROVE  FlagInv' /\ Flags!RunsAreWhole
<1>1. CASE Flags!ApplyOne
  BY <1>1, ApplyOneKeeps DEF Flags!RunsAreWhole
<1>2. CASE Flags!Finish
  BY <1>2, FinishKeeps DEF Flags!RunsAreWhole
<1>3. CASE Flags!Confirm \/ Flags!Retry
  BY <1>3, RunKeeps DEF Flags!RunsAreWhole, Agreed
<1>4. CASE ~(Flags!ApplyOne \/ Flags!Finish \/ Flags!Confirm \/ Flags!Retry)
  BY <1>4, OthersKeepRuns DEF Flags!FlagNext, Flags!RunsAreWhole
<1> QED
  BY <1>1, <1>2, <1>3, <1>4

\* A bulk change of a feature writes the accounts and the target that were agreed to, nothing
\* replaces it while it runs, and every row of it is stored or offered for a retry
\* (useBulkFeatureUpdate).
THEOREM BulkChangesAreWhole ==
  ASSUME FlagConstants PROVE Flags!FlagSpec => [][Flags!RunsAreWhole]_Flags!flagVars
<1>1. Flags!FlagInit => FlagInv
  BY FlagInvInit
<1>2. FlagInv /\ [Flags!FlagNext]_Flags!flagVars => FlagInv' /\ Flags!RunsAreWhole
  BY FlagStep
<1> QED
  BY <1>1, <1>2, PTL DEF Flags!FlagSpec

-----------------------------------------------------------------------------
(* Saved views *)

CONSTANTS Pickers, Selections, Ids, Me, Other, Nobody, InFlight

VARIABLES picker, views, held, viewList, current, picked, viewDialog, write

Views == INSTANCE SavedViews WITH Kinds <- Pickers, Contents <- Selections, rows <- views, list <- viewList, dialog <- viewDialog, request <- write

Writes == [what : {"create", "update", "rename", "delete"}, id : Ids \cup {Nobody},
           content : Selections \cup {Nobody}, answer : {"none", "ok", "failed"}]

\* The account is not another, and rows and writes are told from nothing.
ViewConstants == 1 \in Ids /\ Me # Other /\ Nobody \notin Views!Rows \cup Writes

\* An identifier that was read as the account's own never becomes another's row.
Mine(id) == id \in Ids /\ (id \in DOMAIN views => views[id].owner = Me)

WriteInv(w) ==
  w.answer = "none" =>
    /\ w.what # "delete" => w.content \in Selections
    /\ w.what # "create" => Mine(w.id) /\ (w.what = "rename" => w.content \in held[w.id])

\* A list that was read says what its rows have been; a dialog and a write are about a row
\* that was the account's own in it, and a rename is of what that row has had.
ViewInv ==
  /\ DOMAIN views \subseteq Ids /\ DOMAIN viewList \subseteq Ids /\ DOMAIN held = Ids
  /\ \A i \in Ids : held[i] \subseteq Selections
  /\ \A i \in DOMAIN views : views[i] \in Views!Rows /\ views[i].content \in held[i]
  /\ \A i \in DOMAIN viewList : viewList[i] \in Views!Rows /\ viewList[i].content \in held[i] /\ (viewList[i].owner = Me => Mine(i))
  /\ viewDialog = [shows |-> viewDialog.shows, of |-> viewDialog.of, awaits |-> viewDialog.awaits]
  /\ viewDialog.shows \in {"edit", "delete"} => Mine(viewDialog.of.id)
  /\ viewDialog.shows = "edit" => viewDialog.of.content \in held[viewDialog.of.id]
  /\ current \in Selections /\ write \in [InFlight -> {Nobody} \cup Writes]
  /\ \A n \in InFlight : write[n] # Nobody => WriteInv(write[n])

LEMMA ViewInvInit == ASSUME ViewConstants, Views!ViewInit PROVE ViewInv
<1>1. PICK one \in Views!Rows : views = [i \in {1} |-> one]
  BY DEF Views!ViewInit, ViewConstants
<1>2. held = [i \in Ids |-> IF i = 1 THEN {one.content} ELSE {}]
  BY <1>1 DEF Views!ViewInit
<1>3. viewList = views /\ viewDialog = Views!Closed /\ write = [n \in InFlight |-> Nobody]
  BY DEF Views!ViewInit
<1> QED
  BY <1>1, <1>2, <1>3 DEF ViewConstants, ViewInv, Mine, WriteInv, Views!ViewInit, Views!Rows, Views!Closed

\* Rows keep what they have had, and what is the account's own stays so, whoever writes.
Grows ==
  /\ DOMAIN views' \subseteq Ids /\ DOMAIN held' = Ids
  /\ \A i \in DOMAIN views' : views'[i] \in Views!Rows /\ views'[i].content \in held'[i]
  /\ \A i \in Ids : held[i] \subseteq held'[i] /\ held'[i] \subseteq Selections /\ (Mine(i) => Mine(i)')

LEMMA StoreGrows ==
  ASSUME ViewConstants, ViewInv, NEW id \in Ids, NEW one \in Views!Rows, Views!Store(id, one),
         one.owner = Me \/ (id \in DOMAIN views /\ one.owner = views[id].owner)
  PROVE  Grows
<1>1. /\ DOMAIN views' = DOMAIN views \cup {id}
      /\ \A i \in DOMAIN views' : views'[i] = IF i = id THEN one ELSE views[i]
      /\ held' = [held EXCEPT ![id] = held[id] \cup {one.content}]
  BY DEF Views!Store
<1>2. DOMAIN held' = Ids /\ \A i \in Ids : held'[i] = IF i = id THEN held[i] \cup {one.content} ELSE held[i]
  BY <1>1 DEF ViewInv
<1>3. \A i \in Ids : Mine(i) => Mine(i)'
  BY <1>1 DEF Mine
<1> QED
  BY <1>1, <1>2, <1>3 DEF Grows, ViewInv, Views!Rows

LEMMA RemoveGrows ==
  ASSUME ViewInv, NEW id, views' = [i \in DOMAIN views \ {id} |-> views[i]], UNCHANGED held
  PROVE  Grows
  BY DEF Grows, ViewInv, Mine

\* What is held of the rows stays true as they grow.
LEMMA GrowthKeeps ==
  ASSUME ViewConstants, ViewInv, Grows, viewList' \in {viewList, views}, views' = views \/ viewList' = viewList
  PROVE  /\ DOMAIN views' \subseteq Ids /\ DOMAIN viewList' \subseteq Ids /\ DOMAIN held' = Ids
         /\ \A i \in Ids : held'[i] \subseteq Selections
         /\ \A i \in DOMAIN views' : views'[i] \in Views!Rows /\ views'[i].content \in held'[i]
         /\ \A i \in DOMAIN viewList' : viewList'[i] \in Views!Rows /\ viewList'[i].content \in held'[i] /\ (viewList'[i].owner = Me => Mine(i)')
<1>1. CASE viewList' = viewList
  BY <1>1 DEF ViewInv, Grows
<1>2. CASE viewList' = views /\ views' = views
  BY <1>2 DEF ViewInv, Grows, Mine
<1> QED
  BY <1>1, <1>2

LEMMA OwnedIsMine ==
  ASSUME ViewInv, Views!Owned
  PROVE  Mine(picked) /\ Views!Selected.content \in held[picked]
  BY DEF Views!Owned, Views!Selected, ViewInv

\* A write is sent about a row that is the account's own, or about none yet.
LEMMA ViewSendKeeps ==
  ASSUME ViewInv, NEW n \in InFlight, NEW what \in {"create", "update", "rename", "delete"}, NEW id \in Ids \cup {Nobody},
         NEW content \in Selections \cup {Nobody}, Views!Send(n, what, id, content),
         what # "create" => Mine(id),
         what # "delete" => content \in Selections,
         what = "rename" => content \in held[id],
         viewDialog' \in {viewDialog, [viewDialog EXCEPT !.awaits = n]},
         UNCHANGED <<views, held, viewList, current>>
  PROVE  ViewInv'
<1> DEFINE w == [what |-> what, id |-> id, content |-> content, answer |-> "none"]
<1>1. write' = [write EXCEPT ![n] = w]
  BY DEF Views!Send
<1>2. w \in Writes /\ w.what = what /\ w.id = id /\ w.content = content
  BY DEF Writes
<1>3. WriteInv(w)'
  BY <1>2 DEF WriteInv, Mine
<1> HIDE DEF w
<1>4. write' \in [InFlight -> {Nobody} \cup Writes] /\ \A m \in InFlight : write'[m] = IF m = n THEN w ELSE write[m]
  BY <1>1, <1>2 DEF ViewInv
<1>5. \A m \in InFlight : write'[m] # Nobody => WriteInv(write[m])'
  BY <1>3, <1>4 DEF ViewInv, WriteInv, Mine
<1>6. viewDialog' = [shows |-> viewDialog.shows, of |-> viewDialog.of, awaits |-> viewDialog'.awaits]
  BY DEF ViewInv
<1> QED
  BY <1>4, <1>5, <1>6 DEF ViewInv, Mine

\* As rows grow, what is written stays the account's own.
LEMMA WritesStay ==
  ASSUME ViewInv, Grows, NEW w \in Writes, WriteInv(w)
  PROVE  WriteInv(w)'
  BY DEF ViewInv, Grows, Mine, WriteInv

\* What the account reads and asks for stays true as the rows grow.
LEMMA ServedKeeps ==
  ASSUME ViewConstants, ViewInv, Grows, write' \in [InFlight -> {Nobody} \cup Writes],
         \A n \in InFlight : write'[n] # Nobody => WriteInv(write[n])',
         UNCHANGED <<viewList, current, viewDialog>>
  PROVE  ViewInv'
<1>1. /\ viewDialog.shows \in {"edit", "delete"} => Mine(viewDialog.of.id)'
      /\ viewDialog.shows = "edit" => viewDialog.of.content \in held'[viewDialog.of.id]
  BY DEF ViewInv, Grows, Mine
<1> QED
  BY <1>1, GrowthKeeps DEF ViewInv, Mine

LEMMA ViewServeKeeps == ASSUME ViewConstants, ViewInv, Views!Serve PROVE ViewInv'
<1>1. PICK n \in InFlight :
        /\ write[n] # Nobody /\ write[n].answer = "none"
        /\ \/ /\ write[n].what = "create"
              /\ \E id \in Ids : /\ Views!Store(id, [owner |-> Me, content |-> write[n].content])
                                 /\ write' = [write EXCEPT ![n] = [write[n] EXCEPT !.id = id, !.content = Nobody, !.answer = "ok"]]
           \/ /\ write[n].what \in {"update", "rename"} /\ write[n].id \in DOMAIN views
              /\ Views!Store(write[n].id, [owner |-> Me, content |-> write[n].content])
              /\ \/ write' = [write EXCEPT ![n] = [write[n] EXCEPT !.id = Nobody, !.content = Nobody, !.answer = "ok"]]
                 \/ write' = [write EXCEPT ![n] = [write[n] EXCEPT !.id = write[n].id, !.content = Nobody, !.answer = "ok"]]
           \/ /\ write[n].what = "delete" /\ write[n].id \in DOMAIN views
              /\ views' = [i \in DOMAIN views \ {write[n].id} |-> views[i]]
              /\ write' = [write EXCEPT ![n] = [write[n] EXCEPT !.id = Nobody, !.content = Nobody, !.answer = "ok"]]
              /\ UNCHANGED held
           \/ /\ write' = [write EXCEPT ![n] = [write[n] EXCEPT !.id = Nobody, !.content = Nobody, !.answer = "failed"]]
              /\ UNCHANGED <<views, held>>
  BY DEF Views!Serve
<1>2. write[n] \in Writes /\ write[n].answer = "none" /\ WriteInv(write[n]) /\ UNCHANGED <<viewList, current, viewDialog>>
  BY <1>1 DEF Views!Serve, ViewInv
<1>3. ASSUME NEW id \in Ids, write[n].what # "delete", Views!Store(id, [owner |-> Me, content |-> write[n].content])
      PROVE  Grows
  BY <1>2, <1>3, StoreGrows DEF Views!Rows, WriteInv
<1>4. Grows
  <2>1. CASE UNCHANGED <<views, held>>
    BY <2>1 DEF Grows, ViewInv, Mine
  <2>2. CASE write[n].what = "create" /\ ~UNCHANGED <<views, held>>
    BY <1>1, <1>3, <2>2
  <2>3. CASE write[n].what \in {"update", "rename"} /\ ~UNCHANGED <<views, held>>
    <3>1. write[n].id \in DOMAIN views /\ Views!Store(write[n].id, [owner |-> Me, content |-> write[n].content])
      BY <1>1, <2>3
    <3>2. write[n].id \in Ids
      BY <3>1 DEF ViewInv
    <3> QED
      BY <1>3, <2>3, <3>1, <3>2
  <2>4. CASE write[n].what = "delete" /\ ~UNCHANGED <<views, held>>
    <3>1. views' = [i \in DOMAIN views \ {write[n].id} |-> views[i]] /\ UNCHANGED held
      BY <1>1, <2>4
    <3> QED
      BY <3>1, RemoveGrows
  <2> QED
    BY <1>2, <2>1, <2>2, <2>3, <2>4 DEF Writes
<1>5. PICK id \in Ids \cup {Nobody}, said \in {"ok", "failed"} :
        write' = [write EXCEPT ![n] = [write[n] EXCEPT !.id = id, !.content = Nobody, !.answer = said]]
  <2>1. write[n].id \in Ids \cup {Nobody}
    BY <1>2 DEF Writes
  <2> QED
    BY <1>1, <2>1
<1>6. PICK w \in Writes : write' = [write EXCEPT ![n] = w] /\ w.answer # "none"
  <2> DEFINE w == [write[n] EXCEPT !.id = id, !.content = Nobody, !.answer = said]
  <2>1. w \in Writes /\ w.answer = said
    BY <1>2 DEF Writes
  <2> HIDE DEF w
  <2>2. write' = [write EXCEPT ![n] = w] /\ w.answer # "none"
    BY <1>5, <2>1 DEF w
  <2> QED
    BY <2>1, <2>2
<1>7. WriteInv(w)'
  BY <1>6 DEF WriteInv
<1>8. write' \in [InFlight -> {Nobody} \cup Writes] /\ \A m \in InFlight : write'[m] = IF m = n THEN w ELSE write[m]
  BY <1>6 DEF ViewInv
<1>9. \A m \in InFlight : write'[m] # Nobody => WriteInv(write[m])'
  <2> SUFFICES ASSUME NEW m \in InFlight, write'[m] # Nobody PROVE WriteInv(write[m])'
    OBVIOUS
  <2>1. CASE m = n
    BY <1>7, <1>8, <2>1
  <2>2. CASE m # n
    <3>1. PICK v \in Writes : write'[m] = v /\ write[m] = v /\ WriteInv(v)
      BY <1>8, <2>2 DEF ViewInv
    <3> QED
      BY <1>4, <3>1, WritesStay DEF WriteInv, Mine
  <2> QED
    BY <2>1, <2>2
<1> QED
  BY <1>2, <1>4, <1>8, <1>9, ServedKeeps

LEMMA ViewStepKeeps == ASSUME ViewConstants, ViewInv, [Views!ViewNext]_Views!viewVars PROVE ViewInv'
<1>1. CASE Views!Pick \/ Views!ChangePage \/ Views!CloseDialog \/ UNCHANGED Views!viewVars
  <2>1. UNCHANGED <<views, held, viewList, write>> /\ viewDialog' \in {viewDialog, Views!Closed}
    BY <1>1 DEF Views!Pick, Views!ChangePage, Views!CloseDialog, Views!viewVars
  <2>2. current' \in Selections
    BY <1>1 DEF Views!Pick, Views!ChangePage, Views!CloseDialog, Views!viewVars, ViewInv, Views!Rows
  <2> QED
    BY <2>1, <2>2 DEF ViewInv, Mine, WriteInv, Views!Closed
<1>2. CASE Views!OpenDialog
  <2>1. UNCHANGED <<views, held, viewList, current, write>>
    BY <1>2 DEF Views!OpenDialog
  <2>2. PICK shows \in {"new"} \cup (IF Views!Owned THEN {"edit", "delete"} ELSE {}) :
          viewDialog' = [shows |-> shows,
                         of |-> IF shows = "new" THEN Nobody ELSE [id |-> picked, content |-> IF shows = "edit" THEN Views!Selected.content ELSE Nobody],
                         awaits |-> Nobody]
    BY <1>2 DEF Views!OpenDialog
  <2>3. shows # "new" => Mine(picked) /\ Views!Selected.content \in held[picked]
    BY <2>2, OwnedIsMine
  <2>4. /\ viewDialog'.shows \in {"edit", "delete"} => Mine(viewDialog'.of.id)
        /\ viewDialog'.shows = "edit" => viewDialog'.of.content \in held[viewDialog'.of.id]
    BY <2>2, <2>3
  <2>5. viewDialog' = [shows |-> viewDialog'.shows, of |-> viewDialog'.of, awaits |-> viewDialog'.awaits]
    BY <2>2
  <2> QED
    BY <2>1, <2>4, <2>5 DEF ViewInv, Mine, WriteInv
<1>3. CASE Views!SaveChanges
  <2>1. PICK n \in InFlight : Views!Send(n, "update", picked, current)
    BY <1>3 DEF Views!SaveChanges
  <2>2. Mine(picked) /\ picked \in Ids /\ current \in Selections /\ UNCHANGED <<views, held, viewList, current, viewDialog>>
    BY <1>3, OwnedIsMine DEF Views!SaveChanges, ViewInv, Mine
  <2> QED
    BY <2>1, <2>2, ViewSendKeeps
<1>4. CASE Views!SaveDialog
  <2>1. PICK n \in InFlight :
          /\ Views!Send(n, IF viewDialog.shows = "new" THEN "create" ELSE "rename", IF viewDialog.shows = "new" THEN Nobody ELSE viewDialog.of.id,
                        Views!EditorContent)
          /\ viewDialog' = [viewDialog EXCEPT !.awaits = n]
    BY <1>4 DEF Views!SaveDialog
  <2>2. viewDialog.shows \in {"new", "edit"} /\ UNCHANGED <<views, held, viewList, current>>
    BY <1>4 DEF Views!SaveDialog
  <2>3. CASE viewDialog.shows = "new"
    <3>1. Views!Send(n, "create", Nobody, current) /\ current \in Selections
      BY <2>1, <2>3 DEF Views!EditorContent, ViewInv
    <3> QED
      BY <2>1, <2>2, <3>1, ViewSendKeeps
  <2>4. CASE viewDialog.shows = "edit"
    <3>1. /\ Views!Send(n, "rename", viewDialog.of.id, viewDialog.of.content)
          /\ Mine(viewDialog.of.id) /\ viewDialog.of.content \in held[viewDialog.of.id]
      BY <2>1, <2>4 DEF Views!EditorContent, ViewInv
    <3>2. viewDialog.of.id \in Ids /\ viewDialog.of.content \in Selections
      BY <3>1 DEF Mine, ViewInv
    <3> QED
      BY <2>1, <2>2, <3>1, <3>2, ViewSendKeeps
  <2> QED
    BY <2>2, <2>3, <2>4
<1>5. CASE Views!ConfirmDelete
  <2>1. PICK n \in InFlight : Views!Send(n, "delete", viewDialog.of.id, Nobody) /\ viewDialog' = [viewDialog EXCEPT !.awaits = n]
    BY <1>5 DEF Views!ConfirmDelete
  <2>2. Mine(viewDialog.of.id) /\ viewDialog.of.id \in Ids /\ UNCHANGED <<views, held, viewList, current>>
    BY <1>5 DEF Views!ConfirmDelete, ViewInv, Mine
  <2> QED
    BY <2>1, <2>2, ViewSendKeeps
<1>6. CASE Views!Serve
  BY <1>6, ViewServeKeeps
<1>7. CASE Views!Answered
  <2>1. PICK n \in InFlight :
          /\ write' = [write EXCEPT ![n] = Nobody]
          /\ viewDialog' \in {viewDialog, [viewDialog EXCEPT !.awaits = Nobody], Views!Closed}
    BY <1>7, Zenon DEF Views!Answered
  <2>2. UNCHANGED <<views, held, viewList, current>>
    BY <1>7 DEF Views!Answered
  <2>3. write' \in [InFlight -> {Nobody} \cup Writes] /\ \A m \in InFlight : write'[m] \in {write[m], Nobody}
    BY <2>1 DEF ViewInv
  <2>4. \A m \in InFlight : write'[m] # Nobody => WriteInv(write[m])'
    BY <2>2, <2>3 DEF ViewInv, WriteInv, Mine
  <2>5. /\ viewDialog' = [shows |-> viewDialog'.shows, of |-> viewDialog'.of, awaits |-> viewDialog'.awaits]
        /\ viewDialog'.shows \in {"edit", "delete"} => viewDialog'.shows = viewDialog.shows /\ viewDialog'.of = viewDialog.of
    BY <2>1 DEF ViewInv, Views!Closed
  <2> QED
    BY <2>2, <2>3, <2>4, <2>5 DEF ViewInv, Mine
<1>8. CASE Views!ListRead
  <2>1. Grows /\ viewList' = views /\ UNCHANGED <<views, held, current, viewDialog, write>>
    BY <1>8 DEF Views!ListRead, Grows, ViewInv, Mine
  <2> QED
    BY <2>1, GrowthKeeps DEF ViewInv, Mine, WriteInv
<1>9. CASE Views!WrittenElsewhere
  <2>1. UNCHANGED <<viewList, current, viewDialog, write>>
    BY <1>9 DEF Views!WrittenElsewhere
  <2>2. Grows
    <3>1. ASSUME NEW i \in DOMAIN views, NEW r \in Views!Rows, r = [views[i] EXCEPT !.content = r.content], Views!Store(i, r)
          PROVE  Grows
      <4>1. r.owner = views[i].owner
        BY <3>1 DEF ViewInv, Views!Rows
      <4> QED
        BY <3>1, <4>1, StoreGrows DEF ViewInv
    <3> QED
      BY <1>9, <3>1, RemoveGrows DEF Views!WrittenElsewhere
  <2>3. ASSUME NEW n \in InFlight, write[n] # Nobody PROVE WriteInv(write[n])'
    <3>1. write[n] \in Writes /\ WriteInv(write[n])
      BY <2>3 DEF ViewInv
    <3> QED
      BY <2>1, <2>2, <3>1 DEF ViewInv, Grows, Mine, WriteInv
  <2> QED
    BY <2>1, <2>2, <2>3, ServedKeeps DEF ViewInv, WriteInv, Mine
<1> QED
  BY <1>1, <1>2, <1>3, <1>4, <1>5, <1>6, <1>7, <1>8, <1>9 DEF Views!ViewNext

\* A rename leaves a row with content it has had, whatever the page shows and whoever wrote
\* meanwhile, and a write never reaches a row of another account (LensPicker, QueryPicker).
THEOREM RenamesKeepTheRow ==
  ASSUME ViewConstants PROVE Views!ViewSpec => []Views!RenamesKeepContent
<1>1. Views!ViewInit => ViewInv
  BY ViewInvInit
<1>2. ViewInv /\ [Views!ViewNext]_Views!viewVars => ViewInv'
  BY ViewStepKeeps
<1>3. ViewInv => Views!RenamesKeepContent
  BY DEF ViewInv, WriteInv, Mine, Views!RenamesKeepContent
<1> QED
  BY <1>1, <1>2, <1>3, PTL DEF Views!ViewSpec

-----------------------------------------------------------------------------
(* Batches of imported documents *)

CONSTANTS ImportFlows, DocumentKeys, Definitions, Batchable, CHUNK, MaxVersions, MaxRuns

VARIABLES flow, versions, input, running, report, confirmation

Batches == INSTANCE ImportBatches
             WITH Flows <- ImportFlows, Keys <- DocumentKeys, Documents <- Batchable, shown <- report, dialog <- confirmation

\* There are finitely many documents, a chunk has some, and a dialog is told from none.
BatchConstants ==
  /\ ImportFlows \subseteq {"files", "ontology", "backstage", "export"}
  /\ IsFiniteSet(DocumentKeys) /\ Batchable \subseteq SUBSET DocumentKeys
  /\ CHUNK \in Nat \ {0} /\ None \notin Nat
  /\ \A check, ran, batch, lines, keys :
       None # [check |-> check, run |-> ran, batch |-> batch, rows |-> lines, keys |-> keys]

Doc == [key : DocumentKeys, expected : Nat \cup {None}]
Docs == Seq(Doc)
KeysOf(docs) == {docs[i].key : i \in DOMAIN docs}

\* Guards that are no newer than others, and guards that hold a version there has been, one per document.
Older(as, bs) == \A i \in DOMAIN as, j \in DOMAIN bs : as[i].key = bs[j].key => as[i].expected <= bs[j].expected
GuardsHold(docs) ==
  /\ \A i \in DOMAIN docs : docs[i].expected \in Nat /\ docs[i].expected <= versions[docs[i].key]
  /\ Older(docs, docs)

\* A batch under way: the rows it has, and those on their way, are of its own documents.
AnswerLinesUp(r) ==
  \A line \in r.answer :
    /\ line = [index |-> line.index, key |-> line.key, status |-> line.status] /\ line.index \in Nat
    /\ r.docs[r.next + line.index - 1].key = line.key
RunInv(r) ==
  /\ r = [docs |-> r.docs, source |-> r.source, fetched |-> r.fetched, replace |-> r.replace,
          next |-> r.next, rows |-> r.rows, answer |-> r.answer]
  /\ r.docs \in Docs /\ r.next \in Nat \ {0} /\ (r.docs # <<>> => r.next <= Len(r.docs))
  /\ r.source # None => KeysOf(r.docs) = r.fetched
  /\ Batches!RowsLineUp(r)
  /\ r.answer # None => r.docs # <<>> /\ AnswerLinesUp(r)

\* A reference is kept with the very text it was fetched as, and on the pages that show it.
InputInv ==
  /\ input = [text |-> input.text, files |-> input.files, from |-> input.from,
              fetched |-> input.fetched, replace |-> input.replace, admin |-> input.admin]
  /\ input.text \in Batches!TypedTexts /\ input.files \subseteq DocumentKeys
  /\ input.from # None => flow \in {"files", "ontology"} /\ input.files = {} /\ input.fetched = input.text

\* The batches of the dialog are of what it was opened with, converted over versions there were:
\* the one that is imported no later than the one on the screen, and that one no later than the
\* one that is being checked again.
DialogInv ==
  /\ confirmation # None =>
       /\ Batches!Converted
       /\ confirmation = [check |-> confirmation.check, run |-> confirmation.run, batch |-> confirmation.batch,
                          rows |-> confirmation.rows, keys |-> confirmation.keys]
       /\ confirmation.batch \in Docs /\ GuardsHold(confirmation.batch) /\ confirmation.keys \subseteq DocumentKeys
       /\ confirmation.batch # <<>> => KeysOf(confirmation.batch) = confirmation.keys
  /\ Batches!Busy("preview") =>
       /\ confirmation # None
       /\ GuardsHold(running["preview"].docs) /\ KeysOf(running["preview"].docs) = confirmation.keys
       /\ Older(confirmation.batch, running["preview"].docs)
  /\ Batches!Busy("confirm") =>
       /\ confirmation # None /\ confirmation.run = "pending"
       /\ GuardsHold(running["confirm"].docs) /\ KeysOf(running["confirm"].docs) = confirmation.keys
       /\ KeysOf(confirmation.batch) = confirmation.keys
       /\ Older(running["confirm"].docs, confirmation.batch)
       /\ Batches!Busy("preview") => Older(running["confirm"].docs, running["preview"].docs)

BatchInv ==
  /\ flow \in ImportFlows
  /\ versions \in [DocumentKeys -> Nat]
  /\ running = [s \in Batches!Slots |-> running[s]]
  /\ \A s \in Batches!Slots : running[s] # None => RunInv(running[s]) /\ (flow = "ontology" => running[s].docs # <<>>)
  /\ report # None => report.docs \in Docs /\ Batches!RowsLineUp(report)
  /\ InputInv /\ DialogInv

LEMMA BatchCount == ASSUME NEW S PROVE Batches!Cardinality(S) = Cardinality(S)
  BY Zenon DEF Batches!Cardinality, Cardinality, Batches!IsFiniteSet, IsFiniteSet

\* A set made a sequence has every element once.
LEMMA SequenceOfSet ==
  ASSUME NEW S, IsFiniteSet(S)
  PROVE  /\ Batches!SetToSeq(S) \in Seq(S) /\ Len(Batches!SetToSeq(S)) = Cardinality(S)
         /\ \A x : x \in S <=> \E i \in 1 .. Cardinality(S) : Batches!SetToSeq(S)[i] = x
<1> DEFINE n == Cardinality(S)
<1>1. n \in Nat /\ ExistsBijection(1 .. n, S)
  BY FS_CardinalityType
<1>2. PICK g \in Bijection(1 .. n, S) : TRUE
  BY <1>1 DEF ExistsBijection
<1>3. g \in [1 .. n -> S] /\ Batches!IsInjective(g)
  BY <1>2 DEF Bijection, Injection, IsInjective, Batches!IsInjective
<1>4. PICK f : f = Batches!SetToSeq(S)
  OBVIOUS
<1>5. f \in [1 .. n -> S] /\ Batches!IsInjective(f)
  BY <1>3, <1>4, BatchCount DEF Batches!SetToSeq
<1>6. f \in Injection(1 .. n, S)
  BY <1>5 DEF Injection, IsInjective, Batches!IsInjective
<1>7. Cardinality(1 .. n) = n
  BY <1>1, FS_Interval
<1>8. f \in Surjection(1 .. n, S)
  BY <1>6, <1>7, FS_Injection
<1>9. \A x \in S : \E i \in 1 .. n : f[i] = x
  BY <1>8 DEF Surjection
<1>10. f \in Seq(S) /\ Len(f) = n
  BY <1>1, <1>5, IsASeq, LenProperties
<1> QED
  BY <1>4, <1>5, <1>9, <1>10

LEMMA OrderedDocuments ==
  ASSUME BatchConstants, versions \in [DocumentKeys -> Nat], NEW keys \in SUBSET DocumentKeys, NEW guarded \in BOOLEAN,
         NEW docs, docs = Batches!Ordered(keys, guarded)
  PROVE  /\ docs \in Docs /\ KeysOf(docs) = keys
         /\ \A i \in DOMAIN docs : docs[i].expected = (IF guarded THEN versions[docs[i].key] ELSE None)
<1>1. IsFiniteSet(keys) /\ IsFiniteSet(keys \cap Definitions) /\ IsFiniteSet(keys \ Definitions)
  BY FS_Subset DEF BatchConstants
<1>2. PICK order : order = IF flow = "ontology" THEN Batches!SetToSeq(keys \cap Definitions) \o Batches!SetToSeq(keys \ Definitions)
                           ELSE Batches!SetToSeq(keys)
  OBVIOUS
<1>3. order \in Seq(keys) /\ \A x \in keys : \E i \in 1 .. Len(order) : order[i] = x
  <2>1. CASE flow = "ontology"
    <3>1. PICK f, g : f = Batches!SetToSeq(keys \cap Definitions) /\ g = Batches!SetToSeq(keys \ Definitions)
      OBVIOUS
    <3>2. /\ f \in Seq(keys \cap Definitions) /\ Len(f) = Cardinality(keys \cap Definitions)
          /\ \A x \in keys \cap Definitions : \E i \in 1 .. Len(f) : f[i] = x
      BY <1>1, <3>1, SequenceOfSet
    <3>3. /\ g \in Seq(keys \ Definitions) /\ Len(g) = Cardinality(keys \ Definitions)
          /\ \A x \in keys \ Definitions : \E i \in 1 .. Len(g) : g[i] = x
      BY <1>1, <3>1, SequenceOfSet
    <3>4. f \in Seq(keys) /\ g \in Seq(keys) /\ Len(f) \in Nat /\ Len(g) \in Nat
      BY <3>2, <3>3, LenProperties
    <3>5. order = f \o g
      BY <1>2, <2>1, <3>1
    <3>6. /\ order \in Seq(keys) /\ Len(order) = Len(f) + Len(g)
          /\ \A i \in 1 .. Len(f) + Len(g) : order[i] = IF i <= Len(f) THEN f[i] ELSE g[i - Len(f)]
      BY <3>4, <3>5, ConcatProperties
    <3>7. ASSUME NEW i \in 1 .. Len(f) PROVE i \in 1 .. Len(order) /\ order[i] = f[i]
      <4>1. i \in 1 .. Len(f) + Len(g) /\ i <= Len(f)
        BY <3>4
      <4> QED
        BY <3>6, <4>1
    <3>8. ASSUME NEW i \in 1 .. Len(g) PROVE Len(f) + i \in 1 .. Len(order) /\ order[Len(f) + i] = g[i]
      <4>1. Len(f) + i \in 1 .. Len(f) + Len(g) /\ ~(Len(f) + i <= Len(f)) /\ (Len(f) + i) - Len(f) = i
        BY <3>4
      <4> QED
        BY <3>6, <4>1
    <3>9. ASSUME NEW x \in keys PROVE \E i \in 1 .. Len(order) : order[i] = x
      <4>1. CASE x \in Definitions
        <5>1. PICK i \in 1 .. Len(f) : f[i] = x
          BY <3>2, <4>1
        <5> QED
          BY <3>7, <5>1
      <4>2. CASE x \notin Definitions
        <5>1. PICK i \in 1 .. Len(g) : g[i] = x
          BY <3>3, <4>2
        <5> QED
          BY <3>8, <5>1
      <4> QED
        BY <4>1, <4>2
    <3> QED
      BY <3>6, <3>9
  <2>2. CASE flow # "ontology"
    BY <1>1, <1>2, <2>2, SequenceOfSet
  <2> QED
    BY <2>1, <2>2
<1>4. Len(order) \in Nat /\ \A i \in 1 .. Len(order) : order[i] \in keys
  BY <1>3, LenProperties, ElementOfSeq
<1>5. docs = [i \in 1 .. Len(order) |-> [key |-> order[i], expected |-> IF guarded THEN versions[order[i]] ELSE None]]
  BY <1>2 DEF Batches!Ordered
<1>6. \A i \in 1 .. Len(order) :
        docs[i] \in Doc /\ docs[i].key = order[i] /\ docs[i].expected = (IF guarded THEN versions[order[i]] ELSE None)
  BY <1>4, <1>5 DEF Doc
<1>7. docs \in Docs /\ DOMAIN docs = 1 .. Len(order)
  BY <1>4, <1>5, <1>6, IsASeq DEF Docs
<1>8. KeysOf(docs) = keys
  <2>1. ASSUME NEW x \in keys PROVE x \in KeysOf(docs)
    <3>1. PICK i \in 1 .. Len(order) : order[i] = x
      BY <1>3
    <3> QED
      BY <1>6, <1>7, <3>1 DEF KeysOf
  <2>2. ASSUME NEW x \in KeysOf(docs) PROVE x \in keys
    BY <1>4, <1>6, <1>7 DEF KeysOf
  <2> QED
    BY <2>1, <2>2
<1> QED
  BY <1>6, <1>7, <1>8

\* A chunk ends within the batch, whatever kinds of documents it mixes.
LEMMA ChunkEnds ==
  ASSUME BatchConstants, NEW r, r.docs \in Docs, r.next \in Nat \ {0}, r.next <= Len(r.docs)
  PROVE  Batches!ChunkEnd(r) \in r.next .. Len(r.docs)
<1> DEFINE last == IF flow = "files" THEN Len(r.docs) ELSE (IF r.next + CHUNK - 1 < Len(r.docs) THEN r.next + CHUNK - 1 ELSE Len(r.docs))
           alike(i) == flow = "ontology" => (r.docs[i].key \in Definitions <=> r.docs[r.next].key \in Definitions)
           Stops == {i \in r.next .. last : i = last \/ ~alike(i + 1)}
<1>1. Len(r.docs) \in Nat /\ CHUNK \in Nat \ {0}
  BY LenProperties DEF Docs, BatchConstants
<1>2. last \in r.next .. Len(r.docs)
  BY <1>1
<1>3. Batches!ChunkEnd(r) = CHOOSE i \in r.next .. last : alike(i) /\ (i = last \/ ~alike(i + 1))
  BY DEF Batches!ChunkEnd
<1>4. alike(r.next)
  OBVIOUS
<1> HIDE DEF last, alike
<1>5. Stops \subseteq Nat /\ Stops # {}
  BY <1>1, <1>2
<1>6. PICK n \in Stops : \A k \in Stops : ~(<<k, n>> \in OpToRel(<, Nat))
  BY <1>5, NatLessThanWellFounded, WFMin
<1>7. alike(n)
  <2>1. CASE n = r.next
    BY <1>4, <2>1
  <2>2. CASE n # r.next
    <3>1. n - 1 \in r.next .. last /\ n - 1 # last /\ n - 1 \in Nat /\ n \in Nat /\ n - 1 < n /\ (n - 1) + 1 = n
      <4>1. n \in r.next .. last /\ last \in Nat
        BY <1>1, <1>2
      <4> HIDE DEF Stops
      <4> QED
        BY <2>2, <4>1
    <3>2. n - 1 \notin Stops
      BY <1>6, <3>1 DEF OpToRel
    <3> QED
      BY <3>1, <3>2
  <2> QED
    BY <2>1, <2>2
<1>8. \E i \in r.next .. last : alike(i) /\ (i = last \/ ~alike(i + 1))
  BY <1>6, <1>7
<1>9. Batches!ChunkEnd(r) \in r.next .. last
  BY <1>3, <1>8
<1> QED
  BY <1>1, <1>2, <1>9

LEMMA ChunkRows ==
  ASSUME BatchConstants, NEW r, RunInv(r), r.docs # <<>>
  PROVE  \A i \in 1 .. Len(Batches!Chunk(r)) :
           /\ r.next + i - 1 \in 1 .. Len(r.docs) /\ i \in Nat
           /\ Batches!Chunk(r)[i] = r.docs[r.next + i - 1]
<1>1. r.docs \in Docs /\ r.next \in Nat \ {0} /\ r.next <= Len(r.docs) /\ Len(r.docs) \in Nat
  BY LenProperties DEF RunInv, Docs
<1>2. PICK end : end = Batches!ChunkEnd(r)
  OBVIOUS
<1>3. end \in r.next .. Len(r.docs)
  BY <1>1, <1>2, ChunkEnds
<1>4. r.docs \in Seq(Doc) /\ r.next \in 1 .. Len(r.docs) + 1 /\ end \in r.next - 1 .. Len(r.docs)
  BY <1>1, <1>3 DEF Docs
<1>5. PICK chunk : chunk = SubSeq(r.docs, r.next, end)
  OBVIOUS
<1>6. Len(chunk) = end - r.next + 1 /\ \A i \in 1 .. end - r.next + 1 : chunk[i] = r.docs[r.next + i - 1]
  BY <1>4, <1>5, SubSeqProperties
<1>7. Batches!Chunk(r) = chunk
  BY <1>2, <1>5 DEF Batches!Chunk
<1> QED
  BY <1>1, <1>3, <1>6, <1>7

LEMMA NewRun ==
  ASSUME NEW docs \in Docs, NEW origin, NEW replace, origin # None => KeysOf(docs) = input.fetched,
         NEW r, r = Batches!Batch(docs, origin, replace)
  PROVE  RunInv(r) /\ r.docs = docs
<1>1. r = [docs |-> docs, source |-> origin, fetched |-> input.fetched, replace |-> replace,
           next |-> 1, rows |-> {}, answer |-> None]
  BY DEF Batches!Batch
<1>2. r.docs # <<>> => r.next <= Len(r.docs)
  BY <1>1, LenProperties DEF Docs
<1>3. /\ r = [docs |-> r.docs, source |-> r.source, fetched |-> r.fetched, replace |-> r.replace,
              next |-> r.next, rows |-> r.rows, answer |-> r.answer]
      /\ r.docs = docs /\ r.next = 1 /\ r.rows = {} /\ r.answer = None /\ r.source = origin /\ r.fetched = input.fetched
  BY <1>1
<1>4. Batches!RowsLineUp(r)
  BY <1>3 DEF Batches!RowsLineUp
<1>5. 1 \in Nat \ {0}
  OBVIOUS
<1> QED
  BY <1>2, <1>3, <1>4, <1>5, Zenon DEF RunInv

LEMMA ConvertedRun ==
  ASSUME NEW docs \in Docs, NEW r, r = Batches!Batch(docs, None, TRUE) PROVE RunInv(r) /\ r.docs = docs
  BY NewRun

\* A run with the rows of one more chunk, as far as it goes on.
Grown(r, lines) == [r EXCEPT !.rows = @ \cup lines, !.answer = None, !.next = Batches!ChunkEnd(r) + 1]

LEMMA RunGrows ==
  ASSUME BatchConstants, NEW r, RunInv(r), r.docs # <<>>, NEW lines, NEW grown, grown = Grown(r, lines),
         \A line \in lines : r.docs[line.index].key = line.key
  PROVE  /\ grown.docs = r.docs /\ Batches!RowsLineUp(grown)
         /\ ~(grown.next > Len(grown.docs)) => RunInv(grown)
<1>1. PICK after, all : after = Batches!ChunkEnd(r) + 1 /\ all = r.rows \cup lines
  OBVIOUS
<1>2. r.docs \in Docs /\ r.next \in Nat \ {0} /\ r.next <= Len(r.docs) /\ Len(r.docs) \in Nat
  BY LenProperties DEF RunInv, Docs
<1>3. after \in Nat \ {0} /\ (~(after > Len(r.docs)) => after <= Len(r.docs))
  <2>1. Batches!ChunkEnd(r) \in r.next .. Len(r.docs)
    BY <1>2, ChunkEnds
  <2> QED
    BY <1>1, <1>2, <2>1
<1>4. grown = [docs |-> r.docs, source |-> r.source, fetched |-> r.fetched, replace |-> r.replace,
               next |-> after, rows |-> all, answer |-> None]
  <2>1. PICK new : new = [r EXCEPT !.rows = all, !.answer = None, !.next = after]
    OBVIOUS
  <2>2. grown = new
    BY <1>1, <2>1, Zenon DEF Grown
  <2>3. r = [docs |-> r.docs, source |-> r.source, fetched |-> r.fetched, replace |-> r.replace,
             next |-> r.next, rows |-> r.rows, answer |-> r.answer]
    BY Zenon DEF RunInv
  <2>4. new = [docs |-> r.docs, source |-> r.source, fetched |-> r.fetched, replace |-> r.replace,
               next |-> after, rows |-> all, answer |-> None]
    BY <2>1, <2>3
  <2> QED
    BY <2>2, <2>4, Zenon
<1>5. /\ grown = [docs |-> grown.docs, source |-> grown.source, fetched |-> grown.fetched, replace |-> grown.replace,
                  next |-> grown.next, rows |-> grown.rows, answer |-> grown.answer]
      /\ grown.docs = r.docs /\ grown.next = after /\ grown.rows = all /\ grown.answer = None
      /\ grown.source = r.source /\ grown.fetched = r.fetched
  BY <1>4
<1>6. Batches!RowsLineUp(grown)
  BY <1>1, <1>5 DEF Batches!RowsLineUp, RunInv
<1> QED
  BY <1>3, <1>5, <1>6, Zenon DEF RunInv

LEMMA BatchStarts == ASSUME BatchConstants, Batches!BatchInit PROVE BatchInv
<1>1. \A s \in Batches!Slots : running[s] = None
  BY DEF Batches!BatchInit
<1>2. report = None /\ confirmation = None /\ "preview" \in Batches!Slots /\ "confirm" \in Batches!Slots
  BY DEF Batches!BatchInit, Batches!Slots
<1>3. DialogInv
  BY <1>1, <1>2 DEF DialogInv, Batches!Busy
<1>4. InputInv
  <2>1. PICK replace : input = [text |-> {}, files |-> {}, from |-> None, fetched |-> None, replace |-> replace, admin |-> TRUE]
    BY Zenon DEF Batches!BatchInit
  <2> QED
    BY <2>1 DEF InputInv, Batches!TypedTexts
<1>5. flow \in ImportFlows /\ versions \in [DocumentKeys -> Nat] /\ running = [s \in Batches!Slots |-> running[s]]
  BY DEF Batches!BatchInit
<1> QED
  BY <1>1, <1>2, <1>3, <1>4, <1>5, Zenon DEF BatchInv

\* A page runs, goes on with or ends a batch of its own, and no dialog hears of it.
LEMMA PageRuns ==
  ASSUME BatchInv, NEW slot \in {"check", "import"}, NEW r, r # None => RunInv(r) /\ (flow = "ontology" => r.docs # <<>>),
         running' = [running EXCEPT ![slot] = r], UNCHANGED <<flow, versions, input, confirmation>>,
         report' # None => report'.docs \in Docs /\ Batches!RowsLineUp(report')
  PROVE  BatchInv'
<1>1. "preview" \in Batches!Slots /\ "confirm" \in Batches!Slots /\ slot \in Batches!Slots /\ slot # "preview" /\ slot # "confirm"
  BY DEF Batches!Slots
<1>2. running = [s \in Batches!Slots |-> running[s]]
  BY DEF BatchInv
<1>3. running' = [s \in Batches!Slots |-> running'[s]] /\ \A s \in Batches!Slots : running'[s] = IF s = slot THEN r ELSE running[s]
  BY <1>1, <1>2
<1>4. \A s \in Batches!Slots : running'[s] # None => RunInv(running'[s]) /\ (flow = "ontology" => running'[s].docs # <<>>)
  BY <1>3, Zenon DEF BatchInv
<1>5. running'["preview"] = running["preview"] /\ running'["confirm"] = running["confirm"]
  BY <1>1, <1>3
<1>6. DialogInv'
  BY <1>5, Zenon DEF BatchInv, DialogInv, GuardsHold, Batches!Busy, Batches!Converted
<1>7. InputInv'
  BY Zenon DEF BatchInv, InputInv, Batches!TypedTexts
<1> QED
  BY <1>3, <1>4, <1>6, <1>7, Zenon DEF BatchInv, Batches!Slots, Batches!RowsLineUp

LEMMA InputChanges ==
  ASSUME BatchInv, InputInv', report' \in {None, report}, UNCHANGED <<flow, versions, running, confirmation>>
  PROVE  BatchInv'
<1>1. DialogInv'
  BY Zenon DEF BatchInv, DialogInv, GuardsHold, Batches!Busy, Batches!Converted
<1>2. report' # None => report'.docs \in Docs /\ Batches!RowsLineUp(report')
  BY DEF BatchInv
<1> QED
  BY <1>1, <1>2, Zenon DEF BatchInv, Batches!Slots, Batches!RowsLineUp

\* The dialog's batch goes on.
LEMMA DialogGoesOn ==
  ASSUME BatchInv, NEW slot \in {"preview", "confirm"}, Batches!Busy(slot), NEW r, RunInv(r), r.docs = running[slot].docs,
         running' = [running EXCEPT ![slot] = r], UNCHANGED <<flow, versions, input, report, confirmation>>
  PROVE  BatchInv'
<1>1. "preview" \in Batches!Slots /\ "confirm" \in Batches!Slots /\ slot \in Batches!Slots
  BY DEF Batches!Slots
<1>2. running = [s \in Batches!Slots |-> running[s]]
  BY DEF BatchInv
<1>3. running' = [s \in Batches!Slots |-> running'[s]] /\ \A s \in Batches!Slots : running'[s] = IF s = slot THEN r ELSE running[s]
  BY <1>1, <1>2
<1>4. \A s \in Batches!Slots : running'[s] # None => RunInv(running'[s]) /\ (flow = "ontology" => running'[s].docs # <<>>)
  BY <1>1, <1>3, Zenon DEF BatchInv, Batches!Busy
<1>5. /\ running'["preview"].docs = running["preview"].docs /\ running'["confirm"].docs = running["confirm"].docs
      /\ Batches!Busy("preview")' => Batches!Busy("preview")
      /\ Batches!Busy("confirm")' => Batches!Busy("confirm")
  BY <1>1, <1>3 DEF Batches!Busy
<1>6. DialogInv'
  BY <1>5, Zenon DEF BatchInv, DialogInv, GuardsHold, Batches!Busy, Batches!Converted
<1>7. InputInv'
  BY Zenon DEF BatchInv, InputInv, Batches!TypedTexts
<1> QED
  BY <1>3, <1>4, <1>6, <1>7, Zenon DEF BatchInv, Batches!Slots, Batches!RowsLineUp

\* The dialog's batch ends, with its rows or without, and the dialog tells.
LEMMA DialogEnds ==
  ASSUME BatchInv, NEW slot \in {"preview", "confirm"}, Batches!Busy(slot), NEW r, r.docs = running[slot].docs,
         NEW complete, running' = [running EXCEPT ![slot] = None], UNCHANGED <<flow, versions, input, report>>,
         confirmation' = (IF confirmation = None THEN None ELSE Batches!DialogReport(slot, r, complete)), BatchConstants
  PROVE  BatchInv'
<1>1. "preview" \in Batches!Slots /\ "confirm" \in Batches!Slots /\ slot \in Batches!Slots /\ "preview" # "confirm"
  BY DEF Batches!Slots
<1>2. running = [s \in Batches!Slots |-> running[s]]
  BY DEF BatchInv
<1>3. running' = [s \in Batches!Slots |-> running'[s]] /\ \A s \in Batches!Slots : running'[s] = IF s = slot THEN None ELSE running[s]
  BY <1>1, <1>2
<1>4. \A s \in Batches!Slots : running'[s] # None => RunInv(running'[s]) /\ (flow = "ontology" => running'[s].docs # <<>>)
  BY <1>3, Zenon DEF BatchInv
<1>5. /\ confirmation # None /\ Batches!Converted
      /\ confirmation = [check |-> confirmation.check, run |-> confirmation.run, batch |-> confirmation.batch,
                         rows |-> confirmation.rows, keys |-> confirmation.keys]
      /\ confirmation.batch \in Docs /\ GuardsHold(confirmation.batch) /\ confirmation.keys \subseteq DocumentKeys
      /\ confirmation.batch # <<>> => KeysOf(confirmation.batch) = confirmation.keys
  BY <1>1, Zenon DEF BatchInv, DialogInv
<1>6. \A check, ran, batch, lines, keys :
        None # [check |-> check, run |-> ran, batch |-> batch, rows |-> lines, keys |-> keys]
  BY DEF BatchConstants
<1>7. DialogInv'
  <2>1. CASE slot = "preview"
    <3>1. PICK check, lines : confirmation' = [check |-> check, run |-> confirmation.run, batch |-> r.docs, rows |-> lines, keys |-> confirmation.keys]
      <4>1. PICK check, lines : /\ check = (IF complete THEN "ok" ELSE "failed")
                                /\ lines = (IF confirmation.run # "idle" \/ ~complete THEN confirmation.rows ELSE r.rows)
        OBVIOUS
      <4>2. PICK old : old = confirmation
        OBVIOUS
      <4>3. confirmation' = [old EXCEPT !.check = check, !.batch = r.docs, !.rows = lines]
        BY <1>5, <2>1, <4>1, <4>2, Zenon DEF Batches!DialogReport
      <4>4. old = [check |-> old.check, run |-> old.run, batch |-> old.batch, rows |-> old.rows, keys |-> old.keys]
        BY <1>5, <4>2, Zenon
      <4>5. confirmation' = [check |-> check, run |-> old.run, batch |-> r.docs, rows |-> lines, keys |-> old.keys]
        BY <4>3, <4>4
      <4> QED
        BY <4>2, <4>5, Zenon
    <3>2. /\ confirmation' = [check |-> confirmation'.check, run |-> confirmation'.run, batch |-> confirmation'.batch,
                              rows |-> confirmation'.rows, keys |-> confirmation'.keys]
          /\ confirmation'.run = confirmation.run /\ confirmation'.batch = r.docs /\ confirmation'.keys = confirmation.keys
      BY <3>1
    <3>3. confirmation' # None
      BY <1>6, <3>2, Zenon
    <3>4. r.docs = running["preview"].docs /\ GuardsHold(r.docs) /\ KeysOf(r.docs) = confirmation.keys /\ r.docs \in Docs
      <4>1. Batches!Busy("preview") /\ RunInv(running["preview"])
        BY <1>1, <2>1, Zenon DEF BatchInv, Batches!Busy
      <4> QED
        BY <2>1, <4>1, Zenon DEF BatchInv, DialogInv, RunInv
    <3>5. running'["preview"] = None /\ running'["confirm"] = running["confirm"]
      BY <1>1, <1>3, <2>1
    <3>6. running["confirm"] # None =>
            /\ confirmation.run = "pending" /\ GuardsHold(running["confirm"].docs)
            /\ KeysOf(running["confirm"].docs) = confirmation.keys /\ Older(running["confirm"].docs, r.docs)
      BY <2>1, <3>4, Zenon DEF BatchInv, DialogInv, Batches!Busy
    <3>7. Batches!Converted'
      BY <1>5 DEF Batches!Converted
    <3> HIDE DEF KeysOf, Older
    <3> QED
      BY <1>5, <3>2, <3>3, <3>4, <3>5, <3>6, <3>7, Zenon DEF DialogInv, GuardsHold, Batches!Busy
  <2>2. CASE slot = "confirm"
    <3>1. PICK ran, lines : confirmation' = [check |-> confirmation.check, run |-> ran, batch |-> confirmation.batch, rows |-> lines, keys |-> confirmation.keys]
      <4>1. PICK ran : ran = (IF complete THEN "done" ELSE "failed")
        OBVIOUS
      <4>2. PICK old : old = confirmation
        OBVIOUS
      <4>3. confirmation' = [old EXCEPT !.run = ran, !.rows = r.rows]
        BY <1>1, <1>5, <2>2, <4>1, <4>2, Zenon DEF Batches!DialogReport
      <4>4. old = [check |-> old.check, run |-> old.run, batch |-> old.batch, rows |-> old.rows, keys |-> old.keys]
        BY <1>5, <4>2, Zenon
      <4>5. confirmation' = [check |-> old.check, run |-> ran, batch |-> old.batch, rows |-> r.rows, keys |-> old.keys]
        BY <4>3, <4>4
      <4> QED
        BY <4>2, <4>5, Zenon
    <3>2. /\ confirmation' = [check |-> confirmation'.check, run |-> confirmation'.run, batch |-> confirmation'.batch,
                              rows |-> confirmation'.rows, keys |-> confirmation'.keys]
          /\ confirmation'.batch = confirmation.batch /\ confirmation'.keys = confirmation.keys
      BY <3>1
    <3>3. confirmation' # None
      BY <1>6, <3>2, Zenon
    <3>4. running'["confirm"] = None /\ running'["preview"] = running["preview"]
      BY <1>1, <1>3, <2>2
    <3>5. Batches!Converted'
      BY <1>5 DEF Batches!Converted
    <3>6. running["preview"] # None =>
            /\ GuardsHold(running["preview"].docs) /\ KeysOf(running["preview"].docs) = confirmation.keys
            /\ Older(confirmation.batch, running["preview"].docs)
      BY Zenon DEF BatchInv, DialogInv, Batches!Busy
    <3> QED
      BY <1>5, <3>2, <3>3, <3>4, <3>5, <3>6, Zenon DEF DialogInv, GuardsHold, Batches!Busy
  <2> QED
    BY <2>1, <2>2
<1>8. InputInv'
  BY Zenon DEF BatchInv, InputInv, Batches!TypedTexts
<1> QED
  BY <1>3, <1>4, <1>7, <1>8, Zenon DEF BatchInv, Batches!Slots, Batches!RowsLineUp

\* A batch goes on with the rows of a chunk, or ends with them.
LEMMA ContinuesKeeps ==
  ASSUME BatchConstants, BatchInv, NEW slot \in Batches!Slots, Batches!Busy(slot), running[slot].docs # <<>>, NEW lines,
         \A line \in lines : running[slot].docs[line.index].key = line.key,
         Batches!Continues(slot, lines), UNCHANGED <<flow, versions, input>>
  PROVE  BatchInv'
<1>1. PICK r : r = Grown(running[slot], lines)
  OBVIOUS
<1>2. RunInv(running[slot])
  BY DEF BatchInv, Batches!Busy
<1>3. r.docs = running[slot].docs /\ Batches!RowsLineUp(r) /\ (~(r.next > Len(r.docs)) => RunInv(r))
  BY <1>1, <1>2, RunGrows
<1>4. r.docs \in Docs
  BY <1>2, <1>3 DEF RunInv
<1>5. \/ /\ running' = [running EXCEPT ![slot] = None] /\ Batches!Reports(slot, r, TRUE)
      \/ /\ ~(r.next > Len(r.docs)) /\ running' = [running EXCEPT ![slot] = r]
         /\ IF flow = "ontology" THEN Batches!Reports(slot, r, FALSE) ELSE UNCHANGED <<report, confirmation>>
  BY <1>1, Zenon DEF Batches!Continues, Grown
<1>6. CASE slot \in {"check", "import"}
  <2>1. UNCHANGED confirmation /\ (report' = report \/ \E complete \in BOOLEAN : report' = Batches!PageReport(slot, r, complete))
    BY <1>5, <1>6 DEF Batches!Reports
  <2>2. \A complete : Batches!PageReport(slot, r, complete).docs = r.docs /\ Batches!PageReport(slot, r, complete).rows = r.rows
    BY DEF Batches!PageReport
  <2>3. report' # None => report'.docs \in Docs /\ Batches!RowsLineUp(report')
    <3>1. CASE report' = report
      BY <3>1, Zenon DEF BatchInv, Batches!RowsLineUp
    <3>2. ASSUME NEW complete, report' = Batches!PageReport(slot, r, complete)
          PROVE  report'.docs \in Docs /\ Batches!RowsLineUp(report')
      <4>1. report'.docs = r.docs /\ report'.rows = r.rows
        BY <2>2, <3>2, Zenon
      <4> QED
        BY <1>3, <1>4, <4>1, Zenon DEF Batches!RowsLineUp
    <3> QED
      BY <2>1, <3>1, <3>2, Zenon
  <2>4. \E new : running' = [running EXCEPT ![slot] = new] /\ (new # None => RunInv(new) /\ (flow = "ontology" => new.docs # <<>>))
    BY <1>3, <1>5, Zenon
  <2> QED
    BY <1>6, <2>1, <2>3, <2>4, PageRuns
<1>7. CASE slot \in {"preview", "confirm"}
  <2>1. flow # "ontology"
    BY <1>7, Zenon DEF BatchInv, DialogInv, Batches!Converted
  <2>2. CASE running' = [running EXCEPT ![slot] = None] /\ Batches!Reports(slot, r, TRUE)
    <3>1. UNCHANGED report /\ confirmation' = (IF confirmation = None THEN None ELSE Batches!DialogReport(slot, r, TRUE))
      BY <1>7, <2>2, Zenon DEF Batches!Reports
    <3> QED
      BY <1>3, <1>7, <2>2, <3>1, DialogEnds
  <2>3. CASE ~(r.next > Len(r.docs)) /\ running' = [running EXCEPT ![slot] = r] /\ UNCHANGED <<report, confirmation>>
    BY <1>3, <1>7, <2>3, DialogGoesOn
  <2> QED
    BY <1>5, <2>1, <2>2, <2>3, Zenon
<1> QED
  BY <1>6, <1>7 DEF Batches!Slots

\* Versions only grow under the dialog of a converted batch, so its guards stay versions there were.
LEMMA VersionsGrow ==
  ASSUME BatchInv, versions' \in [DocumentKeys -> Nat],
         Batches!Converted => \A k \in DocumentKeys : versions[k] <= versions'[k],
         UNCHANGED <<flow, input, report, confirmation>>,
         running' = [s \in Batches!Slots |-> running'[s]],
         \A s \in Batches!Slots : /\ running[s] = None => running'[s] = None
                                  /\ running'[s] # None => RunInv(running'[s]) /\ running'[s].docs = running[s].docs
  PROVE  BatchInv'
<1>1. "preview" \in Batches!Slots /\ "confirm" \in Batches!Slots
  BY DEF Batches!Slots
<1>2. ASSUME Batches!Converted, NEW docs \in Docs, GuardsHold(docs) PROVE GuardsHold(docs)'
  <2>1. \A i \in DOMAIN docs : docs[i].key \in DocumentKeys
    <3>1. docs \in Seq(Doc)
      BY DEF Docs
    <3>2. DOMAIN docs = 1 .. Len(docs) /\ \A i \in 1 .. Len(docs) : docs[i] \in Doc
      BY <3>1, ElementOfSeq, LenProperties
    <3> QED
      BY <3>2 DEF Doc
  <2>2. \A k \in DocumentKeys : versions[k] \in Nat /\ versions'[k] \in Nat /\ versions[k] <= versions'[k]
    BY <1>2 DEF BatchInv
  <2> QED
    BY <1>2, <2>1, <2>2 DEF GuardsHold
<1>3. /\ Batches!Busy("preview")' => Batches!Busy("preview") /\ running'["preview"].docs = running["preview"].docs
      /\ Batches!Busy("confirm")' => Batches!Busy("confirm") /\ running'["confirm"].docs = running["confirm"].docs
  BY <1>1, Zenon DEF Batches!Busy
<1>4. /\ Batches!Busy("preview") => running["preview"].docs \in Docs
      /\ Batches!Busy("confirm") => running["confirm"].docs \in Docs
  BY <1>1, Zenon DEF BatchInv, RunInv, Batches!Busy
<1>5. DialogInv'
  <2>1. confirmation # None => Batches!Converted /\ GuardsHold(confirmation.batch)'
    BY <1>2, Zenon DEF BatchInv, DialogInv
  <2>2. Batches!Busy("preview")' => Batches!Converted /\ GuardsHold(running["preview"].docs) /\ running["preview"].docs \in Docs
    BY <1>3, <1>4, Zenon DEF BatchInv, DialogInv
  <2>3. Batches!Busy("confirm")' => Batches!Converted /\ GuardsHold(running["confirm"].docs) /\ running["confirm"].docs \in Docs
    BY <1>3, <1>4, Zenon DEF BatchInv, DialogInv
  <2>4. ASSUME NEW docs, Batches!Converted, GuardsHold(docs), docs \in Docs
        PROVE  /\ Older(docs, docs)
               /\ \A i \in DOMAIN docs : docs[i].expected \in Nat /\ docs[i].expected <= versions'[docs[i].key]
    BY <1>2, <2>4 DEF GuardsHold
  <2>5. Batches!Busy("preview")' => GuardsHold(running["preview"].docs)'
    <3>1. Batches!Busy("preview")' => Older(running["preview"].docs, running["preview"].docs) /\
            \A i \in DOMAIN running["preview"].docs :
               running["preview"].docs[i].expected \in Nat /\ running["preview"].docs[i].expected <= versions'[running["preview"].docs[i].key]
      BY <2>2, <2>4, Zenon
    <3> QED
      BY <1>3, <3>1, Zenon DEF GuardsHold
  <2>6. Batches!Busy("confirm")' => GuardsHold(running["confirm"].docs)'
    <3>1. Batches!Busy("confirm")' => Older(running["confirm"].docs, running["confirm"].docs) /\
            \A i \in DOMAIN running["confirm"].docs :
               running["confirm"].docs[i].expected \in Nat /\ running["confirm"].docs[i].expected <= versions'[running["confirm"].docs[i].key]
      BY <2>3, <2>4, Zenon
    <3> QED
      BY <1>3, <3>1, Zenon DEF GuardsHold
  <2> QED
    BY <1>3, <2>1, <2>5, <2>6, Zenon DEF BatchInv, DialogInv, Batches!Converted
<1>6. InputInv'
  BY Zenon DEF BatchInv, InputInv, Batches!TypedTexts
<1> QED
  BY <1>5, <1>6, Zenon DEF BatchInv, Batches!Slots, Batches!RowsLineUp

\* The server handles a chunk: the answer names each document by its place, and versions grow.
LEMMA ChunkHandledKeeps ==
  ASSUME BatchConstants, BatchInv, NEW slot \in Batches!Slots, Batches!ChunkHandled(slot)
  PROVE  BatchInv'
<1>1. running[slot] # None /\ running[slot].docs # <<>> /\ UNCHANGED <<flow, input, report, confirmation>>
  BY DEF Batches!ChunkHandled, Batches!Busy
<1> DEFINE r == running[slot]
           n == Len(Batches!Chunk(r))
<1>2. r = running[slot] /\ n = Len(Batches!Chunk(r))
  OBVIOUS
<1>3. RunInv(r) /\ r.docs # <<>>
  BY <1>1 DEF BatchInv
<1>4. \A i \in 1 .. n : r.next + i - 1 \in 1 .. Len(r.docs) /\ i \in Nat /\ Batches!Chunk(r)[i] = r.docs[r.next + i - 1]
  BY <1>2, <1>3, ChunkRows
<1>5. PICK status :
        /\ running' = [running EXCEPT ![slot].answer = {[index |-> i, key |-> Batches!Chunk(r)[i].key, status |-> status[i]] : i \in 1 .. n}]
        /\ versions' = IF Batches!Stores(slot)
             THEN [k \in DocumentKeys |-> IF \E i \in 1 .. n : Batches!Chunk(r)[i].key = k /\ status[i] \in {"CREATED", "UPDATED"}
                                  THEN (IF Batches!Converted THEN versions[k] + 1 ELSE 1) ELSE versions[k]]
             ELSE versions
  BY Zenon DEF Batches!ChunkHandled
<1> HIDE DEF r, n
<1>6. versions' \in [DocumentKeys -> Nat] /\ (Batches!Converted => \A k \in DocumentKeys : versions[k] <= versions'[k])
  <2>1. versions \in [DocumentKeys -> Nat]
    BY DEF BatchInv
  <2>2. PICK kept : kept = {k \in DocumentKeys : \E i \in 1 .. n : Batches!Chunk(r)[i].key = k /\ status[i] \in {"CREATED", "UPDATED"}}
    OBVIOUS
  <2>3. versions' = (IF Batches!Stores(slot)
          THEN [k \in DocumentKeys |-> IF k \in kept THEN (IF Batches!Converted THEN versions[k] + 1 ELSE 1) ELSE versions[k]]
          ELSE versions)
    BY <1>5, <2>2
  <2> QED
    BY <2>1, <2>3
<1>7. PICK lines : lines = {[index |-> i, key |-> Batches!Chunk(r)[i].key, status |-> status[i]] : i \in 1 .. n}
  OBVIOUS
<1>8. PICK new : new = [r EXCEPT !.answer = lines]
  OBVIOUS
<1>9. running = [s \in Batches!Slots |-> running[s]]
  BY DEF BatchInv
<1>10. running' = [running EXCEPT ![slot] = new]
  BY <1>2, <1>5, <1>7, <1>8, Zenon
<1>11. /\ running' = [s \in Batches!Slots |-> running'[s]]
       /\ \A s \in Batches!Slots : running'[s] = IF s = slot THEN new ELSE running[s]
  BY <1>9, <1>10
<1>12. RunInv(new) /\ new.docs = r.docs
  <2>1. r = [docs |-> r.docs, source |-> r.source, fetched |-> r.fetched, replace |-> r.replace,
             next |-> r.next, rows |-> r.rows, answer |-> r.answer]
    BY <1>3, Zenon DEF RunInv
  <2>2. new = [docs |-> r.docs, source |-> r.source, fetched |-> r.fetched, replace |-> r.replace,
               next |-> r.next, rows |-> r.rows, answer |-> lines]
    BY <1>8, <2>1
  <2>3. /\ new = [docs |-> new.docs, source |-> new.source, fetched |-> new.fetched, replace |-> new.replace,
                  next |-> new.next, rows |-> new.rows, answer |-> new.answer]
        /\ new.docs = r.docs /\ new.source = r.source /\ new.fetched = r.fetched /\ new.next = r.next
        /\ new.rows = r.rows /\ new.answer = lines
    BY <2>2
  <2>4. AnswerLinesUp(new)
    <3>1. \A i \in 1 .. n : r.docs[r.next + i - 1].key = Batches!Chunk(r)[i].key /\ i \in Nat
      BY <1>4
    <3> SUFFICES ASSUME NEW line \in lines
                 PROVE  /\ line = [index |-> line.index, key |-> line.key, status |-> line.status] /\ line.index \in Nat
                        /\ r.docs[r.next + line.index - 1].key = line.key
      BY <2>3, Zenon DEF AnswerLinesUp
    <3>2. PICK i \in 1 .. n : line = [index |-> i, key |-> Batches!Chunk(r)[i].key, status |-> status[i]]
      BY <1>7
    <3>3. line = [index |-> line.index, key |-> line.key, status |-> line.status] /\ line.index = i /\ line.key = Batches!Chunk(r)[i].key
      BY <3>2
    <3> QED
      BY <3>1, <3>3
  <2>5. Batches!RowsLineUp(new)
    BY <1>3, <2>3, Zenon DEF RunInv, Batches!RowsLineUp
  <2> QED
    BY <1>3, <2>3, <2>4, <2>5, Zenon DEF RunInv
<1>13. \A s \in Batches!Slots : /\ running[s] = None => running'[s] = None
                                /\ running'[s] # None => RunInv(running'[s]) /\ running'[s].docs = running[s].docs
  BY <1>1, <1>2, <1>11, <1>12, Zenon DEF BatchInv
<1> QED
  BY <1>1, <1>6, <1>11, <1>13, VersionsGrow

LEMMA ChunkAnsweredKeeps ==
  ASSUME BatchConstants, BatchInv, NEW slot \in Batches!Slots, Batches!ChunkAnswered(slot)
  PROVE  BatchInv'
<1>1. PICK r : r = running[slot]
  OBVIOUS
<1>2. r # None /\ r.answer # None /\ UNCHANGED <<flow, versions, input>> /\ Batches!Continues(slot, Batches!Rebased(r))
  BY <1>1 DEF Batches!ChunkAnswered, Batches!Busy
<1>3. RunInv(r) /\ AnswerLinesUp(r)
  BY <1>1, <1>2 DEF BatchInv, RunInv
<1>4. \A line \in Batches!Rebased(r) : r.docs[line.index].key = line.key
  <2> SUFFICES ASSUME NEW old \in r.answer, NEW line, line = [old EXCEPT !.index = @ + r.next - 1]
               PROVE  r.docs[line.index].key = line.key
    BY Zenon DEF Batches!Rebased
  <2>1. old = [index |-> old.index, key |-> old.key, status |-> old.status] /\ old.index \in Nat /\ r.docs[r.next + old.index - 1].key = old.key
    BY <1>3 DEF AnswerLinesUp
  <2>2. line.index = old.index + r.next - 1 /\ line.key = old.key
    BY <2>1
  <2>3. r.next \in Nat
    BY <1>3 DEF RunInv
  <2>4. old.index + r.next - 1 = r.next + old.index - 1
    BY <2>1, <2>3
  <2> QED
    BY <2>1, <2>2, <2>4
<1>5. running[slot].docs # <<>> /\ Batches!Busy(slot)
  BY <1>1, <1>2, <1>3 DEF RunInv, Batches!Busy
<1> QED
  BY <1>1, <1>2, <1>4, <1>5, ContinuesKeeps

LEMMA ChunkForbiddenKeeps ==
  ASSUME BatchConstants, BatchInv, NEW slot \in Batches!Slots, Batches!ChunkForbidden(slot)
  PROVE  BatchInv'
<1>1. \A line \in Batches!ForbiddenRows(running[slot]) : running[slot].docs[line.index].key = line.key
  BY DEF Batches!ForbiddenRows
<1>2. Batches!Busy(slot) /\ Batches!Continues(slot, Batches!ForbiddenRows(running[slot])) /\ UNCHANGED <<flow, versions, input>>
  BY Zenon DEF Batches!ChunkForbidden
<1>3. running[slot].docs # <<>>
  BY Zenon DEF Batches!ChunkForbidden, Batches!Busy, BatchInv
<1> QED
  BY <1>1, <1>2, <1>3, ContinuesKeeps

LEMMA ChunkFailsKeeps ==
  ASSUME BatchConstants, BatchInv, NEW slot \in Batches!Slots, Batches!ChunkFails(slot)
  PROVE  BatchInv'
<1>1. /\ Batches!Busy(slot) /\ running' = [running EXCEPT ![slot] = None] /\ UNCHANGED <<flow, versions, input>>
      /\ IF slot \in {"preview", "confirm"} THEN Batches!Reports(slot, running[slot], FALSE) ELSE UNCHANGED <<report, confirmation>>
  BY Zenon DEF Batches!ChunkFails
<1>2. CASE slot \in {"preview", "confirm"}
  <2>1. UNCHANGED report /\ confirmation' = (IF confirmation = None THEN None ELSE Batches!DialogReport(slot, running[slot], FALSE))
    BY <1>1, <1>2, Zenon DEF Batches!Reports
  <2> QED
    BY <1>1, <1>2, <2>1, DialogEnds
<1>3. CASE slot \in {"check", "import"}
  <2>1. UNCHANGED <<report, confirmation>>
    BY <1>1, <1>3
  <2>2. report' # None => report'.docs \in Docs /\ Batches!RowsLineUp(report')
    BY <2>1, Zenon DEF BatchInv, Batches!RowsLineUp
  <2>3. \E r : (r # None => RunInv(r) /\ (flow = "ontology" => r.docs # <<>>)) /\ running' = [running EXCEPT ![slot] = r]
    BY <1>1, Zenon
  <2> QED
    BY <1>1, <1>3, <2>1, <2>2, <2>3, PageRuns
<1> QED
  BY <1>2, <1>3 DEF Batches!Slots
\* What the page reads becomes its input, and the report it no longer belongs to goes.
LEMMA InputKeeps ==
  ASSUME BatchConstants, BatchInv, \/ Batches!Type \/ Batches!FileRead \/ Batches!RemoveFile \/ Batches!FetchAnswered
                   \/ Batches!ToggleReplace \/ Batches!RoleChanges
  PROVE  BatchInv'
<1>1. PICK old : old = input
  OBVIOUS
<1>2. /\ old = [text |-> old.text, files |-> old.files, from |-> old.from,
                fetched |-> old.fetched, replace |-> old.replace, admin |-> old.admin]
      /\ old.text \in Batches!TypedTexts /\ old.files \subseteq DocumentKeys
      /\ old.from # None => flow \in {"files", "ontology"} /\ old.files = {} /\ old.fetched = old.text
  BY <1>1, Zenon DEF BatchInv, InputInv
<1>3. SUFFICES /\ UNCHANGED <<flow, versions, running, confirmation>> /\ report' \in {None, report}
               /\ \E text \in Batches!TypedTexts, files \in SUBSET DocumentKeys : \E from, fetched, replace, admin :
                    /\ input' = [text |-> text, files |-> files, from |-> from, fetched |-> fetched,
                                 replace |-> replace, admin |-> admin]
                    /\ from # None => flow \in {"files", "ontology"} /\ files = {} /\ fetched = text
  <2>1. PICK text \in Batches!TypedTexts, files \in SUBSET DocumentKeys : \E from, fetched, replace, admin :
          /\ input' = [text |-> text, files |-> files, from |-> from, fetched |-> fetched,
                       replace |-> replace, admin |-> admin]
          /\ from # None => flow \in {"files", "ontology"} /\ files = {} /\ fetched = text
    BY <1>3
  <2>2. PICK from, fetched, replace, admin :
          /\ input' = [text |-> text, files |-> files, from |-> from, fetched |-> fetched,
                       replace |-> replace, admin |-> admin]
          /\ from # None => flow \in {"files", "ontology"} /\ files = {} /\ fetched = text
    BY <2>1
  <2>3. /\ input' = [text |-> input'.text, files |-> input'.files, from |-> input'.from, fetched |-> input'.fetched,
                     replace |-> input'.replace, admin |-> input'.admin]
        /\ input'.text = text /\ input'.files = files /\ input'.from = from /\ input'.fetched = fetched
    BY <2>2
  <2>4. files \subseteq DocumentKeys
    BY <2>1
  <2>5. InputInv'
    BY <1>3, <2>1, <2>2, <2>3, <2>4, Zenon DEF InputInv, Batches!TypedTexts
  <2> QED
    BY <1>3, <2>5, InputChanges
<1>4. CASE Batches!Type
  <2>1. PICK text \in Batches!TypedTexts : /\ Batches!Retyped([old EXCEPT !.text = text, !.from = None, !.fetched = None])
                                      /\ UNCHANGED <<flow, versions, running, confirmation>>
    BY <1>1, <1>4 DEF Batches!Type
  <2>2. PICK new : new = [old EXCEPT !.text = text, !.from = None, !.fetched = None]
    OBVIOUS
  <2>3. input' = new /\ report' = None
    BY <2>1, <2>2, Zenon DEF Batches!Retyped
  <2>4. new = [text |-> text, files |-> old.files, from |-> None, fetched |-> None, replace |-> old.replace, admin |-> old.admin]
    BY <1>2, <2>2
  <2> QED
    BY <1>2, <2>1, <2>3, <2>4, Zenon
<1>5. CASE Batches!FileRead
  <2>1. PICK text \in Batches!TypedTexts \ {None, {}} :
          /\ Batches!Retyped([old EXCEPT !.from = None, !.fetched = None,
                                !.text = IF flow = "ontology" THEN @ ELSE text,
                                !.files = IF flow = "ontology" THEN @ \cup text ELSE @])
          /\ UNCHANGED <<flow, versions, running, confirmation>>
    BY <1>1, <1>5 DEF Batches!FileRead
  <2>2. PICK words, files : /\ words = (IF flow = "ontology" THEN old.text ELSE text)
                            /\ files = (IF flow = "ontology" THEN old.files \cup text ELSE old.files)
    OBVIOUS
  <2>3. PICK new : new = [old EXCEPT !.from = None, !.fetched = None,
                            !.text = IF flow = "ontology" THEN @ ELSE text,
                            !.files = IF flow = "ontology" THEN @ \cup text ELSE @]
    OBVIOUS
  <2>4. input' = new /\ report' = None
    BY <2>1, <2>3, Zenon DEF Batches!Retyped
  <2>5. new = [text |-> words, files |-> files, from |-> None, fetched |-> None, replace |-> old.replace, admin |-> old.admin]
    BY <1>2, <2>2, <2>3
  <2>6. words \in Batches!TypedTexts
    BY <1>2, <2>1, <2>2
  <2>7. files \in SUBSET DocumentKeys
    BY <1>2, <2>1, <2>2 DEF Batches!TypedTexts, BatchConstants
  <2> QED
    BY <2>1, <2>4, <2>5, <2>6, <2>7, Zenon
<1>6. CASE Batches!RemoveFile
  <2>1. PICK key : /\ Batches!Retyped([old EXCEPT !.files = @ \ {key}, !.from = None, !.fetched = None])
                   /\ UNCHANGED <<flow, versions, running, confirmation>>
    BY <1>1, <1>6 DEF Batches!RemoveFile
  <2>2. PICK new : new = [old EXCEPT !.files = @ \ {key}, !.from = None, !.fetched = None]
    OBVIOUS
  <2>3. input' = new /\ report' = None
    BY <2>1, <2>2, Zenon DEF Batches!Retyped
  <2>4. new = [text |-> old.text, files |-> old.files \ {key}, from |-> None, fetched |-> None, replace |-> old.replace, admin |-> old.admin]
    BY <1>2, <2>2
  <2>5. old.files \ {key} \in SUBSET DocumentKeys
    BY <1>2
  <2> QED
    BY <1>2, <2>1, <2>3, <2>4, <2>5, Zenon
<1>7. CASE Batches!FetchAnswered
  <2>1. PICK text \in Batches!TypedTexts :
          /\ flow # "export" /\ UNCHANGED <<flow, versions, running, confirmation>>
          /\ Batches!Retyped(IF flow = "backstage" THEN [old EXCEPT !.text = text]
                             ELSE [old EXCEPT !.text = text, !.files = {}, !.fetched = text, !.from = "url"])
    BY <1>1, <1>7 DEF Batches!FetchAnswered
  <2>2. CASE flow = "backstage"
    <3>1. PICK new : new = [old EXCEPT !.text = text]
      OBVIOUS
    <3>2. input' = new /\ report' = None
      BY <2>1, <2>2, <3>1, Zenon DEF Batches!Retyped
    <3>3. new = [text |-> text, files |-> old.files, from |-> old.from, fetched |-> old.fetched, replace |-> old.replace, admin |-> old.admin]
      BY <1>2, <3>1
    <3>4. old.from = None
      BY <1>2, <2>2
    <3> QED
      BY <1>2, <2>1, <3>2, <3>3, <3>4, Zenon
  <2>3. CASE flow # "backstage"
    <3>1. PICK url : url = "url"
      OBVIOUS
    <3>2. PICK new : new = [old EXCEPT !.text = text, !.files = {}, !.fetched = text, !.from = url]
      OBVIOUS
    <3>3. input' = new /\ report' = None
      BY <2>1, <2>3, <3>1, <3>2, Zenon DEF Batches!Retyped
    <3>4. new = [text |-> text, files |-> {}, from |-> url, fetched |-> text, replace |-> old.replace, admin |-> old.admin]
      BY <1>2, <3>2
    <3>5. flow \in {"files", "ontology"} /\ {} \in SUBSET DocumentKeys
      <4>1. flow \in ImportFlows
        BY DEF BatchInv
      <4>2. flow \in {"files", "ontology", "backstage", "export"}
        BY <4>1 DEF BatchConstants
      <4> QED
        BY <2>1, <2>3, <4>2
    <3> QED
      BY <2>1, <3>3, <3>4, <3>5, Zenon
  <2> QED
    BY <2>2, <2>3
<1>8. CASE Batches!ToggleReplace
  <2>1. Batches!Retyped([old EXCEPT !.replace = ~@]) /\ UNCHANGED <<flow, versions, running, confirmation>>
    BY <1>1, <1>8 DEF Batches!ToggleReplace
  <2>2. PICK new, mark : new = [old EXCEPT !.replace = mark] /\ mark = (~old.replace)
    OBVIOUS
  <2>3. input' = new /\ report' = None
    BY <2>1, <2>2, Zenon DEF Batches!Retyped
  <2>4. new = [text |-> old.text, files |-> old.files, from |-> old.from, fetched |-> old.fetched, replace |-> mark, admin |-> old.admin]
    BY <1>2, <2>2
  <2> QED
    BY <1>2, <2>1, <2>3, <2>4, Zenon
<1>9. CASE Batches!RoleChanges
  <2>1. PICK new : new = [old EXCEPT !.admin = FALSE]
    OBVIOUS
  <2>2. input' = new /\ UNCHANGED <<flow, versions, running, report, confirmation>>
    BY <1>1, <1>9, <2>1 DEF Batches!RoleChanges
  <2>3. new = [text |-> old.text, files |-> old.files, from |-> old.from, fetched |-> old.fetched, replace |-> old.replace, admin |-> FALSE]
    BY <1>2, <2>1
  <2> QED
    BY <1>2, <2>2, <2>3, Zenon
<1> QED
  BY <1>4, <1>5, <1>6, <1>7, <1>8, <1>9
LEMMA BatchStays == ASSUME BatchInv, UNCHANGED Batches!batchVars PROVE BatchInv'
<1>1. UNCHANGED <<flow, versions, input, running, report, confirmation>>
  BY DEF Batches!batchVars
<1> QED
  BY <1>1, Zenon DEF BatchInv, InputInv, DialogInv, GuardsHold, Batches!TypedTexts, Batches!Slots, Batches!RowsLineUp, Batches!Busy, Batches!Converted

LEMMA NothingKeyed == KeysOf(<<>>) = {}
  BY DEF KeysOf

\* A page of unguarded batches carries the reference of the very documents it sends.
LEMMA PageBatch ==
  ASSUME BatchConstants, BatchInv, flow \in {"files", "ontology"}, input.text # None,
         NEW docs, docs = Batches!Ordered(input.text \cup input.files, FALSE)
  PROVE  /\ docs \in Docs /\ (input.from # None => KeysOf(docs) = input.fetched)
         /\ input.text \cup input.files # {} => docs # <<>>
<1>1. input.text \subseteq DocumentKeys /\ input.files \subseteq DocumentKeys
  BY Zenon DEF BatchInv, InputInv, Batches!TypedTexts, BatchConstants
<1>2. PICK keys : keys = input.text \cup input.files
  OBVIOUS
<1>3. keys \in SUBSET DocumentKeys /\ (input.from # None => keys = input.fetched)
  <2>1. keys \in SUBSET DocumentKeys
    BY <1>1, <1>2, Zenon
  <2>2. input.text \cup {} = input.text
    BY Zenon
  <2> QED
    BY <1>2, <2>1, <2>2, Zenon DEF BatchInv, InputInv
<1>4. docs \in Docs /\ KeysOf(docs) = keys
  BY <1>2, <1>3, OrderedDocuments, Zenon DEF BatchInv
<1>5. docs = <<>> => KeysOf(docs) = {}
  BY NothingKeyed, Zenon
<1> QED
  BY <1>2, <1>3, <1>4, <1>5, Zenon

LEMMA PagesKeep ==
  ASSUME BatchConstants, BatchInv,
         \/ \E mode \in {"check", "import"} : Batches!RunFiles(mode) \/ Batches!RunOntology(mode)
         \/ Batches!RunConverted \/ Batches!ConvertSelection \/ Batches!ChangeSelection
  PROVE  BatchInv'
<1>1. report # None => report.docs \in Docs /\ Batches!RowsLineUp(report)
  BY DEF BatchInv
<1>2. ASSUME NEW mode \in {"check", "import"}, Batches!RunFiles(mode) PROVE BatchInv'
  <2>1. /\ flow = "files" /\ input.text # None /\ UNCHANGED <<flow, versions, input, report, confirmation>>
        /\ \/ UNCHANGED running
           \/ running' = [running EXCEPT ![mode] = Batches!Batch(Batches!Ordered(input.text, FALSE), input.from, input.replace)]
    BY <1>2, Zenon DEF Batches!RunFiles
  <2>2. CASE UNCHANGED running
    BY <2>1, <2>2, BatchStays DEF Batches!batchVars
  <2>3. CASE running' = [running EXCEPT ![mode] = Batches!Batch(Batches!Ordered(input.text, FALSE), input.from, input.replace)]
    <3>1. PICK r : r = Batches!Batch(Batches!Ordered(input.text, FALSE), input.from, input.replace)
      OBVIOUS
    <3>2. SUFFICES ASSUME r # None PROVE RunInv(r) /\ (flow = "ontology" => r.docs # <<>>)
      <4>1. report' # None => report'.docs \in Docs /\ Batches!RowsLineUp(report')
        BY <1>1, <2>1, Zenon DEF Batches!RowsLineUp
      <4>2. running' = [running EXCEPT ![mode] = r]
        BY <2>3, <3>1, Zenon
      <4> QED
        BY <2>1, <3>2, <4>1, <4>2, PageRuns
    <3>3. PICK docs : docs = Batches!Ordered(input.text, FALSE)
      OBVIOUS
    <3>4. input.text \in SUBSET DocumentKeys /\ (input.from # None => input.text = input.fetched)
      BY <2>1 DEF BatchInv, InputInv, Batches!TypedTexts, BatchConstants
    <3>5. docs \in Docs /\ KeysOf(docs) = input.text
      BY <3>3, <3>4, OrderedDocuments DEF BatchInv
    <3>6. RunInv(r)
      BY <3>1, <3>3, <3>4, <3>5, NewRun
    <3> QED
      BY <2>1, <3>6
  <2> QED
    BY <2>1, <2>2, <2>3
<1>3. ASSUME NEW mode \in {"check", "import"}, Batches!RunOntology(mode) PROVE BatchInv'
  <2>1. PICK docs, origin, replace, r :
          /\ docs = Batches!Ordered(input.text \cup input.files, FALSE) /\ origin = input.from /\ replace = input.replace
          /\ r = Batches!Batch(docs, origin, replace)
    BY Zenon
  <2>2. /\ flow = "ontology" /\ input.text # None /\ input.text \cup input.files # {} /\ running' = [running EXCEPT ![mode] = r]
        /\ UNCHANGED <<flow, versions, input, report, confirmation>>
    BY <1>3, <2>1, Zenon DEF Batches!RunOntology
  <2>3. docs \in Docs /\ (origin # None => KeysOf(docs) = input.fetched) /\ docs # <<>>
    <3>1. flow \in {"files", "ontology"}
      BY <2>2
    <3> QED
      BY <2>1, <2>2, <3>1, PageBatch, Zenon
  <2>4. r = Batches!Batch(docs, origin, replace)
    BY <2>1
  <2>5. RunInv(r) /\ r.docs = docs
    BY <2>3, <2>4, NewRun
  <2>6. r # None => RunInv(r) /\ (flow = "ontology" => r.docs # <<>>)
    BY <2>3, <2>5, Zenon
  <2>7. report' # None => report'.docs \in Docs /\ Batches!RowsLineUp(report')
    BY <1>1, <2>2, Zenon DEF Batches!RowsLineUp
  <2> QED
    BY <2>2, <2>6, <2>7, PageRuns
<1>4. ASSUME Batches!RunConverted PROVE BatchInv'
  <2>1. PICK docs, r : docs = Batches!Ordered(input.text, TRUE) /\ r = Batches!Batch(docs, None, TRUE)
    OBVIOUS
  <2>2. /\ flow = "backstage" /\ input.text # None /\ running' = [running EXCEPT !["check"] = r] /\ report' = None
        /\ UNCHANGED <<flow, versions, input, confirmation>>
    BY <1>4, <2>1, Zenon DEF Batches!RunConverted
  <2>3. input.text \in SUBSET DocumentKeys
    BY <2>2 DEF BatchInv, InputInv, Batches!TypedTexts, BatchConstants
  <2>4. docs \in Docs
    BY <2>1, <2>3, OrderedDocuments DEF BatchInv
  <2>5. RunInv(r)
    BY <2>1, <2>4, NewRun
  <2>6. r # None => RunInv(r) /\ (flow = "ontology" => r.docs # <<>>)
    BY <2>2, <2>5
  <2> QED
    BY <2>2, <2>6, PageRuns
<1>5. ASSUME Batches!ConvertSelection PROVE BatchInv'
  <2>1. PICK keys \in Batchable : report' = [mode |-> "check", rows |-> {}, complete |-> TRUE, docs |-> Batches!Ordered(keys, FALSE)]
    BY <1>5 DEF Batches!ConvertSelection
  <2>2. UNCHANGED <<flow, versions, input, running, confirmation>>
    BY <1>5 DEF Batches!ConvertSelection
  <2>3. PICK docs : docs = Batches!Ordered(keys, FALSE)
    OBVIOUS
  <2>4. docs \in Docs
    BY <2>3, OrderedDocuments DEF BatchInv, BatchConstants
  <2>5. report'.docs = docs /\ report'.rows = {}
    BY <2>1, <2>3
  <2>6. report' # None => report'.docs \in Docs /\ Batches!RowsLineUp(report')
    BY <2>4, <2>5 DEF Batches!RowsLineUp
  <2>7. BatchInv /\ InputInv' /\ DialogInv'
    BY <2>2, Zenon DEF BatchInv, InputInv, DialogInv, GuardsHold, Batches!TypedTexts, Batches!Busy, Batches!Converted
  <2> QED
    BY <2>2, <2>6, <2>7, Zenon DEF BatchInv, Batches!Slots, Batches!RowsLineUp
<1>6. ASSUME Batches!ChangeSelection PROVE BatchInv'
  <2>1. report' = None /\ UNCHANGED <<flow, versions, input, running, confirmation>>
    BY <1>6 DEF Batches!ChangeSelection
  <2>2. InputInv'
    BY <2>1, Zenon DEF BatchInv, InputInv, Batches!TypedTexts
  <2> QED
    BY <2>1, <2>2, InputChanges
<1> QED
  BY <1>2, <1>3, <1>4, <1>5, <1>6

\* The dialog opens, converts again, imports or closes.
LEMMA DialogMoves ==
  ASSUME BatchInv, Batches!Converted, NEW slot \in {"preview", "confirm"}, NEW r, r # None => RunInv(r),
         running' = [running EXCEPT ![slot] = r], report' \in {None, report}, UNCHANGED <<flow, versions, input>>,
         running'[slot] = r /\ (\A s \in Batches!Slots : s # slot => running'[s] = running[s]) => DialogInv'
  PROVE  BatchInv'
<1>1. slot \in Batches!Slots
  BY DEF Batches!Slots
<1>2. running = [s \in Batches!Slots |-> running[s]]
  BY DEF BatchInv
<1>3. running' = [s \in Batches!Slots |-> running'[s]] /\ \A s \in Batches!Slots : running'[s] = IF s = slot THEN r ELSE running[s]
  BY <1>1, <1>2
<1>4. flow # "ontology"
  BY DEF Batches!Converted
<1>5. \A s \in Batches!Slots : running'[s] # None => RunInv(running'[s]) /\ (flow = "ontology" => running'[s].docs # <<>>)
  BY <1>3, <1>4, Zenon DEF BatchInv
<1>6. report' # None => report'.docs \in Docs /\ Batches!RowsLineUp(report')
  <2>1. CASE report' = None
    BY <2>1
  <2>2. CASE report' = report
    BY <2>2, Zenon DEF BatchInv, Batches!RowsLineUp
  <2> QED
    BY <2>1, <2>2
<1>7. InputInv'
  BY Zenon DEF BatchInv, InputInv, Batches!TypedTexts
<1>8. DialogInv'
  BY <1>1, <1>3
<1> QED
  BY <1>3, <1>5, <1>6, <1>7, <1>8, Zenon DEF BatchInv, Batches!Slots, Batches!RowsLineUp

\* A conversion guards every document with the version it has now, which is no older than any guard there was.
LEMMA GuardedNow ==
  ASSUME versions \in [DocumentKeys -> Nat], NEW keys \in SUBSET DocumentKeys, NEW docs \in Docs, KeysOf(docs) = keys,
         \A i \in DOMAIN docs : docs[i].expected = versions[docs[i].key]
  PROVE  GuardsHold(docs) /\ \A bs \in Docs : GuardsHold(bs) => Older(bs, docs)
<1>1. \A i \in DOMAIN docs : docs[i].key \in DocumentKeys
  BY DEF KeysOf
<1>2. \A i \in DOMAIN docs : docs[i].expected \in Nat /\ docs[i].expected <= versions[docs[i].key]
  BY <1>1
<1>3. Older(docs, docs)
  BY <1>2 DEF Older
<1>4. ASSUME NEW bs \in Docs, GuardsHold(bs) PROVE Older(bs, docs)
  BY <1>4 DEF GuardsHold, Older
<1> QED
  BY <1>2, <1>3, <1>4 DEF GuardsHold

LEMMA Conversion ==
  ASSUME BatchConstants, BatchInv, NEW keys \in SUBSET DocumentKeys, NEW docs, docs = Batches!Ordered(keys, TRUE)
  PROVE  /\ docs \in Docs /\ KeysOf(docs) = keys /\ GuardsHold(docs)
         /\ \A bs \in Docs : GuardsHold(bs) => Older(bs, docs)
<1>1. versions \in [DocumentKeys -> Nat]
  BY Zenon DEF BatchInv
<1>2. docs \in Docs /\ KeysOf(docs) = keys /\ \A i \in DOMAIN docs : docs[i].expected = versions[docs[i].key]
  BY <1>1, OrderedDocuments, Zenon
<1> QED
  BY <1>1, <1>2, GuardedNow, Zenon
\* The dialog opens over the documents of the page, converted as they are now.
LEMMA OpenKeeps == ASSUME BatchConstants, BatchInv, Batches!OpenConfirm PROVE BatchInv'
<1>1. PICK keys, docs, r : keys = Batches!Selected /\ docs = Batches!Ordered(keys, TRUE) /\ r = Batches!Batch(docs, None, TRUE)
  BY Zenon
<1>2. /\ Batches!Converted /\ confirmation = None /\ UNCHANGED <<flow, versions, input>> /\ report' \in {None, report}
      /\ running' = [running EXCEPT !["preview"] = r]
      /\ confirmation' = [check |-> "pending", run |-> "idle", batch |-> <<>>, rows |-> {}, keys |-> keys]
      /\ IF flow = "export" THEN report # None ELSE input.text \notin {None, {}}
  <2>1. report' = (IF flow = "backstage" THEN None ELSE report)
    BY Zenon DEF Batches!OpenConfirm
  <2>2. report' \in {None, report}
    BY <2>1
  <2> QED
    BY <1>1, <2>2, Zenon DEF Batches!OpenConfirm
<1>3. keys \in SUBSET DocumentKeys
  <2>1. CASE flow = "export"
    <3>1. report.docs \in Seq(Doc)
      BY <1>2, <2>1 DEF BatchInv, Docs
    <3>2. \A i \in 1 .. Len(report.docs) : report.docs[i] \in Doc
      BY <3>1, ElementOfSeq, LenProperties
    <3>3. \A i \in 1 .. Len(report.docs) : report.docs[i].key \in DocumentKeys
      BY <3>2 DEF Doc
    <3>4. keys = {report.docs[i].key : i \in 1 .. Len(report.docs)}
      BY <1>1, <2>1, Zenon DEF Batches!Selected
    <3> QED
      BY <3>3, <3>4
  <2>2. CASE flow # "export"
    <3>1. keys = input.text
      BY <1>1, <2>2, Zenon DEF Batches!Selected
    <3> QED
      BY <1>2, <2>2, <3>1 DEF BatchInv, InputInv, Batches!TypedTexts, BatchConstants
  <2> QED
    BY <2>1, <2>2
<1>4. docs \in Docs /\ KeysOf(docs) = keys /\ GuardsHold(docs)
  BY <1>1, <1>3, Conversion, Zenon
<1>5. RunInv(r) /\ r.docs = docs
  BY <1>1, <1>4, ConvertedRun, Zenon
<1>6. running["confirm"] = None
  BY <1>2 DEF BatchInv, DialogInv, Batches!Busy
<1>7. ASSUME running'["preview"] = r, \A s \in Batches!Slots : s # "preview" => running'[s] = running[s]
      PROVE  DialogInv'
  <2>1. /\ confirmation' = [check |-> confirmation'.check, run |-> confirmation'.run, batch |-> confirmation'.batch,
                            rows |-> confirmation'.rows, keys |-> confirmation'.keys]
        /\ confirmation'.batch = <<>> /\ confirmation'.keys = keys
    BY <1>2
  <2>2. confirmation' # None
    BY <2>1, Zenon DEF BatchConstants
  <2>3. running'["confirm"] = None
    BY <1>6, <1>7 DEF Batches!Slots
  <2>4. <<>> \in Docs /\ GuardsHold(<<>>)' /\ Older(<<>>, docs)
    <3>1. <<>> \in Docs
      BY DEF Docs
    <3>2. DOMAIN <<>> = {}
      OBVIOUS
    <3> QED
      BY <3>1, <3>2, Zenon DEF GuardsHold, Older
  <2>5. GuardsHold(docs)' /\ Batches!Converted'
    BY <1>2, <1>4, Zenon DEF GuardsHold, Batches!Converted
  <2>6. keys \subseteq DocumentKeys
    BY <1>3
  <2>7. running'["preview"].docs = docs
    BY <1>5, <1>7
  <2>8. ~Batches!Busy("confirm")'
    BY <2>3 DEF Batches!Busy
  <2> QED
    BY <1>4, <2>1, <2>2, <2>4, <2>5, <2>6, <2>7, <2>8, Zenon DEF DialogInv, GuardsHold
<1> QED
  BY <1>2, <1>5, <1>7, DialogMoves

LEMMA ReconvertsKeeps == ASSUME BatchConstants, BatchInv, Batches!Reconverts PROVE BatchInv'
<1>1. PICK docs, r : docs = Batches!Ordered(confirmation.keys, TRUE) /\ r = Batches!Batch(docs, None, TRUE)
  BY Zenon
<1>2. /\ confirmation # None /\ confirmation.run = "idle" /\ UNCHANGED <<flow, versions, input, report, confirmation>>
      /\ running' = [running EXCEPT !["preview"] = r]
  BY <1>1, Zenon DEF Batches!Reconverts
<1>3. Batches!Converted /\ confirmation.keys \in SUBSET DocumentKeys /\ confirmation.batch \in Docs /\ GuardsHold(confirmation.batch)
  BY <1>2 DEF BatchInv, DialogInv
<1>4. docs \in Docs /\ KeysOf(docs) = confirmation.keys /\ GuardsHold(docs) /\ Older(confirmation.batch, docs)
  BY <1>1, <1>3, Conversion, Zenon
<1>5. RunInv(r) /\ r.docs = docs
  BY <1>1, <1>4, ConvertedRun, Zenon
<1>6. running["confirm"] = None
  <2>1. "idle" # "pending"
    OBVIOUS
  <2> QED
    BY <1>2, <2>1, Zenon DEF BatchInv, DialogInv, Batches!Busy
<1>7. ASSUME running'["preview"] = r, \A s \in Batches!Slots : s # "preview" => running'[s] = running[s]
      PROVE  DialogInv'
  <2>1. running'["confirm"] = None
    BY <1>6, <1>7 DEF Batches!Slots
  <2>2. GuardsHold(docs)' /\ GuardsHold(confirmation.batch)' /\ Batches!Converted'
    BY <1>2, <1>3, <1>4, Zenon DEF GuardsHold, Batches!Converted
  <2>3. running'["preview"].docs = docs
    BY <1>5, <1>7
  <2>4. ~Batches!Busy("confirm")'
    BY <2>1 DEF Batches!Busy
  <2> QED
    BY <1>2, <1>4, <2>2, <2>3, <2>4, Zenon DEF BatchInv, DialogInv, GuardsHold
<1>8. report' \in {None, report} /\ UNCHANGED <<flow, versions, input>>
  BY <1>2
<1> QED
  BY <1>2, <1>3, <1>5, <1>7, <1>8, DialogMoves

LEMMA ImportKeeps == ASSUME BatchConstants, BatchInv, Batches!ConfirmImport PROVE BatchInv'
<1>1. PICK docs, r, old : docs = confirmation.batch /\ r = Batches!Batch(docs, None, TRUE) /\ old = confirmation
  BY Zenon
<1>2. /\ old # None /\ docs # <<>> /\ UNCHANGED <<flow, versions, input, report>>
      /\ running' = [running EXCEPT !["confirm"] = r]
      /\ confirmation' = [old EXCEPT !.run = "pending"]
  BY <1>1, Zenon DEF Batches!ConfirmImport
<1>3. /\ Batches!Converted /\ docs \in Docs /\ GuardsHold(docs) /\ old.keys \subseteq DocumentKeys
      /\ old = [check |-> old.check, run |-> old.run, batch |-> old.batch, rows |-> old.rows, keys |-> old.keys]
      /\ KeysOf(docs) = old.keys
  BY <1>1, <1>2, Zenon DEF BatchInv, DialogInv
<1>4. RunInv(r) /\ r.docs = docs
  BY <1>1, <1>3, ConvertedRun, Zenon
<1>5. ASSUME running'["confirm"] = r, \A s \in Batches!Slots : s # "confirm" => running'[s] = running[s]
      PROVE  DialogInv'
  <2>1. PICK mark : mark = "pending"
    OBVIOUS
  <2>2. confirmation' = [check |-> old.check, run |-> mark, batch |-> old.batch, rows |-> old.rows, keys |-> old.keys]
    BY <1>2, <1>3, <2>1
  <2>3. /\ confirmation' = [check |-> confirmation'.check, run |-> confirmation'.run, batch |-> confirmation'.batch,
                            rows |-> confirmation'.rows, keys |-> confirmation'.keys]
        /\ confirmation'.batch = docs /\ confirmation'.keys = old.keys /\ confirmation'.run = "pending"
    BY <1>1, <2>1, <2>2
  <2>4. confirmation' # None
    BY <2>3, Zenon DEF BatchConstants
  <2>5. running'["preview"] = running["preview"]
    BY <1>5 DEF Batches!Slots
  <2>6. GuardsHold(docs)' /\ Batches!Converted'
    BY <1>2, <1>3, Zenon DEF GuardsHold, Batches!Converted
  <2>7. running'["confirm"].docs = docs
    BY <1>4, <1>5
  <2>8. Older(docs, docs)
    BY <1>3 DEF GuardsHold
  <2>9. running["preview"] # None => /\ GuardsHold(running["preview"].docs) /\ KeysOf(running["preview"].docs) = old.keys
                                     /\ Older(docs, running["preview"].docs)
    BY <1>1, Zenon DEF BatchInv, DialogInv, Batches!Busy
  <2> QED
    BY <1>2, <1>3, <2>3, <2>4, <2>5, <2>6, <2>7, <2>8, <2>9, Zenon DEF DialogInv, GuardsHold, Batches!Busy
<1>6. report' \in {None, report} /\ UNCHANGED <<flow, versions, input>>
  BY <1>2
<1> QED
  BY <1>2, <1>3, <1>4, <1>5, <1>6, DialogMoves

LEMMA CloseKeeps == ASSUME BatchInv, Batches!CloseConfirm PROVE BatchInv'
<1>1. /\ confirmation # None /\ confirmation.run # "pending" /\ confirmation' = None
      /\ running' = [running EXCEPT !["preview"] = None] /\ UNCHANGED <<flow, versions, input, report>>
  BY DEF Batches!CloseConfirm
<1>2. Batches!Converted /\ running["confirm"] = None
  BY <1>1, Zenon DEF BatchInv, DialogInv, Batches!Busy
<1>3. ASSUME running'["preview"] = None, \A s \in Batches!Slots : s # "preview" => running'[s] = running[s]
      PROVE  DialogInv'
  <2>1. running'["confirm"] = None
    BY <1>2, <1>3 DEF Batches!Slots
  <2> QED
    BY <1>1, <1>3, <2>1, Zenon DEF DialogInv, Batches!Busy
<1>4. report' \in {None, report} /\ UNCHANGED <<flow, versions, input>>
  BY <1>1
<1> QED
  BY <1>1, <1>2, <1>3, <1>4, DialogMoves

LEMMA OthersKeep == ASSUME BatchInv, Batches!OthersWrite PROVE BatchInv'
<1>1. PICK k \in DocumentKeys : versions' = [versions EXCEPT ![k] = @ + 1]
  BY DEF Batches!OthersWrite
<1>2. UNCHANGED <<flow, input, running, report, confirmation>>
  BY DEF Batches!OthersWrite
<1>3. versions \in [DocumentKeys -> Nat]
  BY DEF BatchInv
<1>4. versions' \in [DocumentKeys -> Nat] /\ \A x \in DocumentKeys : versions[x] <= versions'[x]
  BY <1>1, <1>3
<1>5. /\ running' = [s \in Batches!Slots |-> running'[s]]
      /\ \A s \in Batches!Slots : /\ running[s] = None => running'[s] = None
                                  /\ running'[s] # None => RunInv(running'[s]) /\ running'[s].docs = running[s].docs
  BY <1>2, Zenon DEF BatchInv
<1> QED
  BY <1>2, <1>4, <1>5, VersionsGrow
LEMMA BatchSteps == ASSUME BatchConstants, BatchInv, [Batches!BatchNext]_(Batches!batchVars) PROVE BatchInv'
<1>1. CASE UNCHANGED Batches!batchVars
  BY <1>1, BatchStays
<1>2. CASE Batches!Type \/ Batches!FileRead \/ Batches!RemoveFile \/ Batches!FetchAnswered \/ Batches!ToggleReplace \/ Batches!RoleChanges
  BY <1>2, InputKeeps
<1>3. CASE \/ \E mode \in {"check", "import"} : Batches!RunFiles(mode) \/ Batches!RunOntology(mode)
           \/ Batches!RunConverted \/ Batches!ConvertSelection \/ Batches!ChangeSelection
  BY <1>3, PagesKeep
<1>4. CASE \E slot \in Batches!Slots : \/ Batches!ChunkHandled(slot) \/ Batches!ChunkAnswered(slot)
                                       \/ Batches!ChunkForbidden(slot) \/ Batches!ChunkFails(slot)
  BY <1>4, ChunkHandledKeeps, ChunkAnsweredKeeps, ChunkForbiddenKeeps, ChunkFailsKeeps
<1>5. CASE Batches!OpenConfirm \/ Batches!Reconverts \/ Batches!ConfirmImport \/ Batches!CloseConfirm
  BY <1>5, OpenKeeps, ReconvertsKeeps, ImportKeeps, CloseKeeps
<1>6. CASE Batches!OthersWrite
  BY <1>6, OthersKeep
<1> QED
  BY <1>1, <1>2, <1>3, <1>4, <1>5, <1>6, Zenon DEF Batches!BatchNext

LEMMA BatchesLineUp == ASSUME BatchInv PROVE Batches!ReportsLineUp
<1>1. ASSUME NEW s \in Batches!Slots, Batches!Busy(s) PROVE Batches!SourceBelongs(running[s]) /\ Batches!RowsLineUp(running[s])
  <2>1. RunInv(running[s])
    BY <1>1, Zenon DEF BatchInv, Batches!Busy
  <2>2. DOMAIN running[s].docs = 1 .. Len(running[s].docs)
    BY <2>1, LenProperties DEF RunInv, Docs
  <2> QED
    BY <2>1, <2>2, Zenon DEF RunInv, KeysOf, Batches!SourceBelongs
<1>2. report # None => Batches!RowsLineUp(report)
  BY DEF BatchInv
<1> QED
  BY <1>1, <1>2, Zenon DEF Batches!ReportsLineUp

\* Whatever is typed, fetched, toggled and answered meanwhile, a batch carries the reference its
\* whole text was fetched from, and every row of a report stands at the place of its document
\* (runBatch, runImportBatch, runCatalogFileBatches).
THEOREM ReportsNameTheirDocuments ==
  ASSUME BatchConstants
  PROVE  Batches!BatchSpec => []Batches!ReportsLineUp
<1>1. BatchInv => Batches!ReportsLineUp
  BY BatchesLineUp
<1> QED
  BY <1>1, BatchStarts, BatchSteps, PTL DEF Batches!BatchSpec

\* What the server stores under a guard was guarded with the version there is.
LEMMA StoredOverGuard ==
  ASSUME NEW r, NEW i, NEW status \in Batches!Outcomes(r, i), status \in {"CREATED", "UPDATED"},
         Batches!ChunkExpectations(r)[i] # None
  PROVE  Batches!ChunkExpectations(r)[i] = versions[Batches!Chunk(r)[i].key]
<1>1. status # "INVALID" /\ status # "STALE"
  OBVIOUS
<1> QED
  BY <1>1, Zenon DEF Batches!Outcomes

LEMMA ConfirmStores ==
  ASSUME BatchConstants, BatchInv, Batches!ChunkHandled("confirm"), NEW k \in DocumentKeys, versions'[k] # versions[k]
  PROVE  \E i \in 1 .. Len(confirmation.batch) : confirmation.batch[i] = [key |-> k, expected |-> versions[k]]
<1> DEFINE r == running["confirm"]
           n == Len(Batches!Chunk(r))
<1>1. r # None /\ r.docs # <<>> /\ "confirm" \in Batches!Slots
  BY DEF Batches!ChunkHandled, Batches!Busy, Batches!Slots
<1>2. PICK status \in [1 .. n -> {"INVALID", "STALE", "CREATED", "UPDATED", "EXISTS"}] :
        /\ \A i \in 1 .. n : status[i] \in Batches!Outcomes(r, i)
        /\ versions' = IF Batches!Stores("confirm")
             THEN [x \in DocumentKeys |-> IF \E i \in 1 .. n : Batches!Chunk(r)[i].key = x /\ status[i] \in {"CREATED", "UPDATED"}
                                  THEN (IF Batches!Converted THEN versions[x] + 1 ELSE 1) ELSE versions[x]]
             ELSE versions
  BY Zenon DEF Batches!ChunkHandled
<1>3. RunInv(r) /\ Batches!Busy("confirm")
  BY <1>1 DEF BatchInv, Batches!Busy
<1>4. /\ GuardsHold(r.docs) /\ KeysOf(r.docs) = confirmation.keys /\ KeysOf(confirmation.batch) = confirmation.keys
      /\ Older(r.docs, confirmation.batch) /\ GuardsHold(confirmation.batch) /\ confirmation.batch \in Docs
  BY <1>3, Zenon DEF BatchInv, DialogInv
<1>5. \A i \in 1 .. n : r.next + i - 1 \in 1 .. Len(r.docs) /\ i \in Nat /\ Batches!Chunk(r)[i] = r.docs[r.next + i - 1]
  BY <1>1, <1>3, ChunkRows
<1>6. \A i \in 1 .. n : Batches!ChunkExpectations(r)[i] = r.docs[r.next + i - 1].expected
  BY DEF Batches!ChunkExpectations
<1>7. DOMAIN r.docs = 1 .. Len(r.docs)
  BY <1>3, LenProperties DEF RunInv, Docs
<1> HIDE DEF r, n
<1>8. PICK i \in 1 .. n : Batches!Chunk(r)[i].key = k /\ status[i] \in {"CREATED", "UPDATED"}
  <2>1. PICK kept : kept = {x \in DocumentKeys : \E i \in 1 .. n : Batches!Chunk(r)[i].key = x /\ status[i] \in {"CREATED", "UPDATED"}}
    OBVIOUS
  <2>2. versions' = (IF Batches!Stores("confirm")
          THEN [x \in DocumentKeys |-> IF x \in kept THEN (IF Batches!Converted THEN versions[x] + 1 ELSE 1) ELSE versions[x]]
          ELSE versions)
    BY <1>2, <2>1
  <2>3. k \in kept
    BY <2>2
  <2> QED
    BY <2>1, <2>3
<1>9. PICK j \in DOMAIN r.docs : r.docs[j].key = k /\ r.docs[j].expected = Batches!ChunkExpectations(r)[i] /\ Batches!Chunk(r)[i] = r.docs[j]
  BY <1>5, <1>6, <1>7, <1>8
<1>10. Batches!ChunkExpectations(r)[i] # None
  BY <1>4, <1>9 DEF GuardsHold, BatchConstants
<1>11. r.docs[j].expected = versions[k]
  BY <1>2, <1>8, <1>9, <1>10, StoredOverGuard
<1>12. PICK m \in DOMAIN confirmation.batch : confirmation.batch[m].key = k
  <2>1. k \in KeysOf(r.docs)
    BY <1>9 DEF KeysOf
  <2>2. k \in KeysOf(confirmation.batch)
    BY <1>4, <2>1, Zenon
  <2> QED
    BY <2>2, Zenon DEF KeysOf
<1>13. confirmation.batch[m].expected = versions[k]
  <2>1. PICK was, old : was = r.docs[j].expected /\ old = confirmation.batch[m].expected
    OBVIOUS
  <2>2. was \in Nat /\ old \in Nat /\ old <= versions[k]
    BY <1>4, <1>9, <1>12, <2>1 DEF GuardsHold
  <2>3. was <= old
    BY <1>4, <1>9, <1>12, <2>1 DEF Older
  <2>4. was = versions[k]
    BY <1>11, <2>1
  <2>5. was = old
    BY <2>2, <2>3, <2>4
  <2> QED
    BY <2>1, <2>4, <2>5
<1>14. m \in 1 .. Len(confirmation.batch) /\ confirmation.batch[m] \in Doc
  <2>1. confirmation.batch \in Seq(Doc)
    BY <1>4 DEF Docs
  <2>2. DOMAIN confirmation.batch = 1 .. Len(confirmation.batch)
    BY <2>1, LenProperties
  <2> QED
    BY <1>12, <2>1, <2>2, ElementOfSeq
<1>15. confirmation.batch[m] = [key |-> k, expected |-> versions[k]]
  BY <1>12, <1>13, <1>14 DEF Doc
<1> QED
  BY <1>14, <1>15

\* Only the server and other writers change the versions.
LEMMA VersionsHold ==
  ASSUME [Batches!BatchNext]_(Batches!batchVars), ~Batches!OthersWrite, \A slot \in Batches!Slots : ~Batches!ChunkHandled(slot)
  PROVE  UNCHANGED versions
<1>1. CASE UNCHANGED Batches!batchVars
  BY <1>1 DEF Batches!batchVars
<1>2. CASE Batches!Type \/ Batches!FileRead \/ Batches!RemoveFile \/ Batches!FetchAnswered \/ Batches!ToggleReplace \/ Batches!RoleChanges
  BY <1>2, Zenon DEF Batches!Type, Batches!FileRead, Batches!RemoveFile, Batches!FetchAnswered, Batches!ToggleReplace, Batches!RoleChanges
<1>3. CASE \/ \E mode \in {"check", "import"} : Batches!RunFiles(mode) \/ Batches!RunOntology(mode)
           \/ Batches!RunConverted \/ Batches!ConvertSelection \/ Batches!ChangeSelection
  BY <1>3, Zenon DEF Batches!RunFiles, Batches!RunOntology, Batches!RunConverted, Batches!ConvertSelection, Batches!ChangeSelection
<1>4. CASE \E slot \in Batches!Slots : Batches!ChunkAnswered(slot) \/ Batches!ChunkForbidden(slot) \/ Batches!ChunkFails(slot)
  BY <1>4, Zenon DEF Batches!ChunkAnswered, Batches!ChunkForbidden, Batches!ChunkFails
<1>5. CASE Batches!OpenConfirm \/ Batches!Reconverts \/ Batches!ConfirmImport \/ Batches!CloseConfirm
  BY <1>5, Zenon DEF Batches!OpenConfirm, Batches!Reconverts, Batches!ConfirmImport, Batches!CloseConfirm
<1> QED
  BY <1>1, <1>2, <1>3, <1>4, <1>5, Zenon DEF Batches!BatchNext

\* A chunk of the confirmed batch stores over the versions on the screen.
LEMMA StepsStoreAsPreviewed ==
  ASSUME BatchConstants, BatchInv, [Batches!BatchNext]_(Batches!batchVars)
  PROVE  Batches!StoresAsPreviewed
<1> SUFFICES ASSUME running["confirm"] # None, running["confirm"].answer = None, running'["confirm"].answer # None,
                    NEW k \in DocumentKeys, versions'[k] # versions[k]
             PROVE  \E i \in 1 .. Len(confirmation.batch) : confirmation.batch[i] = [key |-> k, expected |-> versions[k]]
  BY Zenon DEF Batches!StoresAsPreviewed, Batches!Busy
<1>1. ~UNCHANGED versions /\ running'["confirm"] # running["confirm"]
  BY Zenon
<1>2. ~Batches!OthersWrite
  BY <1>1, Zenon DEF Batches!OthersWrite
<1>3. PICK slot \in Batches!Slots : Batches!ChunkHandled(slot)
  BY <1>1, <1>2, VersionsHold
<1>4. CASE slot = "confirm"
  BY <1>3, <1>4, ConfirmStores
<1>5. CASE slot # "confirm"
  <2>1. \E lines : running' = [running EXCEPT ![slot].answer = lines]
    BY <1>3, Zenon DEF Batches!ChunkHandled
  <2>2. running'["confirm"] = running["confirm"]
    BY <1>5, <2>1
  <2> QED
    BY <1>1, <2>2
<1> QED
  BY <1>4, <1>5

\* Confirm stores a document only over the version that it was converted over for the preview on
\* the screen when it was pressed, whatever others wrote and however often the dialog converted
\* again (ImportConfirmDialog).
THEOREM ConfirmsStoreWhatIsShown ==
  ASSUME BatchConstants
  PROVE  Batches!BatchSpec => [][Batches!StoresAsPreviewed]_(Batches!batchVars)
<1>1. BatchInv /\ [Batches!BatchNext]_(Batches!batchVars) => Batches!StoresAsPreviewed
  BY StepsStoreAsPreviewed
<1> QED
  BY <1>1, BatchStarts, BatchSteps, PTL DEF Batches!BatchSpec

-----------------------------------------------------------------------------
(* Dictionary forms *)

CONSTANTS DictionaryFamilies, Values, MaxIds, MaxRows, MaxRequests

VARIABLES dictionary, entries, minted, cached, page, rows, base, puts, frozen, inserted, added

Dictionary == INSTANCE DictionaryEditors
                WITH Families <- DictionaryFamilies, Texts <- Values, MaxKeys <- MaxRows, family <- dictionary, requests <- puts

\* What can be typed, and the identifiers of stored entries told from none.
DictionaryConstants == Values \subseteq {"", "a", "A", "b"} /\ None \notin Nat

\* What the rows and entries say: that, nothing yet, or what was stored elsewhere.
Typable == Values \cup {"", "a"}

OneDefault(list) == \A m, n \in DOMAIN list : list[m].isDefault /\ list[n].isDefault => m = n
Entry == [id : Nat, value : Typable, isDefault : BOOLEAN]
RowDraft == [key : Nat, id : Nat \cup {None}, value : Typable, isDefault : BOOLEAN]
EntryLists == {list \in Seq(Entry) : OneDefault(list)}
DraftLists == {drafts \in Seq(RowDraft) : OneDefault(drafts)}

\* The keys of the rows of a form, or of a body, that are new.
NewKeys(drafts) == {drafts[n].key : n \in {m \in DOMAIN drafts : drafts[m].id = None}}

\* A save that is under way carries nothing that is stored yet; its rows are those of one form.
PutInv(r) ==
  /\ r = [body |-> r.body, at |-> r.at, mine |-> r.mine] /\ r.mine \in BOOLEAN
  /\ r.body \in DraftLists /\ Dictionary!WellFormed(r.body)
  /\ NewKeys(r.body) \subseteq 1 .. added
  /\ r.at = "sent" => NewKeys(r.body) \cap inserted = {}
  /\ ~r.mine => NewKeys(r.body) \cap NewKeys(rows) = {}

\* A form shows new rows that are stored only until it is seeded again, or frozen.
FormAwaits ==
  NewKeys(rows) \cap inserted # {} => frozen \/ \E r \in puts : r.mine /\ r.at = "stored"

DictionaryInv ==
  /\ entries \in EntryLists /\ cached \in EntryLists
  /\ rows \in DraftLists /\ base \in DraftLists /\ NewKeys(base) = {}
  /\ minted \in Nat /\ added \in Nat /\ frozen \in BOOLEAN
  /\ inserted \subseteq 1 .. added /\ NewKeys(rows) \subseteq 1 .. added
  /\ \A r \in puts : PutInv(r)
  /\ \A r, s \in puts : r # s => NewKeys(r.body) \cap NewKeys(s.body) = {} /\ ~(r.mine /\ s.mine)
  /\ FormAwaits

LEMMA DictionaryCount == ASSUME NEW S PROVE Dictionary!Cardinality(S) = Cardinality(S)
  BY Zenon DEF Dictionary!Cardinality, Cardinality, Dictionary!IsFiniteSet, IsFiniteSet

LEMMA EmptyForm == <<>> \in DraftLists /\ NewKeys(<<>>) = {}
  BY DEF DraftLists, OneDefault, NewKeys

\* A form that is seeded has no new row.
LEMMA SeededForm ==
  ASSUME DictionaryConstants, NEW list \in EntryLists
  PROVE  Dictionary!toFormValues(list) \in DraftLists /\ NewKeys(Dictionary!toFormValues(list)) = {}
<1>1. PICK seed : seed = Dictionary!toFormValues(list)
  OBVIOUS
<1>2. list \in Seq(Entry) /\ DOMAIN list = 1 .. Len(list) /\ Len(list) \in Nat /\ \A n \in 1 .. Len(list) : list[n] \in Entry
  BY LenProperties, ElementOfSeq DEF EntryLists
<1>3. /\ DOMAIN seed = 1 .. Len(list)
      /\ \A n \in 1 .. Len(list) : seed[n] = [key |-> 0, id |-> list[n].id, value |-> list[n].value, isDefault |-> list[n].isDefault]
      /\ seed = [n \in 1 .. Len(list) |-> seed[n]]
  BY <1>1, <1>2 DEF Dictionary!toFormValues
<1> None \notin Nat
  BY DEF DictionaryConstants
<1>4. \A n \in 1 .. Len(list) : seed[n] \in RowDraft /\ seed[n].id # None /\ seed[n].isDefault = list[n].isDefault
  BY <1>2, <1>3 DEF Entry, RowDraft
<1>5. seed \in Seq(RowDraft)
  BY <1>2, <1>3, <1>4, IsASeq
<1>6. OneDefault(seed)
  BY <1>2, <1>3, <1>4 DEF OneDefault, EntryLists
<1>7. NewKeys(seed) = {}
  BY <1>3, <1>4 DEF NewKeys
<1> QED
  BY <1>1, <1>5, <1>6, <1>7 DEF DraftLists

\* Rows that are moved, left out or given another value are no others than before.
LEMMA Rearranged ==
  ASSUME NEW old \in DraftLists, NEW new \in Seq(RowDraft), NEW from \in [DOMAIN new -> DOMAIN old],
         \A m, n \in DOMAIN new : from[m] = from[n] => m = n,
         \A n \in DOMAIN new : /\ new[n].key = old[from[n]].key /\ new[n].id = old[from[n]].id
                               /\ new[n].isDefault = old[from[n]].isDefault
  PROVE  new \in DraftLists /\ NewKeys(new) \subseteq NewKeys(old)
<1>1. OneDefault(new)
  <2>1. \A n \in DOMAIN new : from[n] \in DOMAIN old
    OBVIOUS
  <2>2. OneDefault(old)
    BY DEF DraftLists
  <2> QED
    BY <2>1, <2>2, Zenon DEF OneDefault
<1>2. NewKeys(new) \subseteq NewKeys(old)
  BY DEF NewKeys
<1> QED
  BY <1>1, <1>2 DEF DraftLists

LEMMA MarkedDraft ==
  ASSUME NEW draft \in RowDraft, NEW mark \in BOOLEAN, NEW marked, marked = [draft EXCEPT !.isDefault = mark]
  PROVE  /\ marked \in RowDraft /\ marked.isDefault = mark
         /\ marked.key = draft.key /\ marked.id = draft.id /\ marked.value = draft.value
<1>1. marked = [key |-> draft.key, id |-> draft.id, value |-> draft.value, isDefault |-> mark]
  BY DEF RowDraft
<1>2. draft.key \in Nat /\ draft.id \in Nat \cup {None} /\ draft.value \in Typable
  BY DEF RowDraft
<1>3. marked \in RowDraft
  BY <1>1, <1>2 DEF RowDraft
<1> QED
  BY <1>1, <1>3

LEMMA EditRearranges ==
  ASSUME rows \in DraftLists, Dictionary!Edit
  PROVE  rows' \in DraftLists /\ NewKeys(rows') \subseteq NewKeys(rows)
<1>1. rows \in Seq(RowDraft) /\ DOMAIN rows = 1 .. Len(rows) /\ Len(rows) \in Nat /\ \A n \in 1 .. Len(rows) : rows[n] \in RowDraft
  BY LenProperties, ElementOfSeq DEF DraftLists
<1>2. ASSUME NEW n \in DOMAIN rows, NEW v \in Values, rows' = [rows EXCEPT ![n].value = v]
      PROVE  rows' \in DraftLists /\ NewKeys(rows') \subseteq NewKeys(rows)
  <2>1. PICK one : one = [rows[n] EXCEPT !.value = v]
    OBVIOUS
  <2>2. one \in RowDraft /\ one.key = rows[n].key /\ one.id = rows[n].id /\ one.isDefault = rows[n].isDefault
    BY <1>1, <1>2, <2>1 DEF RowDraft, Typable
  <2>3. rows' = [rows EXCEPT ![n] = one]
    BY <1>2, <2>1
  <2>4. rows' \in Seq(RowDraft) /\ DOMAIN rows' = DOMAIN rows /\ \A m \in DOMAIN rows : rows'[m] = IF m = n THEN one ELSE rows[m]
    BY <1>1, <2>2, <2>3, ExceptSeq
  <2>5. PICK from : from = [m \in DOMAIN rows |-> m]
    OBVIOUS
  <2> QED
    BY <2>2, <2>4, <2>5, Rearranged
<1>3. ASSUME NEW n \in 1 .. Len(rows) - 1, rows' = [rows EXCEPT ![n] = rows[n + 1], ![n + 1] = rows[n]]
      PROVE  rows' \in DraftLists /\ NewKeys(rows') \subseteq NewKeys(rows)
  <2>1. n \in 1 .. Len(rows) /\ n + 1 \in 1 .. Len(rows) /\ n # n + 1
    BY <1>1
  <2>2. PICK from : from = [m \in DOMAIN rows |-> IF m = n THEN n + 1 ELSE IF m = n + 1 THEN n ELSE m]
    OBVIOUS
  <2>3. from \in [DOMAIN rows -> DOMAIN rows] /\ \A l, m \in DOMAIN rows : from[l] = from[m] => l = m
    BY <1>1, <2>1, <2>2
  <2>4. rows' = [m \in 1 .. Len(rows) |-> rows[from[m]]]
    BY <1>1, <1>3, <2>1, <2>2
  <2>5. \A m \in 1 .. Len(rows) : rows[from[m]] \in RowDraft
    BY <1>1, <2>3
  <2>6. rows' \in Seq(RowDraft)
    BY <1>1, <2>4, <2>5, IsASeq
  <2> QED
    BY <1>1, <2>3, <2>4, <2>6, Rearranged
<1>4. ASSUME NEW n \in DOMAIN rows, rows' = Dictionary!RemoveAt(rows, n)
      PROVE  rows' \in DraftLists /\ NewKeys(rows') \subseteq NewKeys(rows)
  <2>1. n \in 1 .. Len(rows)
    BY <1>1
  <2>2. PICK front, back : front = SubSeq(rows, 1, n - 1) /\ back = SubSeq(rows, n + 1, Len(rows))
    OBVIOUS
  <2>3. front \in Seq(RowDraft) /\ Len(front) = n - 1 /\ \A m \in 1 .. n - 1 : front[m] = rows[m]
    BY <1>1, <2>1, <2>2, SubSeqProperties
  <2>4. back \in Seq(RowDraft) /\ Len(back) = Len(rows) - n /\ \A m \in 1 .. Len(rows) - n : back[m] = rows[n + m]
    BY <1>1, <2>1, <2>2, SubSeqProperties
  <2>5. /\ rows' \in Seq(RowDraft) /\ DOMAIN rows' = 1 .. Len(rows) - 1
        /\ \A m \in 1 .. Len(rows) - 1 : rows'[m] = rows[IF m < n THEN m ELSE m + 1]
    <3>1. rows' = front \o back
      BY <1>4, <2>2 DEF Dictionary!RemoveAt
    <3>2. rows' \in Seq(RowDraft) /\ Len(rows') = Len(rows) - 1
      <4>1. front \o back \in Seq(RowDraft) /\ Len(front \o back) = Len(front) + Len(back)
        BY <2>3, <2>4, ConcatProperties
      <4> QED
        BY <1>1, <2>1, <2>3, <2>4, <3>1, <4>1
    <3>3. \A m \in 1 .. Len(rows) - 1 : rows'[m] = IF m <= n - 1 THEN front[m] ELSE back[m - (n - 1)]
      BY <1>1, <2>3, <2>4, <3>1, ConcatProperties
    <3>4. ASSUME NEW m \in 1 .. Len(rows) - 1 PROVE rows'[m] = rows[IF m < n THEN m ELSE m + 1]
      <4>1. CASE m < n
        BY <1>1, <2>1, <2>3, <3>3, <4>1
      <4>2. CASE ~(m < n)
        <5>1. m - (n - 1) \in 1 .. Len(rows) - n /\ n + (m - (n - 1)) = m + 1 /\ ~(m <= n - 1)
          BY <1>1, <2>1, <4>2
        <5> QED
          BY <2>4, <3>3, <4>2, <5>1
      <4> QED
        BY <4>1, <4>2
    <3> QED
      BY <3>2, <3>4, LenProperties
  <2>6. PICK from : from = [m \in 1 .. Len(rows) - 1 |-> IF m < n THEN m ELSE m + 1]
    OBVIOUS
  <2>7. from \in [1 .. Len(rows) - 1 -> DOMAIN rows] /\ \A l, m \in 1 .. Len(rows) - 1 : from[l] = from[m] => l = m
    BY <1>1, <2>1, <2>6
  <2> QED
    BY <2>5, <2>6, <2>7, Rearranged
<1>5. ASSUME NEW n \in DOMAIN rows, rows' = [m \in DOMAIN rows |-> [rows[m] EXCEPT !.isDefault = m = n]]
      PROVE  rows' \in DraftLists /\ NewKeys(rows') \subseteq NewKeys(rows)
  <2>2. \A m \in DOMAIN rows : rows'[m] \in RowDraft /\ rows'[m].key = rows[m].key /\ rows'[m].id = rows[m].id /\ (rows'[m].isDefault => m = n)
    <3> TAKE m \in DOMAIN rows
    <3>1. rows'[m] = [rows[m] EXCEPT !.isDefault = m = n]
      BY <1>5
    <3>2. PICK mark \in BOOLEAN : mark = (m = n)
      OBVIOUS
    <3>3. rows'[m] = [rows[m] EXCEPT !.isDefault = mark]
      BY <3>1, <3>2, Zenon
    <3>4. rows[m] \in RowDraft
      BY <1>1
    <3>5. rows'[m] \in RowDraft /\ rows'[m].isDefault = mark /\ rows'[m].key = rows[m].key /\ rows'[m].id = rows[m].id
      <4>1. PICK marked : marked = [rows[m] EXCEPT !.isDefault = mark]
        OBVIOUS
      <4>2. /\ marked \in RowDraft /\ marked.isDefault = mark
            /\ marked.key = rows[m].key /\ marked.id = rows[m].id
        BY <3>4, <4>1, MarkedDraft
      <4> QED
        BY <3>3, <4>1, <4>2, Zenon
    <3>6. rows'[m].isDefault => m = n
      BY <3>2, <3>5, Zenon
    <3> QED
      BY <3>5, <3>6
  <2>3. DOMAIN rows' = 1 .. Len(rows) /\ rows' = [m \in 1 .. Len(rows) |-> rows'[m]]
    BY <1>1, <1>5
  <2>4. rows' \in Seq(RowDraft)
    BY <1>1, <2>2, <2>3, IsASeq
  <2> QED
    BY <1>1, <2>2, <2>3, <2>4 DEF DraftLists, OneDefault, NewKeys
<1> QED
  BY <1>2, <1>3, <1>4, <1>5 DEF Dictionary!Edit

LEMMA FoldedValues ==
  ASSUME DictionaryConstants, NEW v \in Typable
  PROVE  /\ Dictionary!Fold(v) \in Typable
         /\ Dictionary!Fold(v) # "" => Dictionary!Fold(v) \in {"a", "b"}
  BY DEF DictionaryConstants, Typable, Dictionary!Fold

\* A row as a body carries it.
Sending(draft, v, mark) == [draft EXCEPT !.value = v, !.isDefault = mark]

LEMMA SentDraft ==
  ASSUME NEW draft \in RowDraft, NEW v \in Typable, NEW mark \in BOOLEAN
  PROVE  /\ Sending(draft, v, mark) \in RowDraft
         /\ Sending(draft, v, mark).isDefault = mark /\ Sending(draft, v, mark).value = v
         /\ Sending(draft, v, mark).key = draft.key /\ Sending(draft, v, mark).id = draft.id
<1>1. Sending(draft, v, mark) = [key |-> draft.key, id |-> draft.id, value |-> v, isDefault |-> mark]
  <2>1. PICK sending : sending = [draft EXCEPT !.value = v, !.isDefault = mark]
    OBVIOUS
  <2>2. sending = [key |-> draft.key, id |-> draft.id, value |-> v, isDefault |-> mark]
    BY <2>1 DEF RowDraft
  <2> QED
    BY <2>1, <2>2, Zenon DEF Sending
<1>2. draft.key \in Nat /\ draft.id \in Nat \cup {None}
  BY DEF RowDraft
<1>3. [key |-> draft.key, id |-> draft.id, value |-> v, isDefault |-> mark] \in RowDraft
  BY <1>2 DEF RowDraft
<1> QED
  BY <1>1, <1>3

\* A body is the rows of the form, folded, and without a default where there is none.
LEMMA BodyRows ==
  ASSUME DictionaryConstants, rows \in DraftLists, NEW body, body = Dictionary!toUpdateBody(rows)
  PROVE  /\ body \in Seq(RowDraft) /\ DOMAIN body = DOMAIN rows /\ DOMAIN rows = 1 .. Len(rows) /\ Len(rows) \in Nat
         /\ \A n \in DOMAIN rows :
              /\ body[n].key = rows[n].key /\ body[n].id = rows[n].id
              /\ body[n].value = Dictionary!Fold(rows[n].value) /\ rows[n].value \in Typable
              /\ body[n].isDefault <=> dictionary = "namespaces" /\ rows[n].isDefault
<1>1. rows \in Seq(RowDraft) /\ DOMAIN rows = 1 .. Len(rows) /\ Len(rows) \in Nat /\ \A n \in 1 .. Len(rows) : rows[n] \in RowDraft
  BY LenProperties, ElementOfSeq DEF DraftLists
<1>2. DOMAIN body = DOMAIN rows /\ body = [n \in 1 .. Len(rows) |-> body[n]]
  BY <1>1 DEF Dictionary!toUpdateBody
<1>3. ASSUME NEW n \in DOMAIN rows
      PROVE  /\ body[n] \in RowDraft
             /\ body[n].key = rows[n].key /\ body[n].id = rows[n].id
             /\ body[n].value = Dictionary!Fold(rows[n].value) /\ rows[n].value \in Typable
             /\ body[n].isDefault <=> dictionary = "namespaces" /\ rows[n].isDefault
  <2>1. rows[n] \in RowDraft /\ rows[n].value \in Typable
    BY <1>1 DEF RowDraft
  <2>2. PICK v : v = Dictionary!Fold(rows[n].value)
    OBVIOUS
  <2>3. PICK mark \in BOOLEAN : mark = (dictionary = "namespaces" /\ rows[n].isDefault)
    OBVIOUS
  <2>4. body[n] = Sending(rows[n], v, mark)
    BY <2>2, <2>3, Zenon DEF Dictionary!toUpdateBody, Sending
  <2>5. v \in Typable /\ mark \in BOOLEAN
    BY <2>1, <2>2, <2>3, FoldedValues
  <2>6. /\ Sending(rows[n], v, mark) \in RowDraft
        /\ Sending(rows[n], v, mark).isDefault = mark /\ Sending(rows[n], v, mark).value = v
        /\ Sending(rows[n], v, mark).key = rows[n].key /\ Sending(rows[n], v, mark).id = rows[n].id
    BY <2>1, <2>5, SentDraft
  <2> QED
    BY <2>1, <2>2, <2>3, <2>4, <2>6, Zenon
<1>4. body \in Seq(RowDraft)
  BY <1>1, <1>2, <1>3, IsASeq
<1> QED
  BY <1>1, <1>2, <1>3, <1>4

LEMMA BodyIsWellFormed ==
  ASSUME DictionaryConstants, rows \in DraftLists, NEW body, body = Dictionary!toUpdateBody(rows),
         \A n \in DOMAIN rows : ~Dictionary!RowIssue(rows, n),
         ~Dictionary!missingDefault(rows)
  PROVE  body \in DraftLists /\ NewKeys(body) = NewKeys(rows) /\ Dictionary!WellFormed(body)
<1>1. /\ body \in Seq(RowDraft) /\ DOMAIN body = DOMAIN rows /\ DOMAIN rows = 1 .. Len(rows) /\ Len(rows) \in Nat
      /\ \A n \in DOMAIN rows :
           /\ body[n].key = rows[n].key /\ body[n].id = rows[n].id
           /\ body[n].value = Dictionary!Fold(rows[n].value) /\ rows[n].value \in Typable
           /\ body[n].isDefault <=> dictionary = "namespaces" /\ rows[n].isDefault
  BY BodyRows
<1>2. NewKeys(body) = NewKeys(rows)
  BY <1>1 DEF NewKeys
<1>3. OneDefault(body)
  BY <1>1, Zenon DEF OneDefault, DraftLists
<1>4. \A n \in DOMAIN body : body[n].value \in {"a", "b"}
  BY <1>1, FoldedValues, Zenon DEF Dictionary!RowIssue
<1>5. \A n \in DOMAIN body : \A m \in 1 .. n - 1 : body[n].value # body[m].value
  <2>1. \A n \in DOMAIN body : \A m \in 1 .. n - 1 : m \in DOMAIN body
    BY <1>1
  <2> QED
    <3> SUFFICES ASSUME NEW n \in DOMAIN body, NEW m \in 1 .. n - 1 PROVE body[n].value # body[m].value
      OBVIOUS
    <3>1. n \in DOMAIN rows /\ m \in DOMAIN rows
      BY <1>1, <2>1
    <3>2. Dictionary!Fold(rows[m].value) # Dictionary!Fold(rows[n].value)
      BY <3>1, Zenon DEF Dictionary!RowIssue
    <3>3. body[n].value = Dictionary!Fold(rows[n].value) /\ body[m].value = Dictionary!Fold(rows[m].value)
      BY <1>1, <3>1, Zenon
    <3> QED
      BY <3>2, <3>3, Zenon
<1>6. \A n, m \in DOMAIN body : n # m => body[n].value # body[m].value
  <2>1. \A n, m \in DOMAIN body : n # m => m \in 1 .. n - 1 \/ n \in 1 .. m - 1
    BY <1>1
  <2> QED
    BY <1>5, <2>1, Zenon
<1>7. PICK defaults : defaults = {n \in DOMAIN body : body[n].isDefault}
  OBVIOUS
<1>8. Cardinality(defaults) = IF dictionary = "namespaces" /\ body # <<>> THEN 1 ELSE 0
  <2>1. CASE dictionary = "namespaces" /\ body # <<>>
    <3>1. DOMAIN body # {} /\ rows # <<>>
      BY <1>1, <2>1, LenProperties
    <3>2. PICK n \in DOMAIN rows : rows[n].isDefault
      BY <2>1, <3>1, Zenon DEF Dictionary!missingDefault
    <3>3. defaults = {n}
      BY <1>1, <1>3, <1>7, <2>1, <3>2 DEF OneDefault
    <3> QED
      BY <2>1, <3>3, FS_Singleton
  <2>2. CASE ~(dictionary = "namespaces" /\ body # <<>>)
    <3>1. defaults = {}
      BY <1>1, <1>7, <2>2, LenProperties
    <3> QED
      BY <2>2, <3>1, FS_EmptySet
  <2> QED
    BY <2>1, <2>2
<1>9. Dictionary!WellFormed(body)
  BY <1>4, <1>6, <1>7, <1>8, DictionaryCount, Zenon DEF Dictionary!WellFormed
<1> QED
  BY <1>1, <1>2, <1>3, <1>9 DEF DraftLists

\* What is stored of a body is a list of entries, with the identifiers of new ones minted.
LEMMA StoredEntries ==
  ASSUME NEW body \in DraftLists, minted \in Nat
  PROVE  /\ Dictionary!Replaced(body) \in EntryLists
         /\ minted + Dictionary!Cardinality(Dictionary!NewRows(body)) \in Nat
<1>1. body \in Seq(RowDraft) /\ DOMAIN body = 1 .. Len(body) /\ Len(body) \in Nat /\ \A n \in 1 .. Len(body) : body[n] \in RowDraft
  BY LenProperties, ElementOfSeq DEF DraftLists
<1>2. \A n \in Nat : \A S : S \subseteq 1 .. n => Cardinality(S) \in Nat
  <2> SUFFICES ASSUME NEW n \in Nat, NEW S, S \subseteq 1 .. n PROVE Cardinality(S) \in Nat
    OBVIOUS
  <2>1. IsFiniteSet(1 .. n)
    BY FS_Interval
  <2>2. IsFiniteSet(S)
    BY <2>1, FS_Subset
  <2> QED
    BY <2>2, FS_CardinalityType
<1>3. minted + Dictionary!Cardinality(Dictionary!NewRows(body)) \in Nat
  <2>1. Dictionary!NewRows(body) \subseteq 1 .. Len(body)
    BY <1>1 DEF Dictionary!NewRows
  <2>2. Cardinality(Dictionary!NewRows(body)) \in Nat
    BY <1>1, <1>2, <2>1
  <2> QED
    BY <2>2, DictionaryCount
<1>4. PICK list : list = Dictionary!Replaced(body)
  OBVIOUS
<1>5. DOMAIN list = 1 .. Len(body) /\ list = [n \in 1 .. Len(body) |-> list[n]]
  BY <1>1, <1>4 DEF Dictionary!Replaced
<1>6. ASSUME NEW n \in 1 .. Len(body)
      PROVE  list[n] \in Entry /\ list[n].isDefault = body[n].isDefault
  <2>1. PICK fresh : fresh = minted + Dictionary!Cardinality({m \in 1 .. n : body[m].id = None})
    OBVIOUS
  <2>2. fresh \in Nat
    <3>1. Cardinality({m \in 1 .. n : body[m].id = None}) \in Nat
      <4>1. n \in Nat /\ {m \in 1 .. n : body[m].id = None} \subseteq 1 .. n
        BY <1>1
      <4> QED
        BY <1>2, <4>1
    <3> QED
      BY <2>1, <3>1, DictionaryCount
  <2>3. list[n] = [id |-> IF body[n].id # None THEN body[n].id ELSE fresh, value |-> body[n].value, isDefault |-> body[n].isDefault]
    BY <1>1, <1>4, <2>1, Zenon DEF Dictionary!Replaced
  <2>4. body[n].id \in Nat \cup {None} /\ body[n].value \in Typable /\ body[n].isDefault \in BOOLEAN
    BY <1>1 DEF RowDraft
  <2> QED
    BY <2>2, <2>3, <2>4 DEF Entry
<1>7. list \in Seq(Entry)
  BY <1>1, <1>5, <1>6, IsASeq
<1>8. OneDefault(list)
  BY <1>1, <1>5, <1>6, Zenon DEF OneDefault, DraftLists
<1> QED
  BY <1>3, <1>4, <1>7, <1>8 DEF EntryLists

\* A save that is under way stays one as long as what is stored, and the form, keep clear of it.
LEMMA PutKept ==
  ASSUME NEW r, PutInv(r), dictionary' = dictionary, added \in Nat, added' \in Nat, added <= added',
         r.at = "sent" => NewKeys(r.body) \cap inserted' = {},
         ~r.mine => NewKeys(r.body) \cap NewKeys(rows') = {}
  PROVE  PutInv(r)'
<1>1. Dictionary!WellFormed(r.body)'
  BY Zenon DEF PutInv, Dictionary!WellFormed
<1>2. NewKeys(r.body) \subseteq 1 .. added'
  BY DEF PutInv
<1>3. /\ r = [body |-> r.body, at |-> r.at, mine |-> r.mine] /\ r.mine \in BOOLEAN
      /\ r.body \in DraftLists
  BY DEF PutInv
<1> QED
  BY <1>1, <1>2, <1>3, Zenon DEF PutInv, NewKeys

\* A form that only loses new rows stays clear of the saves of other forms, and one that is
\* seeded shows none.
LEMMA FormChanges ==
  ASSUME DictionaryInv, rows' \in DraftLists, base' \in DraftLists, NewKeys(base') = {}, cached' \in EntryLists,
         entries' \in EntryLists, minted' \in Nat, frozen' \in BOOLEAN,
         UNCHANGED <<dictionary, puts, inserted, added>>,
         NewKeys(rows') \subseteq NewKeys(rows), frozen /\ NewKeys(rows') # {} => frozen'
  PROVE  DictionaryInv'
<1>1. ASSUME NEW r \in puts' PROVE PutInv(r)'
  <2>1. PutInv(r) /\ added \in Nat /\ added <= added'
    BY <1>1 DEF DictionaryInv
  <2>2. r.at = "sent" => NewKeys(r.body) \cap inserted' = {}
    BY <2>1, Zenon DEF PutInv
  <2>3. ~r.mine => NewKeys(r.body) \cap NewKeys(rows') = {}
    BY <2>1 DEF PutInv
  <2> QED
    BY <2>1, <2>2, <2>3, PutKept
<1>2. FormAwaits'
  BY Zenon DEF DictionaryInv, FormAwaits, NewKeys
<1> QED
  BY <1>1, <1>2, Zenon DEF DictionaryInv, NewKeys

\* Leaving a form disowns what it sent.
LEMMA FormLeft ==
  ASSUME DictionaryInv, rows' = <<>>, base' = <<>>, frozen' = FALSE, puts' = Dictionary!Disowned,
         UNCHANGED <<dictionary, entries, minted, cached, inserted, added>>
  PROVE  DictionaryInv'
<1>1. \A r \in puts' : \E s \in puts : r = [s EXCEPT !.mine = FALSE]
  BY DEF Dictionary!Disowned
<1>2. ASSUME NEW r \in puts', NEW s \in puts, r = [s EXCEPT !.mine = FALSE]
      PROVE  PutInv(r)' /\ r.body = s.body /\ ~r.mine
  <2>1. PutInv(s) /\ added \in Nat /\ added <= added'
    BY <1>2 DEF DictionaryInv
  <2>2. s = [body |-> s.body, at |-> s.at, mine |-> s.mine]
    BY <2>1, Zenon DEF PutInv
  <2>3. r = [body |-> s.body, at |-> s.at, mine |-> FALSE]
    BY <1>2, <2>2
  <2>4. r.body = s.body /\ r.at = s.at /\ r.mine = FALSE /\ r = [body |-> r.body, at |-> r.at, mine |-> r.mine]
    BY <2>3
  <2>5. NewKeys(r.body) \cap NewKeys(rows') = {}
    BY EmptyForm
  <2>6. PutInv(s)'
    <3>1. s.at = "sent" => NewKeys(s.body) \cap inserted' = {}
      BY <2>1, Zenon DEF PutInv
    <3>2. ~s.mine => NewKeys(s.body) \cap NewKeys(rows') = {}
      BY EmptyForm
    <3> QED
      BY <2>1, <3>1, <3>2, PutKept
  <2>7. PutInv(r)'
    BY <2>4, <2>5, <2>6, Zenon DEF PutInv, NewKeys
  <2> QED
    BY <2>4, <2>7
<1>3. ASSUME NEW r \in puts', NEW t \in puts', r # t
      PROVE  NewKeys(r.body) \cap NewKeys(t.body) = {} /\ ~(r.mine /\ t.mine)
  <2>1. PICK s \in puts, u \in puts : r = [s EXCEPT !.mine = FALSE] /\ t = [u EXCEPT !.mine = FALSE]
    BY <1>1, <1>3
  <2>2. s # u /\ r.body = s.body /\ t.body = u.body /\ ~r.mine
    BY <1>2, <1>3, <2>1
  <2> QED
    BY <2>2, Zenon DEF DictionaryInv
<1>4. NewKeys(rows') = {} /\ rows' \in DraftLists /\ base' \in DraftLists /\ NewKeys(base') = {}
  BY EmptyForm
<1>5. FormAwaits'
  BY <1>4 DEF FormAwaits, NewKeys
<1>6. \A r \in puts' : PutInv(r)'
  BY <1>1, <1>2, Zenon
<1> QED
  BY <1>3, <1>4, <1>5, <1>6, Zenon DEF DictionaryInv, NewKeys

LEMMA RowIsAdded ==
  ASSUME DictionaryConstants, DictionaryInv, Dictionary!AddRow
  PROVE  DictionaryInv'
<1>1. PICK draft : draft = [key |-> added + 1, id |-> None, value |-> "", isDefault |-> FALSE]
  OBVIOUS
<1>2. rows' = Append(rows, draft) /\ added' = added + 1 /\ added \in Nat /\ added' \in Nat
  <2>1. added \in Nat
    BY DEF DictionaryInv
  <2>2. added' = added + 1
    BY Zenon DEF Dictionary!AddRow
  <2>3. rows' = Append(rows, draft)
    BY <1>1, <2>2, Zenon DEF Dictionary!AddRow, Dictionary!emptyEntryDraft
  <2> QED
    BY <2>1, <2>2, <2>3
<1>3. draft \in RowDraft /\ draft.key = added + 1 /\ draft.isDefault = FALSE
  <2>1. "" \in Typable
    BY DEF Typable
  <2> QED
    BY <1>1, <1>2, <2>1 DEF RowDraft
<1>4. rows \in Seq(RowDraft) /\ DOMAIN rows = 1 .. Len(rows) /\ Len(rows) \in Nat
  BY LenProperties DEF DraftLists, DictionaryInv
<1>5. /\ rows' \in Seq(RowDraft) /\ DOMAIN rows' = 1 .. Len(rows) + 1
      /\ rows'[Len(rows) + 1] = draft /\ \A n \in 1 .. Len(rows) : rows'[n] = rows[n]
  BY <1>2, <1>3, <1>4, AppendProperties, LenProperties
<1>6. rows' \in DraftLists
  BY <1>3, <1>4, <1>5 DEF DraftLists, OneDefault, DictionaryInv
<1>7. NewKeys(rows') \subseteq NewKeys(rows) \cup {added + 1}
  BY <1>3, <1>4, <1>5 DEF NewKeys
<1>8. added + 1 \notin inserted /\ NewKeys(rows') \subseteq 1 .. added' /\ inserted \subseteq 1 .. added'
  BY <1>2, <1>7 DEF DictionaryInv
<1>9. ASSUME NEW r \in puts' PROVE PutInv(r)'
  <2>1. PutInv(r) /\ added <= added' /\ dictionary' = dictionary /\ inserted' = inserted
    BY <1>2, <1>9 DEF DictionaryInv, Dictionary!AddRow
  <2>2. r.at = "sent" => NewKeys(r.body) \cap inserted' = {}
    BY <2>1, Zenon DEF PutInv
  <2>3. ~r.mine => NewKeys(r.body) \cap NewKeys(rows') = {}
    BY <1>2, <1>7, <2>1 DEF PutInv
  <2> QED
    BY <1>2, <2>1, <2>2, <2>3, PutKept
<1>10. FormAwaits'
  BY <1>7, <1>8 DEF DictionaryInv, FormAwaits, NewKeys, Dictionary!AddRow
<1> QED
  BY <1>2, <1>6, <1>8, <1>9, <1>10, Zenon DEF DictionaryInv, NewKeys, Dictionary!AddRow

LEMMA FormIsSent ==
  ASSUME DictionaryConstants, DictionaryInv, Dictionary!Submit
  PROVE  DictionaryInv'
<1>1. PICK body : body = Dictionary!toUpdateBody(rows)
  OBVIOUS
<1>2. PICK r : r = [body |-> body, at |-> "sent", mine |-> TRUE]
  OBVIOUS
<1>3. puts' = puts \cup {r}
  BY <1>1, <1>2, Zenon DEF Dictionary!Submit
<1>4. body \in DraftLists /\ NewKeys(body) = NewKeys(rows) /\ Dictionary!WellFormed(body)
  <2>1. rows \in DraftLists /\ (\A n \in DOMAIN rows : ~Dictionary!RowIssue(rows, n)) /\ ~Dictionary!missingDefault(rows)
    BY Zenon DEF DictionaryInv, Dictionary!Submit
  <2> QED
    BY <1>1, <2>1, BodyIsWellFormed
<1>5. UNCHANGED <<dictionary, entries, minted, cached, rows, base, frozen, inserted, added>> /\ ~frozen
  BY Zenon DEF Dictionary!Submit, Dictionary!Sendable
<1>6. \A t \in puts : ~t.mine
  BY Zenon DEF Dictionary!Submit, Dictionary!Sendable, Dictionary!submitting
<1>7. NewKeys(rows) \cap inserted = {} /\ NewKeys(rows) \subseteq 1 .. added
  BY <1>5, <1>6, Zenon DEF DictionaryInv, FormAwaits
<1>8. ASSUME NEW t \in puts PROVE PutInv(t) /\ PutInv(t)' /\ NewKeys(t.body) \cap NewKeys(rows) = {}
  <2>1. PutInv(t) /\ added \in Nat /\ added' \in Nat /\ added <= added'
    BY <1>5 DEF DictionaryInv
  <2>2. t.at = "sent" => NewKeys(t.body) \cap inserted' = {}
    BY <1>5, <2>1, Zenon DEF PutInv
  <2>3. NewKeys(t.body) \cap NewKeys(rows) = {}
    BY <1>6, <2>1, Zenon DEF PutInv
  <2>4. ~t.mine => NewKeys(t.body) \cap NewKeys(rows') = {}
    BY <1>5, <2>3, Zenon
  <2> QED
    BY <1>5, <2>1, <2>2, <2>3, <2>4, PutKept
<1>9. r.body = body /\ r.mine = TRUE /\ r.at = "sent" /\ r = [body |-> r.body, at |-> r.at, mine |-> r.mine]
  BY <1>2
<1>10. PutInv(r)'
  <2>1. Dictionary!WellFormed(body)'
    BY <1>4, <1>5, Zenon DEF Dictionary!WellFormed
  <2>2. r.mine \in BOOLEAN
    BY <1>9
  <2> QED
    BY <1>4, <1>5, <1>7, <1>9, <2>1, <2>2, Zenon DEF PutInv, NewKeys
<1>11. \A t \in puts' : PutInv(t)'
  BY <1>3, <1>8, <1>10
<1>12. \A s, t \in puts' : s # t => NewKeys(s.body) \cap NewKeys(t.body) = {} /\ ~(s.mine /\ t.mine)
  BY <1>3, <1>4, <1>6, <1>8, <1>9, Zenon DEF DictionaryInv
<1>13. FormAwaits'
  BY <1>5, <1>7, Zenon DEF FormAwaits, NewKeys
<1> QED
  BY <1>5, <1>11, <1>12, <1>13, Zenon DEF DictionaryInv, NewKeys

\* A save leaves those that are under way: with it go its rows, to what is stored or nowhere.
LEMMA PutsLeft ==
  ASSUME DictionaryInv, puts' \subseteq puts, rows' \in DraftLists, base' \in DraftLists, NewKeys(base') = {},
         NewKeys(rows') \subseteq NewKeys(rows), cached' \in EntryLists, entries' \in EntryLists, minted' \in Nat,
         frozen' \in BOOLEAN, UNCHANGED <<dictionary, inserted, added>>, FormAwaits'
  PROVE  DictionaryInv'
<1>1. ASSUME NEW r \in puts' PROVE PutInv(r)'
  <2>1. PutInv(r) /\ added \in Nat /\ added <= added'
    BY <1>1 DEF DictionaryInv
  <2>2. r.at = "sent" => NewKeys(r.body) \cap inserted' = {}
    BY <2>1, Zenon DEF PutInv
  <2>3. ~r.mine => NewKeys(r.body) \cap NewKeys(rows') = {}
    BY <2>1 DEF PutInv
  <2> QED
    BY <2>1, <2>2, <2>3, PutKept
<1>2. \A s, t \in puts' : s # t => NewKeys(s.body) \cap NewKeys(t.body) = {} /\ ~(s.mine /\ t.mine)
  BY Zenon DEF DictionaryInv
<1> QED
  BY <1>1, <1>2, Zenon DEF DictionaryInv, NewKeys

LEMMA PutIsAnswered ==
  ASSUME DictionaryInv, NEW r \in puts, Dictionary!Answered(r)
  PROVE  DictionaryInv'
<1>1. r.at = "sent" /\ UNCHANGED <<dictionary, cached, rows, base, frozen, added>>
  BY Zenon DEF Dictionary!Answered
<1>2. PutInv(r) /\ r.body \in DraftLists /\ NewKeys(r.body) \cap inserted = {} /\ NewKeys(r.body) \subseteq 1 .. added
  BY <1>1, Zenon DEF DictionaryInv, PutInv
<1>3. entries' \in EntryLists /\ minted' \in Nat
  BY <1>2, StoredEntries, Zenon DEF Dictionary!Answered, Dictionary!Store, DictionaryInv
<1>4. CASE puts' = puts \ {r} /\ UNCHANGED inserted
  <2>1. \A s \in puts : s.at = "stored" => s # r
    BY <1>1
  <2>2. FormAwaits'
    BY <1>1, <1>4, <2>1 DEF DictionaryInv, FormAwaits, NewKeys
  <2>3. puts' \subseteq puts /\ rows' \in DraftLists /\ NewKeys(rows') \subseteq NewKeys(rows) /\ base' \in DraftLists
        /\ NewKeys(base') = {} /\ cached' \in EntryLists /\ frozen' \in BOOLEAN
    BY <1>1, <1>4 DEF DictionaryInv
  <2> QED
    BY <1>1, <1>3, <1>4, <2>2, <2>3, PutsLeft
<1>5. CASE /\ inserted' = inserted \cup {r.body[n].key : n \in Dictionary!NewRows(r.body)}
           /\ puts' = (puts \ {r}) \cup {[r EXCEPT !.at = "stored"]}
  <2>1. inserted' = inserted \cup NewKeys(r.body)
    BY <1>5 DEF NewKeys, Dictionary!NewRows
  <2>2. PICK u : u = [r EXCEPT !.at = "stored"]
    OBVIOUS
  <2>3. r = [body |-> r.body, at |-> r.at, mine |-> r.mine]
    BY <1>2, Zenon DEF PutInv
  <2>4. u = [body |-> r.body, at |-> "stored", mine |-> r.mine]
    BY <2>2, <2>3
  <2>5. u.body = r.body /\ u.at = "stored" /\ u.mine = r.mine /\ u = [body |-> u.body, at |-> u.at, mine |-> u.mine]
    BY <2>4
  <2>6. ASSUME NEW s \in puts, s # r PROVE PutInv(s)' /\ NewKeys(s.body) \cap NewKeys(u.body) = {} /\ ~(s.mine /\ u.mine)
    <3>1. PutInv(s) /\ added \in Nat /\ added' \in Nat /\ added <= added'
      BY <1>1 DEF DictionaryInv
    <3>2. NewKeys(s.body) \cap NewKeys(r.body) = {} /\ ~(s.mine /\ r.mine)
      BY <2>6, Zenon DEF DictionaryInv
    <3>3. s.at = "sent" => NewKeys(s.body) \cap inserted = {}
      BY <3>1, Zenon DEF PutInv
    <3>4. s.at = "sent" => NewKeys(s.body) \cap inserted' = {}
      BY <2>1, <3>2, <3>3
    <3>5. ~s.mine => NewKeys(s.body) \cap NewKeys(rows') = {}
      BY <1>1, <3>1, Zenon DEF PutInv
    <3> QED
      BY <1>1, <2>5, <3>1, <3>2, <3>4, <3>5, PutKept, Zenon
  <2>7. PutInv(u)'
    <3>1. Dictionary!WellFormed(u.body)'
      BY <1>1, <1>2, <2>5, Zenon DEF PutInv, Dictionary!WellFormed
    <3>2. u.mine \in BOOLEAN /\ (~u.mine => NewKeys(u.body) \cap NewKeys(rows') = {})
      BY <1>1, <1>2, <2>5, Zenon DEF PutInv
    <3>3. u.at # "sent"
      BY <2>5
    <3> QED
      BY <1>1, <1>2, <2>5, <3>1, <3>2, <3>3, Zenon DEF PutInv, NewKeys
  <2>8. puts' = (puts \ {r}) \cup {u}
    BY <1>5, <2>2, Zenon
  <2>9. \A s \in puts' : PutInv(s)'
    BY <2>6, <2>7, <2>8
  <2>10. \A s, t \in puts' : s # t => NewKeys(s.body) \cap NewKeys(t.body) = {} /\ ~(s.mine /\ t.mine)
    <3>1. \A s, t \in puts \ {r} : s # t => NewKeys(s.body) \cap NewKeys(t.body) = {} /\ ~(s.mine /\ t.mine)
      BY Zenon DEF DictionaryInv
    <3>2. \A s \in puts \ {r} : NewKeys(s.body) \cap NewKeys(u.body) = {} /\ ~(s.mine /\ u.mine)
      BY <2>6
    <3>3. \A s \in puts \ {r} : NewKeys(u.body) \cap NewKeys(s.body) = {}
      BY <3>2
    <3> QED
      BY <2>8, <3>1, <3>2, <3>3, Zenon
  <2>11. FormAwaits'
    <3>1. CASE r.mine
      BY <2>5, <2>8, <3>1, Zenon DEF FormAwaits, NewKeys
    <3>2. CASE ~r.mine
      <4>1. NewKeys(r.body) \cap NewKeys(rows) = {}
        BY <1>2, <3>2, Zenon DEF PutInv
      <4>2. NewKeys(rows) \cap inserted' = NewKeys(rows) \cap inserted
        BY <2>1, <4>1
      <4>3. \A s \in puts : s.mine => s \in puts'
        BY <2>8, <3>2
      <4> QED
        BY <1>1, <4>2, <4>3, Zenon DEF DictionaryInv, FormAwaits, NewKeys
    <3> QED
      BY <3>1, <3>2
  <2>12. inserted' \subseteq 1 .. added'
    BY <1>1, <1>2, <2>1 DEF DictionaryInv
  <2> QED
    BY <1>1, <1>3, <2>9, <2>10, <2>11, <2>12, Zenon DEF DictionaryInv, NewKeys
<1>6. \/ puts' = puts \ {r} /\ UNCHANGED inserted
      \/ /\ inserted' = inserted \cup {r.body[n].key : n \in Dictionary!NewRows(r.body)}
         /\ puts' = (puts \ {r}) \cup {[r EXCEPT !.at = "stored"]}
      \/ UNCHANGED inserted /\ puts' = (puts \ {r}) \cup {}
  BY Zenon DEF Dictionary!Answered, Dictionary!Store
<1> QED
  BY <1>4, <1>5, <1>6

LEMMA FormIsReseeded ==
  ASSUME DictionaryConstants, DictionaryInv, NEW r \in puts, Dictionary!Reseeded(r)
  PROVE  DictionaryInv'
<1>1. puts' = puts \ {r} /\ UNCHANGED <<dictionary, entries, minted, inserted, added>>
  BY Zenon DEF Dictionary!Reseeded
<1>2. PICK seed : seed = Dictionary!toFormValues(entries)
  OBVIOUS
<1>3. seed \in DraftLists /\ NewKeys(seed) = {}
  BY <1>2, SeededForm DEF DictionaryInv
<1>4. entries' \in EntryLists /\ minted' \in Nat /\ puts' \subseteq puts
  BY <1>1 DEF DictionaryInv
<1>5. CASE cached' = entries /\ rows' = seed /\ base' = seed /\ UNCHANGED frozen
  <2>1. FormAwaits'
    BY <1>3, <1>5 DEF FormAwaits, NewKeys
  <2>2. cached' \in EntryLists /\ frozen' \in BOOLEAN
    BY <1>5 DEF DictionaryInv
  <2> QED
    BY <1>1, <1>3, <1>4, <1>5, <2>1, <2>2, PutsLeft, Zenon
<1>6. CASE cached' \in {cached, entries} /\ UNCHANGED <<rows, base>> /\ frozen' = (frozen \/ r.mine)
  <2>1. frozen' \in BOOLEAN /\ cached' \in EntryLists
    <3>1. frozen \in BOOLEAN /\ r.mine \in BOOLEAN
      BY DEF DictionaryInv, PutInv
    <3> QED
      BY <1>6, <3>1 DEF DictionaryInv
  <2>2. NewKeys(rows') \cap inserted' # {} => NewKeys(rows) \cap inserted # {}
    BY <1>1, <1>6, Zenon DEF NewKeys
  <2>3. \A s \in puts : s.mine /\ ~r.mine => s \in puts'
    BY <1>1
  <2>4. FormAwaits'
    BY <1>6, <2>2, <2>3, Zenon DEF DictionaryInv, FormAwaits, NewKeys
  <2>5. rows' \in DraftLists /\ base' \in DraftLists /\ NewKeys(base') = {} /\ NewKeys(rows') \subseteq NewKeys(rows)
    BY <1>6 DEF DictionaryInv
  <2> QED
    BY <1>1, <1>4, <2>1, <2>4, <2>5, PutsLeft, Zenon
<1>7. \/ cached' = entries /\ rows' = seed /\ base' = seed /\ UNCHANGED frozen
      \/ cached' \in {cached, entries} /\ UNCHANGED <<rows, base>> /\ frozen' = (frozen \/ r.mine)
  <2>1. CASE frozen' = (frozen \/ r.mine) /\ UNCHANGED <<cached, rows, base>>
    BY <2>1
  <2>2. CASE cached' = entries /\ r.mine /\ Dictionary!Seeded(entries) /\ UNCHANGED frozen
    BY <1>2, <2>2, Zenon DEF Dictionary!Seeded
  <2>3. CASE cached' = entries /\ ~r.mine /\ UNCHANGED <<rows, base, frozen>>
    <3>1. frozen' = (frozen \/ r.mine)
      BY <2>3 DEF DictionaryInv
    <3> QED
      BY <2>3, <3>1
  <2> QED
    BY <2>1, <2>2, <2>3, Zenon DEF Dictionary!Reseeded
<1> QED
  BY <1>5, <1>6, <1>7

LEMMA DictionaryStarts ==
  ASSUME DictionaryConstants, Dictionary!DictionaryInit
  PROVE  DictionaryInv
<1>1. entries \in EntryLists
  <2>1. CASE entries = <<>>
    BY <2>1 DEF EntryLists, OneDefault
  <2>2. CASE entries = <<[id |-> 1, value |-> "a", isDefault |-> dictionary = "namespaces"]>>
    <3>1. PICK mark \in BOOLEAN : mark = (dictionary = "namespaces")
      OBVIOUS
    <3>2. PICK entry : entry = [id |-> 1, value |-> "a", isDefault |-> mark]
      OBVIOUS
    <3>3. entries = <<entry>>
      BY <2>2, <3>1, <3>2, Zenon
    <3>4. entry \in Entry
      BY <3>1, <3>2 DEF Entry, Typable
    <3> QED
      BY <3>3, <3>4 DEF EntryLists, OneDefault
  <2> QED
    BY <2>1, <2>2, Zenon DEF Dictionary!DictionaryInit
<1>2. minted \in Nat
  BY <1>1, LenProperties DEF Dictionary!DictionaryInit, EntryLists
<1>3. /\ cached = entries /\ rows = <<>> /\ base = <<>> /\ puts = {} /\ frozen = FALSE
      /\ inserted = {} /\ added = 0
  BY Zenon DEF Dictionary!DictionaryInit
<1>4. NewKeys(rows) = {} /\ rows \in DraftLists /\ NewKeys(base) = {} /\ base \in DraftLists
  BY <1>3, EmptyForm
<1>5. FormAwaits
  BY <1>4 DEF FormAwaits
<1> QED
  BY <1>1, <1>2, <1>3, <1>4, <1>5 DEF DictionaryInv

\* The steps that only seed or change the form.
LEMMA FormSteps ==
  ASSUME DictionaryConstants, DictionaryInv,
         \/ Dictionary!Open \/ Dictionary!Reread \/ Dictionary!Edit
         \/ Dictionary!discard \/ Dictionary!Reload \/ Dictionary!WrittenElsewhere
  PROVE  DictionaryInv'
<1>1. PICK seed, old : seed = Dictionary!toFormValues(entries) /\ old = Dictionary!toFormValues(cached)
  OBVIOUS
<1>2. seed \in DraftLists /\ NewKeys(seed) = {} /\ old \in DraftLists /\ NewKeys(old) = {}
  BY <1>1, SeededForm DEF DictionaryInv
<1>3. CASE Dictionary!Open
  <2>1. /\ rows' = old /\ base' = old /\ frozen' = FALSE
        /\ UNCHANGED <<dictionary, entries, minted, cached, puts, inserted, added>>
    BY <1>1, <1>3, Zenon DEF Dictionary!Open, Dictionary!Seeded
  <2>2. /\ cached' \in EntryLists /\ entries' \in EntryLists /\ minted' \in Nat /\ frozen' \in BOOLEAN
        /\ rows' \in DraftLists /\ base' \in DraftLists /\ NewKeys(base') = {}
        /\ NewKeys(rows') = {} /\ NewKeys(rows') \subseteq NewKeys(rows)
    BY <1>2, <2>1 DEF DictionaryInv
  <2> QED
    BY <2>1, <2>2, FormChanges
<1>4. CASE Dictionary!Reread
  <2>1. /\ cached' = entries /\ UNCHANGED <<dictionary, entries, minted, puts, frozen, inserted, added>>
        /\ \/ rows' = seed /\ base' = seed
           \/ rows' = rows /\ base' = base
    BY <1>1, <1>4, Zenon DEF Dictionary!Reread, Dictionary!Seeded
  <2>2. /\ cached' \in EntryLists /\ entries' \in EntryLists /\ minted' \in Nat /\ frozen' \in BOOLEAN
        /\ rows' \in DraftLists /\ base' \in DraftLists /\ NewKeys(base') = {}
        /\ NewKeys(rows') \subseteq NewKeys(rows)
    BY <1>2, <2>1 DEF DictionaryInv
  <2> QED
    BY <2>1, <2>2, FormChanges
<1>5. CASE Dictionary!Edit
  <2>1. UNCHANGED <<dictionary, entries, minted, cached, base, puts, frozen, inserted, added>>
    BY <1>5, Zenon DEF Dictionary!Edit
  <2>2. rows' \in DraftLists /\ NewKeys(rows') \subseteq NewKeys(rows)
    BY <1>5, EditRearranges DEF DictionaryInv
  <2>3. /\ cached' \in EntryLists /\ entries' \in EntryLists /\ minted' \in Nat /\ frozen' \in BOOLEAN
        /\ base' \in DraftLists /\ NewKeys(base') = {}
    BY <2>1 DEF DictionaryInv
  <2> QED
    BY <2>1, <2>2, <2>3, FormChanges
<1>6. CASE Dictionary!discard
  <2>1. /\ rows' = base
        /\ UNCHANGED <<dictionary, entries, minted, cached, base, puts, frozen, inserted, added>>
    BY <1>6, Zenon DEF Dictionary!discard
  <2>2. /\ cached' \in EntryLists /\ entries' \in EntryLists /\ minted' \in Nat /\ frozen' \in BOOLEAN
        /\ rows' \in DraftLists /\ base' \in DraftLists /\ NewKeys(base') = {}
        /\ NewKeys(rows') \subseteq NewKeys(rows)
    BY <2>1 DEF DictionaryInv
  <2> QED
    BY <2>1, <2>2, FormChanges
<1>7. CASE Dictionary!Reload
  <2>1. /\ cached' = entries /\ rows' = seed /\ base' = seed /\ frozen' = FALSE
        /\ UNCHANGED <<dictionary, entries, minted, puts, inserted, added>>
    BY <1>1, <1>7, Zenon DEF Dictionary!Reload, Dictionary!Seeded
  <2>2. /\ cached' \in EntryLists /\ entries' \in EntryLists /\ minted' \in Nat /\ frozen' \in BOOLEAN
        /\ rows' \in DraftLists /\ base' \in DraftLists /\ NewKeys(base') = {}
        /\ NewKeys(rows') = {} /\ NewKeys(rows') \subseteq NewKeys(rows)
    BY <1>2, <2>1 DEF DictionaryInv
  <2> QED
    BY <2>1, <2>2, FormChanges
<1>8. CASE Dictionary!WrittenElsewhere
  <2>1. UNCHANGED <<dictionary, cached, rows, base, puts, frozen, inserted, added>>
    BY <1>8, Zenon DEF Dictionary!WrittenElsewhere
  <2>2. minted \in Nat
    BY DEF DictionaryInv
  <2>3. ASSUME entries' = <<>>, minted' = minted
        PROVE  entries' \in EntryLists /\ minted' \in Nat
    BY <2>2, <2>3 DEF EntryLists, OneDefault
  <2>4. ASSUME minted' = minted + 1, entries' = <<[id |-> minted', value |-> "a", isDefault |-> dictionary = "namespaces"]>>
        PROVE  entries' \in EntryLists /\ minted' \in Nat
    <3>1. PICK mark \in BOOLEAN : mark = (dictionary = "namespaces")
      OBVIOUS
    <3>2. PICK entry : entry = [id |-> minted', value |-> "a", isDefault |-> mark]
      OBVIOUS
    <3>3. entries' = <<entry>>
      BY <2>4, <3>1, <3>2, Zenon
    <3>4. minted' \in Nat
      BY <2>2, <2>4
    <3>5. entry \in Entry
      BY <3>1, <3>2, <3>4 DEF Entry, Typable
    <3> QED
      BY <3>3, <3>4, <3>5 DEF EntryLists, OneDefault
  <2>5. entries' \in EntryLists /\ minted' \in Nat
    BY <1>8, <2>3, <2>4, Zenon DEF Dictionary!WrittenElsewhere
  <2>6. /\ cached' \in EntryLists /\ frozen' \in BOOLEAN
        /\ rows' \in DraftLists /\ base' \in DraftLists /\ NewKeys(base') = {}
        /\ NewKeys(rows') \subseteq NewKeys(rows)
    BY <2>1 DEF DictionaryInv
  <2> QED
    BY <2>1, <2>5, <2>6, FormChanges
<1> QED
  BY <1>3, <1>4, <1>5, <1>6, <1>7, <1>8

LEMMA DictionaryStep ==
  ASSUME DictionaryConstants, DictionaryInv, [Dictionary!DictionaryNext]_Dictionary!dictionaryVars
  PROVE  DictionaryInv'
<1>1. CASE UNCHANGED Dictionary!dictionaryVars
  <2>1. UNCHANGED <<dictionary, entries, minted, cached, rows, base, puts, frozen, inserted, added>>
    BY <1>1, Zenon DEF Dictionary!dictionaryVars
  <2>2. /\ cached' \in EntryLists /\ entries' \in EntryLists /\ minted' \in Nat /\ frozen' \in BOOLEAN
        /\ rows' \in DraftLists /\ base' \in DraftLists /\ NewKeys(base') = {}
        /\ NewKeys(rows') \subseteq NewKeys(rows)
    BY <2>1 DEF DictionaryInv
  <2> QED
    BY <2>1, <2>2, FormChanges
<1>2. CASE Dictionary!Leave \/ Dictionary!RereadFails
  <2>1. /\ rows' = <<>> /\ base' = <<>> /\ frozen' = FALSE /\ puts' = Dictionary!Disowned
        /\ UNCHANGED <<dictionary, entries, minted, cached, inserted, added>>
    BY <1>2, Zenon DEF Dictionary!Leave, Dictionary!RereadFails, Dictionary!Unseeded
  <2> QED
    BY <2>1, FormLeft
<1>3. CASE \E r \in puts : Dictionary!Answered(r) \/ Dictionary!Reseeded(r)
  BY <1>3, PutIsAnswered, FormIsReseeded, Zenon
<1> QED
  BY <1>1, <1>2, <1>3, FormSteps, RowIsAdded, FormIsSent, Zenon DEF Dictionary!DictionaryNext

\* What is new in a save that is stored is of a row that is not stored yet.
LEMMA RowsAreNew == ASSUME DictionaryInv PROVE Dictionary!RowsAreStoredOnce
<1>1. ASSUME NEW r \in puts, Dictionary!Answered(r)
      PROVE  \A n \in Dictionary!NewRows(r.body) : r.body[n].key \notin inserted
  <2>1. NewKeys(r.body) \cap inserted = {}
    BY <1>1, Zenon DEF DictionaryInv, PutInv, Dictionary!Answered
  <2> QED
    BY <2>1 DEF NewKeys, Dictionary!NewRows
<1> QED
  BY <1>1, Zenon DEF Dictionary!RowsAreStoredOnce

\* A row that is typed once becomes one entry: no save that is stored carries, as new, a row
\* that a save of this form or of another stored (DictionaryEditor's frozen form, and its reseeding).
THEOREM RowsBecomeOneEntry ==
  ASSUME DictionaryConstants
  PROVE  Dictionary!DictionarySpec => [][Dictionary!RowsAreStoredOnce]_Dictionary!dictionaryVars
<1>1. DictionaryInv => Dictionary!RowsAreStoredOnce
  BY RowsAreNew
<1>2. Dictionary!DictionarySpec => []DictionaryInv
  BY DictionaryStarts, DictionaryStep, PTL DEF Dictionary!DictionarySpec
<1> QED
  BY <1>1, <1>2, PTL DEF Dictionary!DictionarySpec

\* What a dictionary form sends keeps the rules the server checks a document by: values filled in
\* and told apart as the server folds them, and one default where there must be one.
THEOREM DictionariesSendTheRules ==
  ASSUME DictionaryConstants
  PROVE  Dictionary!DictionarySpec => []Dictionary!SentIsWellFormed
<1>1. Dictionary!DictionarySpec => []DictionaryInv
  BY DictionaryStarts, DictionaryStep, PTL DEF Dictionary!DictionarySpec
<1>2. DictionaryInv => Dictionary!SentIsWellFormed
  BY Zenon DEF DictionaryInv, PutInv, Dictionary!SentIsWellFormed
<1> QED
  BY <1>1, <1>2, PTL

-----------------------------------------------------------------------------
(* The query builder *)

CONSTANTS Schemas, FieldTexts, Limits, Hops, MaxParts, Unset,
          SchemaWords,  \* names of blueprints, properties, relations and hierarchies
          EnumTexts     \* choices of enumerated properties

VARIABLES schema, builder, worked

Builder == INSTANCE QueryBuilder WITH Values <- FieldTexts

Types == [type : STRING, enum : SUBSET EnumTexts]
Mappings(S) == UNION {[names -> S] : names \in SUBSET SchemaWords}
Shapes == [properties : Mappings(Types), relations : Mappings(SchemaWords)]
Conditions == [property : SchemaWords \cup {Unset, "$identifier", "$tier"}, operator : {"eq", "isNull", "isNotNull", "lt", "contains"}, value : FieldTexts \cup EnumTexts \cup {"", "true"}]
Connections ==
  [kind : {"relation", "ownership", "hierarchy"}, name : SchemaWords \cup {Unset, "$team"}, direction : {"out", "in"},
   target : SchemaWords \cup {Unset, "_team"}, identifier : BOOLEAN, maxHops : Hops \cup {1}]
Paths == [edge : SchemaWords \cup {"$team"}, hops : 1 .. Builder!MAX_HOPS, direction : {"out", "in"}, label : SchemaWords \cup {Unset}, identifier : BOOLEAN]

Models ==
  [blueprint : SchemaWords \cup {Unset}, conditions : Seq(Conditions), connection : Connections \cup {Unset},
   returns : {"start", "target", "both"}, limit : Limits \cup {0}]
Built ==
  [label : SchemaWords, where : Seq(Conditions), returns : {"start", "target", "both"}, limit : Limits \cup {0}, path : Paths \cup {Unset}]

\* No name has a dollar: blueprints, relations and namespaces are checked by expressions
\* that leave it out.
BuilderConstants ==
  /\ \A s \in Schemas : s \in [blueprints : Mappings(Shapes), hierarchies : SUBSET SchemaWords]
  /\ "_team" \in SchemaWords /\ "$team" \notin SchemaWords /\ Unset \notin SchemaWords
  /\ Unset \notin Paths \cup Built

\* Until a removal has moved conditions up, a value field that holds a text has been touched;
\* a model that is said to have worked makes a query over some schema.
BuilderInv ==
  /\ schema \in Schemas
  /\ builder.model \in Models
  /\ ~builder.moved => \A i \in DOMAIN builder.model.conditions : builder.model.conditions[i].value # "" => <<i, "value">> \in builder.touched
  /\ worked => \E s \in Schemas : Builder!buildQuery(builder.model, s).query # Unset

\* Issues at their paths.
LEMMA AtNone == ASSUME NEW i, NEW S, Builder!At(i, S) = {} PROVE S = {}
  BY Zenon DEF Builder!At

LEMMA AtOne == ASSUME NEW i, NEW S, NEW e \in Builder!At(i, S) PROVE \E x \in S : e = <<<<i, x[1]>>, x[2]>>
  BY Zenon DEF Builder!At

\* A model without errors misses nothing; the errors of a query, each for its own reason.
LEMMA ErrorsOf ==
  ASSUME NEW m, NEW s, NEW origin, origin = Builder!findBlueprint(s, m.blueprint), Builder!buildQuery(m, s).errors = {}
  PROVE  /\ m.blueprint # Unset /\ origin # Unset
         /\ Builder!buildConditions(m.conditions, Builder!getQueryBuilderProperties(s, origin)) = {}
         /\ Builder!validateLimit(m.limit) = {}
         /\ ~(m.connection = Unset /\ m.returns # "start")
         /\ m.connection # Unset => Builder!validateConnection(m.connection, origin, s) = {}
<1> DEFINE required == IF m.blueprint = Unset THEN {<<"blueprint", "blueprintRequired">>} ELSE {}
           unknown == IF m.blueprint # Unset /\ origin = Unset THEN {<<"blueprint", "unknownBlueprint">>} ELSE {}
           returned == IF m.connection = Unset /\ m.returns # "start" THEN {<<"returns", "returnUnsupported">>} ELSE {}
           linked == IF m.connection # Unset /\ origin # Unset THEN Builder!validateConnection(m.connection, origin, s) ELSE {}
<1>1. /\ Builder!At(0, required) = {} /\ Builder!At(0, unknown) = {} /\ Builder!At(0, returned) = {} /\ Builder!At(0, linked) = {}
      /\ Builder!At(0, Builder!validateLimit(m.limit)) = {}
      /\ Builder!buildConditions(m.conditions, Builder!getQueryBuilderProperties(s, origin)) = {}
  BY Zenon DEF Builder!buildQuery
<1>2. required = {} /\ unknown = {} /\ returned = {} /\ linked = {} /\ Builder!validateLimit(m.limit) = {}
  <2> HIDE DEF required, unknown, returned, linked
  <2> QED BY Zenon, <1>1, AtNone
<1>3. m.blueprint # Unset
  BY Zenon, <1>2
<1>4. origin # Unset
  BY Zenon, <1>2, <1>3
<1>5. ~(m.connection = Unset /\ m.returns # "start")
  BY Zenon, <1>2
<1>6. m.connection # Unset => Builder!validateConnection(m.connection, origin, s) = {}
  BY Zenon, <1>2, <1>4
<1> QED BY Zenon, <1>1, <1>2, <1>3, <1>4, <1>5, <1>6

LEMMA ErrorsAre ==
  ASSUME NEW m, NEW s, NEW origin, origin = Builder!findBlueprint(s, m.blueprint), NEW e \in Builder!buildQuery(m, s).errors,
         m.blueprint # Unset, Builder!validateLimit(m.limit) = {}, ~(m.connection = Unset /\ m.returns # "start")
  PROVE  \/ e = <<<<0, "blueprint">>, "unknownBlueprint">> \/ e = <<<<0, "blueprint">>, "unsupportedName">>
         \/ e \in Builder!buildConditions(m.conditions, Builder!getQueryBuilderProperties(s, origin))
         \/ /\ m.connection # Unset /\ origin # Unset
            /\ \E x \in Builder!validateConnection(m.connection, origin, s) : e = <<<<0, x[1]>>, x[2]>>
<1> DEFINE unknown == IF m.blueprint # Unset /\ origin = Unset THEN {<<"blueprint", "unknownBlueprint">>} ELSE {}
           ticked == IF Builder!hasUnsupportedBacktick(m.blueprint) THEN {<<"blueprint", "unsupportedName">>} ELSE {}
           linked == IF m.connection # Unset /\ origin # Unset THEN Builder!validateConnection(m.connection, origin, s) ELSE {}
<1>1. \/ e \in Builder!At(0, {}) \/ e \in Builder!At(0, unknown) \/ e \in Builder!At(0, ticked) \/ e \in Builder!At(0, linked)
      \/ e \in Builder!buildConditions(m.conditions, Builder!getQueryBuilderProperties(s, origin))
  BY Zenon DEF Builder!buildQuery
<1>2. \/ \E x \in {} \cup unknown \cup ticked \cup linked : e = <<<<0, x[1]>>, x[2]>> /\ (x \in unknown \/ x \in ticked \/ x \in linked)
      \/ e \in Builder!buildConditions(m.conditions, Builder!getQueryBuilderProperties(s, origin))
  <2> HIDE DEF unknown, ticked, linked
  <2> QED BY Zenon, <1>1, AtOne
<1>3. ASSUME NEW x, x \in unknown \/ x \in ticked, e = <<<<0, x[1]>>, x[2]>>
      PROVE  e = <<<<0, "blueprint">>, "unknownBlueprint">> \/ e = <<<<0, "blueprint">>, "unsupportedName">>
  <2>1. x = <<"blueprint", "unknownBlueprint">> \/ x = <<"blueprint", "unsupportedName">>
    BY Zenon, <1>3
  <2> QED BY <1>3, <2>1
<1>4. ASSUME NEW x, x \in linked
      PROVE  m.connection # Unset /\ origin # Unset /\ x \in Builder!validateConnection(m.connection, origin, s)
  BY Zenon, <1>4
<1> QED BY Zenon, <1>2, <1>3, <1>4

\* A query is made of a model without errors.
LEMMA QueryMade ==
  ASSUME NEW m, NEW s, Builder!buildQuery(m, s).query # Unset
  PROVE  /\ Builder!buildQuery(m, s).errors = {}
         /\ Builder!findBlueprint(s, m.blueprint) # Unset
         /\ Builder!buildQuery(m, s).query =
              [label |-> Builder!findBlueprint(s, m.blueprint), where |-> m.conditions, returns |-> m.returns, limit |-> m.limit,
               path |-> IF m.connection = Unset THEN Unset ELSE Builder!connectionPattern(m.connection, s)]
  BY Zenon DEF Builder!buildQuery

\* A blueprint is found by its name without regard to case, whatever the case of the name asked for.
LEMMA BlueprintFound ==
  ASSUME NEW s, NEW name, Builder!findBlueprint(s, name) # Unset
  PROVE  /\ Builder!findBlueprint(s, name) \in DOMAIN s.blueprints
         /\ Builder!Folded(Builder!findBlueprint(s, name)) = Builder!Folded(name)
         /\ Builder!findBlueprint(s, Builder!findBlueprint(s, name)) = Builder!findBlueprint(s, name)
<1> DEFINE found == {b \in DOMAIN s.blueprints : Builder!Folded(b) = Builder!Folded(name)}
           it == CHOOSE b \in found : TRUE
<1>1. found # {} /\ Builder!findBlueprint(s, name) = it
  BY Zenon DEF Builder!findBlueprint
<1>2. it \in found
  BY <1>1
<1>3. {b \in DOMAIN s.blueprints : Builder!Folded(b) = Builder!Folded(it)} = found
  BY <1>2
<1>4. Builder!findBlueprint(s, it) = it
  <2>1. it # Unset
    BY <1>1
  <2> QED BY Zenon, <2>1, <1>1, <1>3 DEF Builder!findBlueprint
<1> QED BY <1>1, <1>2, <1>4

\* What a set of conditions without errors is worth to the server.
LEMMA ConditionsFit ==
  ASSUME NEW cs, NEW properties, Builder!buildConditions(cs, properties) = {}, NEW i \in DOMAIN cs
  PROVE  /\ cs[i].property # Unset /\ cs[i].property \in DOMAIN properties
         /\ \/ cs[i].operator \in Builder!NULL_OPERATORS
            \/ cs[i].value # "" /\ Builder!conditionLiteral(properties[cs[i].property].type, cs[i].value)
<1>1. Builder!At(i, Builder!conditionIssue(cs[i], properties)) = {}
  BY Zenon DEF Builder!buildConditions
<1>2. Builder!conditionIssue(cs[i], properties) = {}
  BY Zenon, <1>1, AtNone
<1> QED BY Zenon, <1>2 DEF Builder!conditionIssue

\* Of conditions that some schema takes, another schema only misses names and types, or
\* finds a value that is there of the wrong kind.
ConditionMisfit(e, i, c) ==
  \/ e = <<<<i, "property">>, "unknownProperty">> \/ e = <<<<i, "property">>, "unsupportedName">> \/ e = <<<<i, "operator">>, "operatorUnsupported">>
  \/ e = <<<<i, "value">>, "valueInvalid">> /\ c.operator \notin Builder!NULL_OPERATORS /\ c.value # ""

LEMMA ConditionErrors ==
  ASSUME NEW cs, NEW properties, NEW before, Builder!buildConditions(cs, before) = {}, NEW e \in Builder!buildConditions(cs, properties)
  PROVE  \E i \in DOMAIN cs : ConditionMisfit(e, i, cs[i])
<1> DEFINE many == Builder!buildConditions(cs, properties) \ UNION {Builder!At(i, Builder!conditionIssue(cs[i], properties)) : i \in DOMAIN cs}
<1>1. e \notin many
  <2>1. e \in many => e \in Builder!buildConditions(cs, before)
    BY Zenon DEF Builder!buildConditions
  <2> QED BY <2>1
<1>2. PICK i \in DOMAIN cs : e \in Builder!At(i, Builder!conditionIssue(cs[i], properties))
  BY Zenon, <1>1
<1>3. PICK x \in Builder!conditionIssue(cs[i], properties) : e = <<<<i, x[1]>>, x[2]>>
  BY Zenon, <1>2, AtOne
<1>4. /\ cs[i].property # Unset
      /\ cs[i].operator \in Builder!NULL_OPERATORS \/ cs[i].value # ""
  BY Zenon, ConditionsFit, <1>2
<1>5. \/ x = <<"property", "unknownProperty">> \/ x = <<"property", "unsupportedName">> \/ x = <<"operator", "operatorUnsupported">>
      \/ x = <<"value", "valueInvalid">> /\ cs[i].operator \notin Builder!NULL_OPERATORS
  BY Zenon, <1>3, <1>4 DEF Builder!conditionIssue
<1>6. ASSUME NEW field, NEW code, x = <<field, code>> PROVE e = <<<<i, field>>, code>>
  BY <1>3, <1>6
<1>7. \/ e = <<<<i, "property">>, "unknownProperty">> \/ e = <<<<i, "property">>, "unsupportedName">> \/ e = <<<<i, "operator">>, "operatorUnsupported">>
      \/ e = <<<<i, "value">>, "valueInvalid">> /\ cs[i].operator \notin Builder!NULL_OPERATORS /\ cs[i].value # ""
  BY Zenon, <1>4, <1>5, <1>6
<1> QED BY Zenon, <1>2, <1>7 DEF ConditionMisfit

\* What a connection without errors is.
LEMMA TargetFits ==
  ASSUME NEW c, NEW s, NEW expected, Builder!validateTarget(c, s, expected) = {}
  PROVE  /\ c.identifier => c.target # Unset
         /\ c.target = Unset => expected = Unset
         /\ c.target # Unset => Builder!findBlueprint(s, c.target) # Unset
         /\ expected # Unset => Builder!Folded(Builder!findBlueprint(s, c.target)) = Builder!Folded(expected)
  BY Zenon DEF Builder!validateTarget

LEMMA RelationFits ==
  ASSUME NEW c, NEW s, NEW origin, Builder!validateConnection(c, origin, s) = {}, c.kind = "relation"
  PROVE  /\ c.name # Unset /\ c.name \in DOMAIN s.blueprints[origin].relations
         /\ Builder!SameFolded(s.hierarchies, c.name) = {}
         /\ c.direction = "out" /\ c.maxHops = 1
         /\ Builder!validateTarget(c, s, s.blueprints[origin].relations[c.name]) = {}
  BY Zenon DEF Builder!validateConnection

LEMMA OwnershipFits ==
  ASSUME NEW c, NEW s, NEW origin, Builder!validateConnection(c, origin, s) = {}, c.kind = "ownership", c.direction \in {"out", "in"}
  PROVE  /\ c.maxHops = 1 /\ c.name = "$team"
         /\ c.direction = "in" => Builder!Folded(origin) = "_team" /\ Builder!validateTarget(c, s, Unset) = {}
         /\ c.direction = "out" => Builder!validateTarget(c, s, "_team") = {}
  BY Zenon DEF Builder!validateConnection

LEMMA HierarchyFits ==
  ASSUME NEW c, NEW s, NEW origin, Builder!validateConnection(c, origin, s) = {}, c.kind = "hierarchy"
  PROVE  /\ Builder!SameFolded(s.hierarchies, c.name) # {}
         /\ c.maxHops \in 1 .. Builder!MAX_HOPS
         /\ \A h \in Builder!SameFolded(s.hierarchies, c.name) :
              \A b \in Builder!hierarchySources(c, origin, s) : h \notin DOMAIN s.blueprints[b].relations
         /\ Builder!validateTarget(c, s, Unset) = {}
  BY Zenon DEF Builder!validateConnection, Builder!hasEdgeCollision

\* Of a connection that some schema takes, another schema only misses names and targets.
LEMMA TargetErrors ==
  ASSUME NEW c, NEW s, NEW expected, NEW e \in Builder!validateTarget(c, s, expected), c.identifier => c.target # Unset
  PROVE  e \in {<<"targetBlueprint", "targetBlueprintUnknown">>, <<"targetBlueprint", "connectionUnsupported">>, <<"targetBlueprint", "unsupportedName">>}
  BY Zenon DEF Builder!validateTarget

LEMMA ConnectionErrors ==
  ASSUME NEW c \in Connections, NEW s, NEW origin, NEW before, NEW first,
         Builder!validateConnection(c, first, before) = {}, Builder!Folded(first) = Builder!Folded(origin),
         NEW e \in Builder!validateConnection(c, origin, s)
  PROVE  \/ c.kind # "ownership" /\ e \in {<<"name", "unsupportedName">>, <<"name", "connectionUnsupported">>}
         \/ e \in {<<"targetBlueprint", "targetBlueprintUnknown">>, <<"targetBlueprint", "connectionUnsupported">>, <<"targetBlueprint", "unsupportedName">>}
<1> DEFINE others == {<<"name", "unsupportedName">>, <<"name", "connectionUnsupported">>}
           expected == CASE c.kind = "relation" /\ c.name \in DOMAIN s.blueprints[origin].relations -> s.blueprints[origin].relations[c.name]
                         [] c.kind = "ownership" /\ c.direction = "out" -> "_team"
                         [] OTHER -> Unset
<1>1. c.name # Unset
  BY Zenon DEF Builder!validateConnection
<1>2. c.identifier => c.target # Unset
  <2> DEFINE sought == CASE c.kind = "relation" /\ c.name \in DOMAIN before.blueprints[first].relations -> before.blueprints[first].relations[c.name]
                        [] c.kind = "ownership" /\ c.direction = "out" -> "_team"
                        [] OTHER -> Unset
  <2>1. Builder!validateTarget(c, before, sought) = {}
    BY Zenon DEF Builder!validateConnection
  <2> QED BY <2>1, TargetFits
<1>3. e \in Builder!validateTarget(c, s, expected) \/ (c.kind # "ownership" /\ e \in others)
  <2>1. c.kind \in {"relation", "ownership", "hierarchy"} /\ c.direction \in {"out", "in"}
    BY DEF Connections
  <2>2. CASE c.kind = "relation"
    <3>1. c.direction = "out" /\ c.maxHops = 1
      BY <2>2, RelationFits
    <3> QED BY Zenon, <1>1, <2>2, <3>1 DEF Builder!validateConnection
  <2>3. CASE c.kind = "ownership"
    <3>1. c.maxHops = 1 /\ c.name = "$team" /\ (c.direction = "in" => Builder!Folded(origin) = "_team")
      BY <2>1, <2>3, OwnershipFits
    <3>2. ~Builder!hasUnsupportedBacktick(c.name)
      BY <3>1 DEF Builder!hasUnsupportedBacktick
    <3> QED BY Zenon, <1>1, <2>3, <3>1, <3>2 DEF Builder!validateConnection
  <2>4. CASE c.kind = "hierarchy"
    <3>1. c.maxHops \in 1 .. Builder!MAX_HOPS
      BY <2>4, HierarchyFits
    <3> QED BY Zenon, <1>1, <2>4, <3>1 DEF Builder!validateConnection
  <2> QED BY <2>1, <2>2, <2>3, <2>4
<1> QED BY Zenon, <1>2, <1>3, TargetErrors

\* The pattern of a connection without errors, of names of the schema.
LEMMA SchemaNames ==
  ASSUME BuilderConstants, NEW s \in Schemas
  PROVE  /\ DOMAIN s.blueprints \subseteq SchemaWords /\ s.hierarchies \subseteq SchemaWords
         /\ \A b \in DOMAIN s.blueprints : /\ DOMAIN s.blueprints[b].relations \subseteq SchemaWords
                                           /\ \A r \in DOMAIN s.blueprints[b].relations : s.blueprints[b].relations[r] \in SchemaWords
                                           /\ DOMAIN s.blueprints[b].properties \subseteq SchemaWords
                                           /\ \A p \in DOMAIN s.blueprints[b].properties : s.blueprints[b].properties[p].enum \subseteq EnumTexts
<1>1. s \in [blueprints : Mappings(Shapes), hierarchies : SUBSET SchemaWords]
  BY DEF BuilderConstants
<1>2. ASSUME NEW S, NEW f \in Mappings(S) PROVE DOMAIN f \subseteq SchemaWords /\ \A x \in DOMAIN f : f[x] \in S
  BY DEF Mappings
<1>3. s.blueprints \in Mappings(Shapes) /\ s.hierarchies \subseteq SchemaWords
  BY <1>1
<1>4. ASSUME NEW b \in DOMAIN s.blueprints
      PROVE  s.blueprints[b].relations \in Mappings(SchemaWords) /\ s.blueprints[b].properties \in Mappings(Types)
  <2>1. s.blueprints[b] \in Shapes
    BY <1>3, <1>2
  <2> QED BY <2>1 DEF Shapes
<1>5. ASSUME NEW p \in Types PROVE p.enum \subseteq EnumTexts
  BY DEF Types
<1> QED BY <1>2, <1>3, <1>4, <1>5

LEMMA PatternMade ==
  ASSUME BuilderConstants, NEW s \in Schemas, NEW origin \in DOMAIN s.blueprints, NEW c \in Connections,
         Builder!validateConnection(c, origin, s) = {}
  PROVE  Builder!connectionPattern(c, s) \in Paths
<1> DEFINE p == Builder!connectionPattern(c, s)
<1>1. c.kind \in {"relation", "ownership", "hierarchy"} /\ c.direction \in {"out", "in"} /\ c.identifier \in BOOLEAN
  BY DEF Connections
<1>2. Builder!findBlueprint(s, c.target) \in SchemaWords \cup {Unset}
  BY BlueprintFound, SchemaNames
<1>3. CASE c.kind = "relation"
  <2>1. Builder!connectionPattern(c, s) =
          [edge |-> c.name, hops |-> 1, direction |-> c.direction, label |-> Builder!findBlueprint(s, c.target), identifier |-> c.identifier]
    BY Zenon, <1>3 DEF Builder!connectionPattern
  <2>2. c.name \in SchemaWords
    BY <1>3, RelationFits, SchemaNames
  <2>3. 1 \in 1 .. Builder!MAX_HOPS
    BY DEF Builder!MAX_HOPS
  <2> QED BY <1>1, <1>2, <2>1, <2>2, <2>3 DEF Paths
<1>4. CASE c.kind = "ownership"
  <2>1. Builder!connectionPattern(c, s) =
          [edge |-> "$team", hops |-> 1, direction |-> c.direction, label |-> Builder!findBlueprint(s, c.target), identifier |-> c.identifier]
    BY Zenon, <1>4 DEF Builder!connectionPattern
  <2>3. 1 \in 1 .. Builder!MAX_HOPS
    BY DEF Builder!MAX_HOPS
  <2> QED BY <1>1, <1>2, <2>1, <2>3 DEF Paths
<1>5. CASE c.kind = "hierarchy"
  <2> DEFINE h == CHOOSE x \in Builder!SameFolded(s.hierarchies, c.name) : TRUE
  <2>1. Builder!SameFolded(s.hierarchies, c.name) # {} /\ c.maxHops \in 1 .. Builder!MAX_HOPS
    BY <1>5, HierarchyFits
  <2>2. Builder!connectionPattern(c, s) =
          [edge |-> h, hops |-> c.maxHops, direction |-> c.direction, label |-> Builder!findBlueprint(s, c.target), identifier |-> c.identifier]
    BY Zenon, <1>5, <2>1 DEF Builder!connectionPattern
  <2>3. h \in Builder!SameFolded(s.hierarchies, c.name)
    BY <2>1
  <2>4. h \in SchemaWords
    BY <2>3, SchemaNames DEF Builder!SameFolded
  <2> HIDE DEF h
  <2> QED BY <1>1, <1>2, <2>1, <2>2, <2>4 DEF Paths
<1> QED BY <1>1, <1>3, <1>4, <1>5

\* A model without errors makes a query.
LEMMA NoErrorsIsAQuery ==
  ASSUME BuilderConstants, NEW s \in Schemas, NEW m \in Models, Builder!buildQuery(m, s).errors = {}
  PROVE  Builder!buildQuery(m, s).query # Unset
<1> DEFINE origin == Builder!findBlueprint(s, m.blueprint)
           q == [label |-> origin, where |-> m.conditions, returns |-> m.returns, limit |-> m.limit,
                 path |-> IF m.connection = Unset THEN Unset ELSE Builder!connectionPattern(m.connection, s)]
<1>1. origin # Unset /\ (m.connection # Unset => Builder!validateConnection(m.connection, origin, s) = {})
  BY Zenon, ErrorsOf
<1>2. Builder!buildQuery(m, s).query = q
  BY Zenon, <1>1 DEF Builder!buildQuery
<1>3. origin \in DOMAIN s.blueprints /\ origin \in SchemaWords
  BY <1>1, BlueprintFound, SchemaNames
<1>4. m.connection # Unset => Builder!connectionPattern(m.connection, s) \in Paths
  <2>1. m.connection # Unset => m.connection \in Connections /\ Builder!validateConnection(m.connection, origin, s) = {}
    <3>1. m.connection \in Connections \cup {Unset}
      BY DEF Models
    <3> QED BY <1>1, <3>1
  <2> QED BY <2>1, <1>3, PatternMade
<1> HIDE DEF origin
<1>5. q \in Built
  BY <1>3, <1>4 DEF Built, Models
<1> QED BY <1>2, <1>5 DEF BuilderConstants

\* Of issues of a schema that has moved on, one comes first.
LEMMA FirstIssue ==
  ASSUME NEW codes, codes # {}, NEW field, NEW other \in {"unknownBlueprint", "unknownProperty", "operatorUnsupported", "connectionUnsupported"},
         \/ field # "name" /\ codes \subseteq {"targetBlueprintUnknown", other, "unsupportedName"}
         \/ field = "name" /\ codes \subseteq {"unsupportedName", "connectionUnsupported"}
  PROVE  \E code \in codes : code \in Builder!STALE_SCHEMA_ISSUES /\ \A o \in codes : o = code \/ Builder!Ahead(field, code, o)
<1>0. codes \subseteq Builder!STALE_SCHEMA_ISSUES
  BY Zenon DEF Builder!STALE_SCHEMA_ISSUES
<1>1. CASE field # "name" /\ "targetBlueprintUnknown" \in codes
  BY Zenon, <1>0, <1>1 DEF Builder!Ahead
<1>2. CASE field # "name" /\ "targetBlueprintUnknown" \notin codes /\ other \in codes
  <2>1. \A o \in codes : o = other \/ o = "unsupportedName"
    BY Zenon, <1>2
  <2> QED BY Zenon, <1>0, <1>2, <2>1 DEF Builder!Ahead
<1>3. CASE field # "name" /\ "targetBlueprintUnknown" \notin codes /\ other \notin codes
  <2>1. \A o \in codes : o = "unsupportedName"
    BY Zenon, <1>3
  <2> QED BY Zenon, <1>0, <2>1
<1>4. CASE field = "name" /\ "unsupportedName" \in codes
  <2>1. \A o \in codes : o = "unsupportedName" \/ o = "connectionUnsupported"
    BY Zenon, <1>4
  <2> QED BY Zenon, <1>0, <1>4, <2>1 DEF Builder!Ahead
<1>5. CASE field = "name" /\ "unsupportedName" \notin codes
  <2>1. \A o \in codes : o = "connectionUnsupported"
    BY Zenon, <1>5
  <2> QED BY Zenon, <1>0, <2>1
<1> QED BY Zenon, <1>1, <1>2, <1>3, <1>4, <1>5

\* What the schema of the page finds wrong with a model that another schema took: names that
\* are unknown to it, or values of the wrong kind.
ValueIssue(e) ==
  \E i \in DOMAIN builder.model.conditions :
    /\ e = <<<<i, "value">>, "valueInvalid">>
    /\ builder.model.conditions[i].operator \notin Builder!NULL_OPERATORS /\ builder.model.conditions[i].value # ""
PropertyIssue(e) ==
  \E i \in DOMAIN builder.model.conditions :
    e = <<<<i, "property">>, "unknownProperty">> \/ e = <<<<i, "property">>, "unsupportedName">> \/ e = <<<<i, "operator">>, "operatorUnsupported">>
BlueprintIssue(e) == e = <<<<0, "blueprint">>, "unknownBlueprint">> \/ e = <<<<0, "blueprint">>, "unsupportedName">>
NameIssue(e) ==
  /\ builder.model.connection # Unset /\ builder.model.connection.kind \in {"relation", "hierarchy"}
  /\ e \in {<<<<0, "name">>, "unsupportedName">>, <<<<0, "name">>, "connectionUnsupported">>}
TargetIssue(e) ==
  /\ builder.model.connection # Unset
  /\ e \in {<<<<0, "targetBlueprint">>, "targetBlueprintUnknown">>, <<<<0, "targetBlueprint">>, "connectionUnsupported">>,
            <<<<0, "targetBlueprint">>, "unsupportedName">>}

LEMMA ErrorsLeft ==
  ASSUME BuilderConstants, BuilderInv, worked, NEW e \in Builder!Result.errors
  PROVE  ValueIssue(e) \/ PropertyIssue(e) \/ BlueprintIssue(e) \/ NameIssue(e) \/ TargetIssue(e)
<1> DEFINE m == builder.model
           origin == Builder!findBlueprint(schema, m.blueprint)
<1>1. PICK before \in Schemas : Builder!buildQuery(m, before).query # Unset
  BY DEF BuilderInv
<1> DEFINE first == Builder!findBlueprint(before, m.blueprint)
<1>2. Builder!buildQuery(m, before).errors = {} /\ first # Unset
  BY <1>1, QueryMade
<1>3. /\ m.blueprint # Unset
      /\ Builder!buildConditions(m.conditions, Builder!getQueryBuilderProperties(before, first)) = {}
      /\ Builder!validateLimit(m.limit) = {}
      /\ ~(m.connection = Unset /\ m.returns # "start")
      /\ m.connection # Unset => Builder!validateConnection(m.connection, first, before) = {}
  <2> HIDE DEF m
  <2> QED BY Zenon, <1>2, ErrorsOf
<1>4. m \in Models /\ schema \in Schemas
  BY DEF BuilderInv
<1>5. e \in Builder!buildQuery(m, schema).errors
  BY DEF Builder!Result
<1>6. CASE e \in Builder!buildConditions(m.conditions, Builder!getQueryBuilderProperties(schema, origin))
  <2>1. \E i \in DOMAIN m.conditions : ConditionMisfit(e, i, m.conditions[i])
    <3>1. Builder!buildConditions(m.conditions, Builder!getQueryBuilderProperties(before, first)) = {}
      BY <1>3
    <3> HIDE DEF m, origin, first
    <3> QED BY Zenon, <1>6, <3>1, ConditionErrors
  <2> QED BY Zenon, <2>1 DEF ConditionMisfit, ValueIssue, PropertyIssue
<1>7. ASSUME NEW x \in Builder!validateConnection(m.connection, origin, schema), m.connection # Unset, origin # Unset, e = <<<<0, x[1]>>, x[2]>>
      PROVE  NameIssue(e) \/ TargetIssue(e)
  <2>1. Builder!Folded(first) = Builder!Folded(origin)
    BY <1>7, <1>2, BlueprintFound
  <2>2. m.connection \in Connections
    BY <1>7, <1>4 DEF Models
  <2>3. \/ m.connection.kind # "ownership" /\ x \in {<<"name", "unsupportedName">>, <<"name", "connectionUnsupported">>}
        \/ x \in {<<"targetBlueprint", "targetBlueprintUnknown">>, <<"targetBlueprint", "connectionUnsupported">>, <<"targetBlueprint", "unsupportedName">>}
    BY Zenon, <1>3, <1>7, <2>1, <2>2, ConnectionErrors
  <2>4. m.connection.kind \in {"relation", "ownership", "hierarchy"}
    BY <2>2 DEF Connections
  <2>5. CASE m.connection.kind # "ownership" /\ x \in {<<"name", "unsupportedName">>, <<"name", "connectionUnsupported">>}
    <3>1. e \in {<<<<0, "name">>, "unsupportedName">>, <<<<0, "name">>, "connectionUnsupported">>}
      BY <1>7, <2>5
    <3> QED BY <1>7, <2>4, <2>5, <3>1 DEF NameIssue
  <2>6. CASE x \in {<<"targetBlueprint", "targetBlueprintUnknown">>, <<"targetBlueprint", "connectionUnsupported">>, <<"targetBlueprint", "unsupportedName">>}
    <3>1. e \in {<<<<0, "targetBlueprint">>, "targetBlueprintUnknown">>, <<<<0, "targetBlueprint">>, "connectionUnsupported">>,
                 <<<<0, "targetBlueprint">>, "unsupportedName">>}
      BY <1>7, <2>6
    <3> QED BY <1>7, <3>1 DEF TargetIssue
  <2> QED BY <2>3, <2>5, <2>6
<1> HIDE DEF m
<1>8. \/ BlueprintIssue(e)
      \/ e \in Builder!buildConditions(m.conditions, Builder!getQueryBuilderProperties(schema, origin))
      \/ /\ m.connection # Unset /\ origin # Unset
         /\ \E x \in Builder!validateConnection(m.connection, origin, schema) : e = <<<<0, x[1]>>, x[2]>>
  BY Zenon, <1>3, <1>5, ErrorsAre DEF BlueprintIssue
<1> QED BY Zenon, <1>6, <1>7, <1>8

\* The codes at a path of such an issue are of a kind.
LEMMA IssueKinds ==
  ASSUME NEW e, ValueIssue(e) \/ PropertyIssue(e) \/ BlueprintIssue(e) \/ NameIssue(e) \/ TargetIssue(e)
  PROVE  /\ e = <<<<e[1][1], e[1][2]>>, e[2]>>
         /\ \/ e[1][2] = "value" /\ e[2] = "valueInvalid"
            \/ e[1][2] = "property" /\ e[2] \in {"unknownProperty", "unsupportedName"}
            \/ e[1][2] = "operator" /\ e[2] = "operatorUnsupported"
            \/ e[1][2] = "blueprint" /\ e[2] \in {"unknownBlueprint", "unsupportedName"}
            \/ e[1][2] = "name" /\ e[2] \in {"unsupportedName", "connectionUnsupported"}
            \/ e[1][2] = "targetBlueprint" /\ e[2] \in {"targetBlueprintUnknown", "connectionUnsupported", "unsupportedName"}
<1>1. CASE ValueIssue(e)
  <2>1. PICK i : e = <<<<i, "value">>, "valueInvalid">>
    BY Zenon, <1>1 DEF ValueIssue
  <2> QED BY <2>1
<1>2. CASE PropertyIssue(e)
  <2>1. PICK i : e = <<<<i, "property">>, "unknownProperty">> \/ e = <<<<i, "property">>, "unsupportedName">> \/ e = <<<<i, "operator">>, "operatorUnsupported">>
    BY Zenon, <1>2 DEF PropertyIssue
  <2> QED BY <2>1
<1>3. CASE BlueprintIssue(e)
  BY <1>3 DEF BlueprintIssue
<1>4. CASE NameIssue(e)
  <2>1. e \in {<<<<0, "name">>, "unsupportedName">>, <<<<0, "name">>, "connectionUnsupported">>}
    BY <1>4 DEF NameIssue
  <2> QED BY <2>1
<1>5. CASE TargetIssue(e)
  <2>1. e \in {<<<<0, "targetBlueprint">>, "targetBlueprintUnknown">>, <<<<0, "targetBlueprint">>, "connectionUnsupported">>,
               <<<<0, "targetBlueprint">>, "unsupportedName">>}
    BY <1>5 DEF TargetIssue
  <2> QED BY <2>1
<1> QED BY <1>1, <1>2, <1>3, <1>4, <1>5

\* An issue with anything but a value is shown.
LEMMA Shown ==
  ASSUME BuilderConstants, BuilderInv, worked, NEW e \in Builder!Result.errors,
         PropertyIssue(e) \/ BlueprintIssue(e) \/ NameIssue(e) \/ TargetIssue(e)
  PROVE  \E path \in Builder!Fields : Builder!issueAt(path) # {}
<1> DEFINE path == e[1]
           field == path[2]
           codes == {x[2] : x \in {y \in Builder!Result.errors : y[1] = path}}
<1>1. ASSUME NEW y \in Builder!Result.errors, y[1] = path
      PROVE  \/ field = "property" /\ y[2] \in {"unknownProperty", "unsupportedName"}
             \/ field = "operator" /\ y[2] = "operatorUnsupported"
             \/ field = "blueprint" /\ y[2] \in {"unknownBlueprint", "unsupportedName"}
             \/ field = "name" /\ y[2] \in {"unsupportedName", "connectionUnsupported"}
             \/ field = "targetBlueprint" /\ y[2] \in {"targetBlueprintUnknown", "connectionUnsupported", "unsupportedName"}
  <2>1. ValueIssue(y) \/ PropertyIssue(y) \/ BlueprintIssue(y) \/ NameIssue(y) \/ TargetIssue(y)
    BY <1>1, ErrorsLeft
  <2>2. field # "value"
    BY DEF PropertyIssue, BlueprintIssue, NameIssue, TargetIssue
  <2> QED BY Zenon, <1>1, <2>1, <2>2, IssueKinds
<1>2. e[2] \in codes
  OBVIOUS
<1>3. \E other \in {"unknownBlueprint", "unknownProperty", "operatorUnsupported", "connectionUnsupported"} :
        \/ field # "name" /\ codes \subseteq {"targetBlueprintUnknown", other, "unsupportedName"}
        \/ field = "name" /\ codes \subseteq {"unsupportedName", "connectionUnsupported"}
  <2> HIDE DEF field
  <2>1. CASE field = "property"
    <3>1. codes \subseteq {"targetBlueprintUnknown", "unknownProperty", "unsupportedName"}
      BY Zenon, <1>1, <2>1
    <3> QED BY <2>1, <3>1
  <2>2. CASE field = "operator"
    <3>1. codes \subseteq {"targetBlueprintUnknown", "operatorUnsupported", "unsupportedName"}
      BY Zenon, <1>1, <2>2
    <3> QED BY <2>2, <3>1
  <2>3. CASE field = "blueprint"
    <3>1. codes \subseteq {"targetBlueprintUnknown", "unknownBlueprint", "unsupportedName"}
      BY Zenon, <1>1, <2>3
    <3> QED BY <2>3, <3>1
  <2>4. CASE field = "name"
    <3>1. codes \subseteq {"unsupportedName", "connectionUnsupported"}
      BY Zenon, <1>1, <2>4
    <3> QED BY <2>4, <3>1
  <2>5. CASE field = "targetBlueprint"
    <3>1. codes \subseteq {"targetBlueprintUnknown", "connectionUnsupported", "unsupportedName"}
      BY Zenon, <1>1, <2>5
    <3> QED BY <2>5, <3>1
  <2>6. field \in {"property", "operator", "blueprint", "name", "targetBlueprint"}
    BY Zenon, <1>1
  <2> QED BY <2>1, <2>2, <2>3, <2>4, <2>5, <2>6
<1>4. path \in Builder!Fields
  <2>1. CASE PropertyIssue(e)
    <3>1. PICK i \in DOMAIN builder.model.conditions : path = <<i, "property">> \/ path = <<i, "operator">>
      BY <2>1 DEF PropertyIssue
    <3>2. path \in (DOMAIN builder.model.conditions) \X {"property", "operator"}
      BY <3>1
    <3> HIDE DEF path
    <3> QED BY Zenon, <3>2 DEF Builder!Fields
  <2>2. CASE BlueprintIssue(e)
    <3>1. path \in {0} \X {"blueprint", "limit"}
      BY <2>2 DEF BlueprintIssue
    <3> HIDE DEF path
    <3> QED BY Zenon, <3>1 DEF Builder!Fields
  <2>3. CASE NameIssue(e) /\ builder.model.connection.kind = "relation"
    <3>1. path \in {0} \X ({"targetBlueprint", "targetIdentifier"} \cup {"name"}) /\ builder.model.connection # Unset
      BY <2>3 DEF NameIssue
    <3> HIDE DEF path
    <3> QED BY Zenon, <2>3, <3>1 DEF Builder!Fields
  <2>4. CASE NameIssue(e) /\ builder.model.connection.kind = "hierarchy"
    <3>1. path \in {0} \X ({"targetBlueprint", "targetIdentifier"} \cup {"name", "direction", "maxHops"}) /\ builder.model.connection # Unset
      BY <2>4 DEF NameIssue
    <3> HIDE DEF path
    <3> QED BY Zenon, <2>4, <3>1 DEF Builder!Fields
  <2>5. CASE TargetIssue(e)
    <3>1. \A names : path \in {0} \X ({"targetBlueprint", "targetIdentifier"} \cup names)
      BY <2>5 DEF TargetIssue
    <3>2. builder.model.connection # Unset
      BY <2>5 DEF TargetIssue
    <3> HIDE DEF path
    <3> QED BY Zenon, <3>1, <3>2 DEF Builder!Fields
  <2> QED BY <2>1, <2>2, <2>3, <2>4, <2>5 DEF NameIssue
<1> HIDE DEF codes
<1>5. PICK code \in codes : code \in Builder!STALE_SCHEMA_ISSUES /\ \A o \in codes : o = code \/ Builder!Ahead(field, code, o)
  BY Zenon, <1>2, <1>3, FirstIssue
<1>6. code \in Builder!issueAt(path)
  BY Zenon, <1>5 DEF Builder!issueAt, codes
<1> QED BY Zenon, <1>4, <1>6

\* A builder says why.
LEMMA BuilderSaysWhy == ASSUME BuilderConstants, BuilderInv PROVE Builder!SaysWhy
<1> SUFFICES ASSUME worked, ~Builder!Usable, ~builder.moved \/ ~Builder!OnlyValues PROVE \E path \in Builder!Fields : Builder!issueAt(path) # {}
  BY Zenon DEF Builder!SaysWhy, Builder!Explained
<1>1. PICK e : e \in Builder!Result.errors
  BY NoErrorsIsAQuery DEF Builder!Usable, Builder!Result, BuilderInv
<1>2. CASE \E x \in Builder!Result.errors : PropertyIssue(x) \/ BlueprintIssue(x) \/ NameIssue(x) \/ TargetIssue(x)
  BY Zenon, <1>2, Shown
<1>3. CASE \A x \in Builder!Result.errors : ValueIssue(x)
  <2>1. ASSUME NEW x \in Builder!Result.errors PROVE x[2] = "valueInvalid"
    <3>1. PICK i : x = <<<<i, "value">>, "valueInvalid">>
      BY Zenon, <1>3 DEF ValueIssue
    <3> QED BY <3>1
  <2>2. ~builder.moved
    BY <2>1 DEF Builder!OnlyValues
  <2>3. PICK i \in DOMAIN builder.model.conditions :
          /\ e = <<<<i, "value">>, "valueInvalid">>
          /\ builder.model.conditions[i].operator \notin Builder!NULL_OPERATORS /\ builder.model.conditions[i].value # ""
    BY <1>1, <1>3 DEF ValueIssue
  <2> DEFINE path == <<i, "value">>
             valued == {j \in DOMAIN builder.model.conditions : builder.model.conditions[j].operator \notin Builder!NULL_OPERATORS}
  <2>4. e[1] = path /\ e[2] = "valueInvalid"
    BY <2>3
  <2>5. path \in valued \X {"value"}
    BY <2>3
  <2>6. path \in builder.touched
    BY Zenon, <2>2, <2>3 DEF BuilderInv
  <2> HIDE DEF path
  <2>7. path \in Builder!Fields
    BY Zenon, <2>5 DEF Builder!Fields
  <2>8. "valueInvalid" \in Builder!issueAt(path)
    BY Zenon, <1>1, <2>1, <2>4, <2>6 DEF Builder!issueAt
  <2> QED BY Zenon, <2>7, <2>8
<1> QED BY Zenon, <1>2, <1>3, ErrorsLeft

\* The edge a built path names is accepted and read as meant.
LEMMA NoDollars ==
  ASSUME BuilderConstants, NEW s \in Schemas
  PROVE  /\ Builder!SameFolded(s.hierarchies, "$team") = {}
         /\ \A b \in DOMAIN s.blueprints : "$team" \notin DOMAIN s.blueprints[b].relations
<1>1. s.hierarchies \subseteq SchemaWords /\ "$team" \notin SchemaWords
      /\ \A b \in DOMAIN s.blueprints : DOMAIN s.blueprints[b].relations \subseteq SchemaWords
  BY SchemaNames DEF BuilderConstants
<1>2. \A h : Builder!Folded(h) = Builder!Folded("$team") => h = "$team"
  <2>1. Builder!Folded("$team") = "$team"
    BY DEF Builder!Folded
  <2>2. ASSUME NEW h, Builder!Folded(h) = "$team" PROVE h = "$team"
    BY <2>2 DEF Builder!Folded
  <2> QED BY <2>1, <2>2
<1> QED BY <1>1, <1>2 DEF Builder!SameFolded

LEMMA PathAccepted ==
  ASSUME BuilderConstants, NEW s \in Schemas, NEW origin \in DOMAIN s.blueprints, NEW c \in Connections,
         Builder!validateConnection(c, origin, s) = {},
         NEW q, q.label = origin, q.path = Builder!connectionPattern(c, s)
  PROVE  /\ Builder!EdgeAccepted(q, s)
         /\ q.path.hops \in 1 .. Builder!MAX_HOPS
         /\ q.path.label \in DOMAIN s.blueprints \cup {Unset}
         /\ q.path.identifier => q.path.label # Unset
         /\ Builder!MeansOneThing(q, s)
<1>0. /\ c.kind \in {"relation", "ownership", "hierarchy"} /\ c.direction \in {"out", "in"} /\ c.identifier \in BOOLEAN
      /\ Unset \notin SchemaWords /\ Unset # "_team"
  BY DEF Connections, BuilderConstants
<1>1. q.path.hops \in 1 .. Builder!MAX_HOPS
  BY PatternMade DEF Paths
<1> DEFINE label == Builder!findBlueprint(s, c.target)
<1>2. /\ q.path.label = label /\ q.path.direction = c.direction /\ q.path.identifier = c.identifier
      /\ c.kind = "relation" => q.path.edge = c.name /\ q.path.hops = 1
      /\ c.kind = "ownership" => q.path.edge = "$team" /\ q.path.hops = 1
      /\ c.kind = "hierarchy" => q.path.hops = c.maxHops
  <2>1. CASE c.kind = "relation"
    <3>1. q.path = [edge |-> c.name, hops |-> 1, direction |-> c.direction, label |-> label, identifier |-> c.identifier]
      BY Zenon, <2>1 DEF Builder!connectionPattern
    <3> QED BY <2>1, <3>1
  <2>2. CASE c.kind = "ownership"
    <3>1. q.path = [edge |-> "$team", hops |-> 1, direction |-> c.direction, label |-> label, identifier |-> c.identifier]
      BY Zenon, <2>2 DEF Builder!connectionPattern
    <3> QED BY <2>2, <3>1
  <2>3. CASE c.kind = "hierarchy"
    <3>1. PICK edge : q.path = [edge |-> edge, hops |-> c.maxHops, direction |-> c.direction, label |-> label, identifier |-> c.identifier]
      BY Zenon, <2>3 DEF Builder!connectionPattern
    <3> QED BY <2>3, <3>1
  <2> QED BY <1>0, <2>1, <2>2, <2>3
<1>3. label \in DOMAIN s.blueprints \cup {Unset}
  BY BlueprintFound
<1>4. CASE c.kind = "relation"
  <2>1. /\ c.name \in DOMAIN s.blueprints[origin].relations /\ Builder!SameFolded(s.hierarchies, c.name) = {} /\ c.direction = "out"
        /\ Builder!validateTarget(c, s, s.blueprints[origin].relations[c.name]) = {}
    BY <1>4, RelationFits
  <2>2. s.blueprints[origin].relations[c.name] # Unset /\ c.name # "$team"
    BY <2>1, <1>0, SchemaNames, NoDollars
  <2>3. /\ c.identifier => c.target # Unset
        /\ c.target # Unset => label # Unset
        /\ Builder!Folded(label) = Builder!Folded(s.blueprints[origin].relations[c.name])
    BY <2>1, <2>2, TargetFits
  <2>4. Builder!EdgeAccepted(q, s)
    BY Zenon, <1>2, <1>4, <2>1, <2>2, <2>3 DEF Builder!EdgeAccepted, Builder!FarLabelFits
  <2>5. Builder!MeansOneThing(q, s)
    BY Zenon, <1>2, <1>4, <2>1 DEF Builder!MeansOneThing
  <2> QED BY Zenon, <1>1, <1>2, <1>3, <2>3, <2>4, <2>5
<1>5. CASE c.kind = "ownership"
  <2>1. /\ c.direction = "in" => Builder!Folded(origin) = "_team" /\ Builder!validateTarget(c, s, Unset) = {}
        /\ c.direction = "out" => Builder!validateTarget(c, s, "_team") = {}
    BY <1>0, <1>5, OwnershipFits
  <2>2. c.direction = "out" => c.target # Unset /\ label # Unset /\ Builder!Folded(label) = Builder!Folded("_team")
    BY <1>0, <2>1, TargetFits
  <2>3. c.identifier => label # Unset
    <3>1. CASE c.direction = "in"
      BY <2>1, <3>1, TargetFits
    <3>2. CASE c.direction = "out"
      BY <2>2, <3>2
    <3> QED BY <1>0, <3>1, <3>2
  <2>4. Builder!EdgeAccepted(q, s)
    BY Zenon, <1>0, <1>2, <1>5, <2>1, <2>2 DEF Builder!EdgeAccepted, Builder!FarLabelFits
  <2>5. Builder!MeansOneThing(q, s)
    BY Zenon, <1>2, <1>5, NoDollars DEF Builder!MeansOneThing
  <2> QED BY Zenon, <1>1, <1>2, <1>3, <2>3, <2>4, <2>5
<1>6. CASE c.kind = "hierarchy"
  <2> DEFINE named == Builder!SameFolded(s.hierarchies, c.name)
             edge == CHOOSE h \in named : TRUE
  <2>1. /\ named # {}
        /\ \A h \in named : \A b \in Builder!hierarchySources(c, origin, s) : h \notin DOMAIN s.blueprints[b].relations
        /\ Builder!validateTarget(c, s, Unset) = {}
    BY Zenon, <1>6, HierarchyFits
  <2>2. (c.identifier => c.target # Unset) /\ (c.target # Unset => label # Unset)
    BY <2>1, TargetFits
  <2>3. edge \in named /\ q.path.edge = edge
    <3>1. q.path = [edge |-> edge, hops |-> c.maxHops, direction |-> c.direction, label |-> label, identifier |-> c.identifier]
      BY Zenon, <1>6, <2>1 DEF Builder!connectionPattern
    <3> QED BY <3>1, <2>1
  <2>4. edge \in s.hierarchies /\ edge # "$team" /\ Builder!SameFolded(s.hierarchies, edge) # {}
    <3>1. edge \in s.hierarchies
      BY <2>3 DEF Builder!SameFolded
    <3>2. edge # "$team"
      BY <3>1, SchemaNames DEF BuilderConstants
    <3> QED BY <3>1, <3>2 DEF Builder!SameFolded
  <2> HIDE DEF edge, named
  <2>5. Builder!EdgeAccepted(q, s)
    BY Zenon, <2>3, <2>4 DEF Builder!EdgeAccepted
  <2>6. Builder!MeansOneThing(q, s)
    <3> DEFINE sources == IF q.path.hops > 1 \/ (q.path.direction = "in" /\ q.path.label = Unset) THEN DOMAIN s.blueprints
                          ELSE IF q.path.direction = "out" THEN {q.label} ELSE {q.path.label}
    <3>1. sources \subseteq Builder!hierarchySources(c, origin, s)
      <4>1. CASE c.maxHops > 1
        <5>1. Builder!hierarchySources(c, origin, s) = DOMAIN s.blueprints
          BY <4>1 DEF Builder!hierarchySources
        <5> QED BY <5>1, <4>1, <1>2, <1>6
      <4>2. CASE ~(c.maxHops > 1) /\ c.direction = "out"
        <5>1. Builder!hierarchySources(c, origin, s) = {origin}
          BY <4>2 DEF Builder!hierarchySources
        <5> QED BY <5>1, <4>2, <1>2, <1>6
      <4>3. CASE ~(c.maxHops > 1) /\ c.direction = "in" /\ c.target = Unset
        <5>1. Builder!hierarchySources(c, origin, s) = DOMAIN s.blueprints
          BY <4>3 DEF Builder!hierarchySources
        <5>2. label = Unset
          BY Zenon, <4>3 DEF Builder!findBlueprint
        <5> QED BY <5>1, <5>2, <4>3, <1>2, <1>6
      <4>4. CASE ~(c.maxHops > 1) /\ c.direction = "in" /\ c.target # Unset
        <5>1. Builder!hierarchySources(c, origin, s) = DOMAIN s.blueprints \cap {label}
          BY <4>4 DEF Builder!hierarchySources
        <5>2. label # Unset /\ label \in DOMAIN s.blueprints
          BY <4>4, <2>2, <1>3
        <5> QED BY <5>1, <5>2, <4>4, <1>2, <1>6
      <4> QED BY <1>0, <4>1, <4>2, <4>3, <4>4
    <3>2. \A b \in sources : q.path.edge \notin DOMAIN s.blueprints[b].relations
      BY <3>1, <2>1, <2>3
    <3> QED BY Zenon, <3>2 DEF Builder!MeansOneThing
  <2> QED BY Zenon, <1>1, <1>2, <1>3, <2>2, <2>5, <2>6
<1> QED BY <1>0, <1>4, <1>5, <1>6

LEMMA LimitFits == ASSUME NEW limit, Builder!validateLimit(limit) = {} PROVE limit <= Builder!MAX_LIMIT
<1>1. limit \in 0 .. Builder!MAX_LIMIT
  BY Zenon DEF Builder!validateLimit
<1> QED BY <1>1 DEF Builder!MAX_LIMIT

\* What is on offer is accepted.
LEMMA BuilderOffers == ASSUME BuilderConstants, BuilderInv PROVE Builder!OffersAccepted
<1> DEFINE m == builder.model
           s == schema
           origin == Builder!findBlueprint(s, m.blueprint)
           q == Builder!buildQuery(m, s).query
<1> SUFFICES ASSUME Builder!Usable PROVE Builder!AcceptedBy(q, s) /\ Builder!MeansOneThing(q, s)
  BY DEF Builder!OffersAccepted, Builder!Result
<1>1. m \in Models /\ s \in Schemas /\ Unset \notin Paths
  BY DEF BuilderInv, BuilderConstants
<1>2. Builder!buildQuery(m, s).errors = {} /\ Builder!buildQuery(m, s).query # Unset
  BY DEF Builder!Usable, Builder!Result
<1>3. /\ origin # Unset
      /\ q = [label |-> origin, where |-> m.conditions, returns |-> m.returns, limit |-> m.limit,
              path |-> IF m.connection = Unset THEN Unset ELSE Builder!connectionPattern(m.connection, s)]
  BY Zenon, <1>2, QueryMade
<1>4. q.label = origin /\ q.where = m.conditions /\ q.returns = m.returns /\ q.limit = m.limit
      /\ q.path = IF m.connection = Unset THEN Unset ELSE Builder!connectionPattern(m.connection, s)
  <2> HIDE DEF q, origin, m, s
  <2> QED BY <1>3
<1>5. /\ Builder!buildConditions(m.conditions, Builder!getQueryBuilderProperties(s, origin)) = {}
      /\ Builder!validateLimit(m.limit) = {}
      /\ ~(m.connection = Unset /\ m.returns # "start")
      /\ m.connection # Unset => Builder!validateConnection(m.connection, origin, s) = {}
  <2> HIDE DEF m, s
  <2> QED BY Zenon, <1>2, <1>3, ErrorsOf
<1>6. origin \in DOMAIN s.blueprints /\ Builder!findBlueprint(s, origin) = origin
  BY <1>3, BlueprintFound
<1> HIDE DEF q, origin, m, s
<1>7. ASSUME NEW i \in DOMAIN q.where
      PROVE  Builder!PropertyKnown(q, s, q.where[i].property) /\ Builder!LiteralFits(q, s, q.where[i])
  <2> DEFINE properties == Builder!getQueryBuilderProperties(s, origin)
             c == m.conditions[i]
  <2>1. /\ c.property \in DOMAIN properties
        /\ \/ c.operator \in Builder!NULL_OPERATORS
           \/ c.value # "" /\ Builder!conditionLiteral(properties[c.property].type, c.value)
    BY Zenon, <1>7, <1>4, <1>5, ConditionsFit
  <2>2. Builder!PropertyKnown(q, s, c.property)
    BY Zenon, <1>3, <1>4, <1>6, <2>1 DEF Builder!PropertyKnown, Builder!getQueryBuilderProperties
  <2>3. ASSUME NEW type, Builder!conditionLiteral(type, c.value), type = "number" PROVE c.value # "huge"
    BY Zenon, <2>3 DEF Builder!conditionLiteral
  <2>4. Builder!LiteralFits(q, s, c)
    BY Zenon, <1>4, <2>1, <2>3 DEF Builder!LiteralFits
  <2> QED BY Zenon, <1>4, <2>2, <2>4
<1>8. q.limit <= Builder!MAX_LIMIT
  BY Zenon, <1>4, <1>5, LimitFits
<1>9. CASE m.connection = Unset
  <2>1. q.path = Unset /\ q.returns = "start"
    BY Zenon, <1>4, <1>5, <1>9
  <2>2. Builder!MeansOneThing(q, s)
    BY Zenon, <2>1 DEF Builder!MeansOneThing
  <2> QED BY Zenon, <1>4, <1>6, <1>7, <1>8, <2>1, <2>2 DEF Builder!AcceptedBy
<1>10. CASE m.connection # Unset
  <2>1. m.connection \in Connections
    BY <1>1, <1>10 DEF Models
  <2>2. q.path = Builder!connectionPattern(m.connection, s)
    BY Zenon, <1>4, <1>10
  <2>3. q.path # Unset
    BY <1>1, <1>5, <1>6, <1>10, <2>1, <2>2, PatternMade
  <2>4. /\ Builder!EdgeAccepted(q, s)
        /\ q.path.hops \in 1 .. Builder!MAX_HOPS
        /\ q.path.label \in DOMAIN s.blueprints \cup {Unset}
        /\ q.path.identifier => q.path.label # Unset
        /\ Builder!MeansOneThing(q, s)
    <3>1. Builder!validateConnection(m.connection, origin, s) = {} /\ q.label = origin
      BY <1>4, <1>5, <1>10
    <3> QED BY Zenon, <1>1, <1>6, <2>1, <2>2, <3>1, PathAccepted
  <2> QED BY Zenon, <1>4, <1>6, <1>7, <1>8, <2>3, <2>4 DEF Builder!AcceptedBy
<1> QED BY <1>9, <1>10

\* What is left of a sequence, or put at its end, keeps its elements.
LEMMA Appended ==
  ASSUME NEW S, NEW seq \in Seq(S), NEW e \in S
  PROVE  /\ Append(seq, e) \in Seq(S)
         /\ \A i \in DOMAIN Append(seq, e) : Append(seq, e)[i] = e \/ (i \in DOMAIN seq /\ Append(seq, e)[i] = seq[i])
  BY AppendProperties, LenProperties

LEMMA Removed ==
  ASSUME NEW S, NEW seq \in Seq(S), NEW i \in DOMAIN seq
  PROVE  /\ Builder!RemoveAt(seq, i) \in Seq(S)
         /\ i = Len(seq) => \A k \in DOMAIN Builder!RemoveAt(seq, i) : k \in DOMAIN seq /\ Builder!RemoveAt(seq, i)[k] = seq[k]
<1> DEFINE n == Len(seq)
           left == SubSeq(seq, 1, i - 1)
           right == SubSeq(seq, i + 1, n)
<1>1. n \in Nat /\ i \in 1 .. n /\ DOMAIN seq = 1 .. n
  BY LenProperties
<1>2. left \in Seq(S) /\ Len(left) = i - 1 /\ \A k \in 1 .. i - 1 : left[k] = seq[k]
  BY <1>1, SubSeqProperties
<1>3. right \in Seq(S) /\ Len(right) = n - i /\ \A k \in 1 .. n - i : right[k] = seq[i + k]
  BY <1>1, SubSeqProperties
<1>4. left \o right \in Seq(S) /\ Len(left \o right) = n - 1
      /\ \A k \in 1 .. n - 1 : (left \o right)[k] = IF k <= i - 1 THEN left[k] ELSE right[k - (i - 1)]
  <2> HIDE DEF left, right
  <2>1. \A k \in 1 .. Len(left) + Len(right) : (left \o right)[k] = IF k <= Len(left) THEN left[k] ELSE right[k - Len(left)]
    BY <1>2, <1>3, ConcatProperties
  <2>2. left \o right \in Seq(S) /\ Len(left \o right) = Len(left) + Len(right)
    BY <1>2, <1>3, ConcatProperties
  <2>3. (i - 1) + (n - i) = n - 1
    BY <1>1
  <2> QED BY <1>2, <1>3, <2>1, <2>2, <2>3
<1>5. DOMAIN (left \o right) = 1 .. n - 1
  BY <1>4, LenProperties
<1>6. i = n => \A k \in 1 .. n - 1 : k \in 1 .. n /\ (left \o right)[k] = seq[k]
  <2> SUFFICES ASSUME i = n, NEW k \in 1 .. n - 1 PROVE k \in 1 .. n /\ (left \o right)[k] = seq[k]
    OBVIOUS
  <2>1. k <= i - 1 /\ k \in 1 .. i - 1 /\ k \in 1 .. n
    BY <1>1
  <2> HIDE DEF left, right
  <2> QED BY <1>2, <1>4, <2>1
<1>7. Builder!RemoveAt(seq, i) = left \o right
  BY DEF Builder!RemoveAt
<1> QED BY <1>1, <1>4, <1>5, <1>6, <1>7

LEMMA Replaced ==
  ASSUME NEW S, NEW seq \in Seq(S), NEW i \in DOMAIN seq, NEW e \in S
  PROVE  /\ [seq EXCEPT ![i] = e] \in Seq(S)
         /\ \A k \in DOMAIN [seq EXCEPT ![i] = e] :
              k \in DOMAIN seq /\ [seq EXCEPT ![i] = e][k] = IF k = i THEN e ELSE seq[k]
  BY ExceptSeq, LenProperties

\* Edits keep the invariant.
LEMMA ChangeKeeps ==
  ASSUME BuilderConstants, BuilderInv, NEW m \in Models, NEW touched, NEW moved, Builder!Becomes(m, touched, moved),
         ~moved => \A i \in DOMAIN m.conditions : m.conditions[i].value # "" => <<i, "value">> \in touched
  PROVE  BuilderInv'
<1>1. /\ builder' = [model |-> m, touched |-> touched, moved |-> moved] /\ schema' = schema
      /\ worked' = (Builder!buildQuery(m, schema).query # Unset)
  BY DEF Builder!Becomes
<1>2. schema \in Schemas
  BY DEF BuilderInv
<1>3. builder'.model = m /\ builder'.touched = touched /\ builder'.moved = moved
  BY <1>1
<1> QED BY Zenon, <1>1, <1>2, <1>3 DEF BuilderInv

LEMMA EditKeeps ==
  ASSUME BuilderConstants, BuilderInv, NEW m \in Models, NEW fields, Builder!Edited(m, fields),
         ~builder.moved => \A i \in DOMAIN m.conditions : m.conditions[i].value # "" => <<i, "value">> \in builder.touched \cup fields
  PROVE  BuilderInv'
  BY Zenon, ChangeKeeps DEF Builder!Edited

LEMMA BuilderStarts == ASSUME BuilderConstants, Builder!BuilderInit PROVE BuilderInv
<1>1. schema \in Schemas /\ worked = FALSE /\ builder = [model |-> Builder!createQueryBuilderModel, touched |-> {}, moved |-> FALSE]
  BY DEF Builder!BuilderInit
<1>2. Builder!createQueryBuilderModel \in Models /\ Builder!createQueryBuilderModel.conditions = <<>>
  BY DEF Builder!createQueryBuilderModel, Models
<1>3. builder.model = Builder!createQueryBuilderModel /\ builder.model \in Models
  BY <1>1, <1>2
<1>4. DOMAIN builder.model.conditions = {}
  BY <1>2, <1>3
<1> QED BY Zenon, <1>1, <1>3, <1>4 DEF BuilderInv

LEMMA PickKeeps == ASSUME BuilderConstants, BuilderInv, Builder!PickBlueprint PROVE BuilderInv'
<1>1. PICK b \in DOMAIN schema.blueprints \cup {Unset} :
        Builder!Becomes([Builder!createQueryBuilderModel EXCEPT !.blueprint = b], {<<0, "blueprint">>}, FALSE)
  BY Zenon DEF Builder!PickBlueprint
<1> DEFINE m == [Builder!createQueryBuilderModel EXCEPT !.blueprint = b]
<1>2. b \in SchemaWords \cup {Unset}
  BY SchemaNames DEF BuilderInv
<1>3. m \in Models /\ m.conditions = <<>>
  <2>1. Builder!createQueryBuilderModel \in Models /\ Builder!createQueryBuilderModel.conditions = <<>>
    BY DEF Builder!createQueryBuilderModel, Models
  <2> QED BY <1>2, <2>1 DEF Models
<1>4. DOMAIN m.conditions = {}
  BY <1>3
<1> HIDE DEF m
<1>5. Builder!Becomes(m, {<<0, "blueprint">>}, FALSE)
  BY Zenon, <1>1 DEF m
<1> QED BY Zenon, <1>3, <1>4, <1>5, ChangeKeeps

LEMMA ConditionsChange ==
  ASSUME BuilderConstants, BuilderInv, NEW cs \in Seq(Conditions), NEW fields,
         Builder!Edited([builder.model EXCEPT !.conditions = cs], fields),
         \A i \in DOMAIN cs : \/ cs[i].value # "" => <<i, "value">> \in fields
                              \/ i \in DOMAIN builder.model.conditions /\ cs[i] = builder.model.conditions[i]
  PROVE  BuilderInv'
<1> DEFINE old == builder.model
           m == [old EXCEPT !.conditions = cs]
<1>1. old \in Models /\ (~builder.moved => \A j \in DOMAIN old.conditions : old.conditions[j].value # "" => <<j, "value">> \in builder.touched)
  BY DEF BuilderInv
<1>2. m \in Models /\ m.conditions = cs
  <2> HIDE DEF old
  <2> QED BY <1>1 DEF Models
<1> HIDE DEF m
<1>3. ~builder.moved => \A i \in DOMAIN m.conditions : m.conditions[i].value # "" => <<i, "value">> \in builder.touched \cup fields
  <2> SUFFICES ASSUME ~builder.moved, NEW i \in DOMAIN cs, cs[i].value # "" PROVE <<i, "value">> \in builder.touched \cup fields
    BY Zenon, <1>2
  <2>1. <<i, "value">> \in fields \/ (i \in DOMAIN old.conditions /\ old.conditions[i].value # "")
    BY Zenon
  <2> HIDE DEF old
  <2> QED BY Zenon, <1>1, <2>1
<1>4. Builder!Edited(m, fields)
  BY Zenon DEF m
<1> QED BY Zenon, <1>2, <1>3, <1>4, EditKeeps

LEMMA ModelIs ==
  ASSUME BuilderConstants, BuilderInv
  PROVE  builder.model \in Models /\ builder.model.conditions \in Seq(Conditions) /\ builder.model.connection \in Connections \cup {Unset}
  BY DEF BuilderInv, Models

LEMMA AddKeeps == ASSUME BuilderConstants, BuilderInv, Builder!AddCondition PROVE BuilderInv'
<1> DEFINE old == builder.model.conditions
           c == Builder!blankCondition
<1>1. Builder!Edited([builder.model EXCEPT !.conditions = Append(old, c)], {})
  BY DEF Builder!AddCondition
<1>2. old \in Seq(Conditions) /\ c \in Conditions /\ c.value = ""
  BY ModelIs DEF Builder!blankCondition, Conditions
<1> HIDE DEF c
<1>3. Append(old, c) \in Seq(Conditions)
      /\ \A i \in DOMAIN Append(old, c) : \/ Append(old, c)[i] = c
                                          \/ i \in DOMAIN old /\ Append(old, c)[i] = old[i]
  <2>1. old \in Seq(Conditions) /\ c \in Conditions
    BY <1>2
  <2> HIDE DEF old
  <2> QED BY <2>1, Appended
<1> DEFINE cs == Append(old, c)
<1>4. PICK fields : Builder!Edited([builder.model EXCEPT !.conditions = cs], fields)
  BY <1>1
<1>5. cs \in Seq(Conditions) /\ \A i \in DOMAIN cs : cs[i] = c \/ (i \in DOMAIN builder.model.conditions /\ cs[i] = builder.model.conditions[i])
  BY <1>3
<1>6. \A k \in DOMAIN cs : \/ cs[k].value # "" => <<k, "value">> \in fields
                           \/ k \in DOMAIN builder.model.conditions /\ cs[k] = builder.model.conditions[k]
  BY Zenon, <1>2, <1>5
<1> HIDE DEF cs
<1> QED BY Zenon, <1>4, <1>5, <1>6, ConditionsChange

LEMMA RemoveKeeps == ASSUME BuilderConstants, BuilderInv, Builder!RemoveCondition PROVE BuilderInv'
<1> DEFINE old == builder.model.conditions
<1>1. PICK i \in DOMAIN old :
        Builder!Becomes([builder.model EXCEPT !.conditions = Builder!RemoveAt(old, i)], builder.touched, builder.moved \/ i # Len(old))
  BY DEF Builder!RemoveCondition
<1>2. old \in Seq(Conditions) /\ builder.model \in Models
  BY ModelIs
<1>3. /\ Builder!RemoveAt(old, i) \in Seq(Conditions)
      /\ i = Len(old) => \A k \in DOMAIN Builder!RemoveAt(old, i) : k \in DOMAIN old /\ Builder!RemoveAt(old, i)[k] = old[k]
  <2>1. i \in DOMAIN old
    BY <1>1
  <2>2. old \in Seq(Conditions)
    BY Zenon, <1>2
  <2> HIDE DEF old
  <2> QED BY <2>1, <2>2, Removed
<1>4. PICK cs : cs = Builder!RemoveAt(old, i)
  OBVIOUS
<1>5. PICK m : m = [builder.model EXCEPT !.conditions = cs]
  OBVIOUS
<1>6. m \in Models /\ m.conditions = cs
  <2>1. cs \in Seq(Conditions)
    BY <1>3, <1>4
  <2> QED BY <1>2, <1>5, <2>1 DEF Models
<1>7. Builder!Becomes(m, builder.touched, builder.moved \/ i # Len(old))
  BY Zenon, <1>1, <1>4, <1>5
<1>8. ~(builder.moved \/ i # Len(old)) => \A k \in DOMAIN m.conditions : m.conditions[k].value # "" => <<k, "value">> \in builder.touched
  BY Zenon, <1>3, <1>4, <1>6 DEF BuilderInv
<1> QED BY Zenon, <1>6, <1>7, <1>8, ChangeKeeps

LEMMA ConditionSet ==
  ASSUME BuilderConstants, BuilderInv, NEW i \in DOMAIN builder.model.conditions, NEW c \in Conditions, NEW field,
         Builder!Edited([builder.model EXCEPT !.conditions[i] = c], {<<i, field>>}), c.value # "" => field = "value"
  PROVE  BuilderInv'
<1> DEFINE old == builder.model.conditions
           new == [old EXCEPT ![i] = c]
<1>1. old \in Seq(Conditions)
  BY ModelIs
<1>2. new \in Seq(Conditions) /\ \A k \in DOMAIN new : k \in DOMAIN old /\ new[k] = IF k = i THEN c ELSE old[k]
  BY Zenon, <1>1, Replaced
<1>3. Builder!Edited([builder.model EXCEPT !.conditions = new], {<<i, field>>})
  OBVIOUS
<1>4. \A k \in DOMAIN new : \/ new[k].value # "" => <<k, "value">> \in {<<i, field>>}
                            \/ k \in DOMAIN old /\ new[k] = old[k]
  <2> HIDE DEF new, old
  <2> TAKE k \in DOMAIN new
  <2>1. CASE k = i
    <3>1. c.value # "" => <<k, "value">> = <<i, field>>
      BY Zenon, <2>1
    <3> QED BY Zenon, <1>2, <2>1, <3>1
  <2>2. CASE k # i
    BY Zenon, <1>2, <2>2
  <2> QED BY <2>1, <2>2
<1> HIDE DEF new
<1> QED BY Zenon, <1>2, <1>3, <1>4, ConditionsChange

\* The fields of a condition take names and choices of the schema.
LEMMA PropertiesAre ==
  ASSUME BuilderConstants, NEW s \in Schemas, NEW b
  PROVE  LET properties == Builder!getQueryBuilderProperties(s, b) IN
         /\ DOMAIN properties \subseteq SchemaWords \cup {"$identifier", "$tier"}
         /\ \A p \in DOMAIN properties : properties[p].enum \subseteq EnumTexts
<1> DEFINE properties == Builder!getQueryBuilderProperties(s, b)
           at == Builder!findBlueprint(s, b)
           ofShape == s.blueprints[at].properties
           scalars == {p \in DOMAIN ofShape : ofShape[p].type \in {"string", "number", "boolean"}}
<1>1. CASE at = Unset
  <2>1. properties = [p \in {} |-> Unset]
    BY Zenon, <1>1 DEF Builder!getQueryBuilderProperties
  <2> QED BY <2>1
<1>2. CASE at # Unset
  <2>1. properties = [p \in scalars \cup DOMAIN Builder!META_PROPERTIES |-> IF p \in scalars THEN ofShape[p] ELSE Builder!META_PROPERTIES[p]]
    BY Zenon, <1>2 DEF Builder!getQueryBuilderProperties
  <2>2. DOMAIN ofShape \subseteq SchemaWords /\ \A p \in DOMAIN ofShape : ofShape[p].enum \subseteq EnumTexts
    BY <1>2, BlueprintFound, SchemaNames
  <2>3. /\ DOMAIN Builder!META_PROPERTIES = {"$identifier", "$tier"}
        /\ \A p \in {"$identifier", "$tier"} : Builder!META_PROPERTIES[p].enum = {}
    BY Zenon DEF Builder!META_PROPERTIES
  <2>4. scalars \subseteq DOMAIN ofShape
    OBVIOUS
  <2> HIDE DEF scalars, ofShape
  <2>5. DOMAIN properties = scalars \cup {"$identifier", "$tier"}
    BY Zenon, <2>1, <2>3
  <2>6. ASSUME NEW p \in DOMAIN properties PROVE properties[p].enum \subseteq EnumTexts
    <3>1. CASE p \in scalars
      <4>1. properties[p] = ofShape[p]
        BY Zenon, <2>1, <3>1
      <4> QED BY Zenon, <4>1, <2>2, <2>4, <3>1
    <3>2. CASE p \notin scalars
      <4>1. p \in {"$identifier", "$tier"} /\ properties[p] = Builder!META_PROPERTIES[p]
        BY Zenon, <2>1, <2>5, <3>2, <2>6, <2>3
      <4> QED BY Zenon, <4>1, <2>3
    <3> QED BY <3>1, <3>2
  <2>7. DOMAIN properties \subseteq SchemaWords \cup {"$identifier", "$tier"} /\ \A p \in DOMAIN properties : properties[p].enum \subseteq EnumTexts
    <3> HIDE DEF properties
    <3> QED BY Zenon, <2>2, <2>4, <2>5, <2>6
  <2> QED BY <2>7
<1> QED BY <1>1, <1>2

LEMMA OperatorsAre == ASSUME NEW type PROVE Builder!getQueryBuilderOperators(type) \subseteq {"eq", "isNull", "isNotNull", "lt", "contains"}
<1>1. CASE type = "number"
  BY Zenon, <1>1 DEF Builder!getQueryBuilderOperators, Builder!NULL_OPERATORS
<1>2. CASE type = "boolean"
  BY Zenon, <1>2 DEF Builder!getQueryBuilderOperators, Builder!NULL_OPERATORS
<1>3. CASE type # "number" /\ type # "boolean"
  BY Zenon, <1>3 DEF Builder!getQueryBuilderOperators, Builder!NULL_OPERATORS
<1> QED BY <1>1, <1>2, <1>3

LEMMA ConditionKeeps == ASSUME BuilderConstants, BuilderInv, Builder!EditCondition PROVE BuilderInv'
<1> DEFINE properties == Builder!getQueryBuilderProperties(schema, builder.model.blueprint)
           isNamed(c) == c.property \in DOMAIN properties
           values(c) == IF isNamed(c) /\ properties[c.property].enum # {} THEN properties[c.property].enum \cup {""}
                        ELSE IF isNamed(c) /\ properties[c.property].type = "boolean" THEN {"true"} ELSE FieldTexts \cup {""}
<1>1. PICK i \in DOMAIN builder.model.conditions :
        LET c == builder.model.conditions[i] IN
        \/ \E p \in DOMAIN properties \cup {Unset} :
             Builder!Edited([builder.model EXCEPT !.conditions[i] = [property |-> p, operator |-> "eq", value |-> ""]], {<<i, "property">>})
        \/ \E o \in Builder!getQueryBuilderOperators(properties[c.property].type) :
             Builder!Edited([builder.model EXCEPT !.conditions[i] = [c EXCEPT !.operator = o, !.value = ""]], {<<i, "operator">>})
        \/ \E v \in values(c) : Builder!Edited([builder.model EXCEPT !.conditions[i] = [c EXCEPT !.value = v]], {<<i, "value">>})
  BY DEF Builder!EditCondition
<1> DEFINE c == builder.model.conditions[i]
<1>2. c \in Conditions
  BY ModelIs, ElementOfSeq, LenProperties
<1>3. schema \in Schemas
  BY DEF BuilderInv
<1>4. CASE \E p \in DOMAIN properties \cup {Unset} :
             Builder!Edited([builder.model EXCEPT !.conditions[i] = [property |-> p, operator |-> "eq", value |-> ""]], {<<i, "property">>})
  <2>0. PICK p \in DOMAIN properties \cup {Unset} : Builder!Edited([builder.model EXCEPT !.conditions[i] = [property |-> p, operator |-> "eq", value |-> ""]], {<<i, "property">>})
    BY <1>4
  <2>1. PICK new, field :
          /\ new = [property |-> p, operator |-> "eq", value |-> ""]
          /\ Builder!Edited([builder.model EXCEPT !.conditions[i] = new], {<<i, field>>})
    BY <2>0
  <2>2. p \in SchemaWords \cup {Unset, "$identifier", "$tier"}
    BY <1>3, PropertiesAre
  <2>3. new \in Conditions /\ new.value = ""
    BY <2>1, <2>2 DEF Conditions
  <2>4. new.value # "" => field = "value"
    BY Zenon, <2>3
  <2> QED BY Zenon, <2>1, <2>3, <2>4, ConditionSet
<1>5. CASE \E o \in Builder!getQueryBuilderOperators(properties[c.property].type) :
             Builder!Edited([builder.model EXCEPT !.conditions[i] = [c EXCEPT !.operator = o, !.value = ""]], {<<i, "operator">>})
  <2>0. PICK o \in Builder!getQueryBuilderOperators(properties[c.property].type) : Builder!Edited([builder.model EXCEPT !.conditions[i] = [c EXCEPT !.operator = o, !.value = ""]], {<<i, "operator">>})
    BY <1>5
  <2>1. PICK new, field :
          /\ new = [c EXCEPT !.operator = o, !.value = ""]
          /\ Builder!Edited([builder.model EXCEPT !.conditions[i] = new], {<<i, field>>})
    BY <2>0
  <2>2. o \in {"eq", "isNull", "isNotNull", "lt", "contains"}
    BY OperatorsAre
  <2>3. new \in Conditions /\ new.value = ""
    <3> HIDE DEF c
    <3> QED BY <1>2, <2>1, <2>2 DEF Conditions
  <2>4. new.value # "" => field = "value"
    BY Zenon, <2>3
  <2> QED BY Zenon, <2>1, <2>3, <2>4, ConditionSet
<1>6. CASE \E v \in values(c) : Builder!Edited([builder.model EXCEPT !.conditions[i] = [c EXCEPT !.value = v]], {<<i, "value">>})
  <2>0. PICK v \in values(c) : Builder!Edited([builder.model EXCEPT !.conditions[i] = [c EXCEPT !.value = v]], {<<i, "value">>})
    BY <1>6
  <2>1. PICK new, field :
          /\ new = [c EXCEPT !.value = v] /\ field = "value"
          /\ Builder!Edited([builder.model EXCEPT !.conditions[i] = new], {<<i, field>>})
    BY <2>0
  <2>2. v \in FieldTexts \cup EnumTexts \cup {"", "true"}
    <3>1. \A p \in DOMAIN properties : properties[p].enum \subseteq EnumTexts
      BY <1>3, PropertiesAre
    <3> HIDE DEF c, properties
    <3> QED BY Zenon, <3>1
  <2>3. new \in Conditions
    <3> HIDE DEF c
    <3> QED BY <1>2, <2>1, <2>2 DEF Conditions
  <2> QED BY Zenon, <2>1, <2>3, ConditionSet
<1> QED BY Zenon, <1>1, <1>4, <1>5, <1>6

\* The other fields leave the conditions as they are.
LEMMA OtherFieldKeeps ==
  ASSUME BuilderConstants, BuilderInv, NEW m \in Models, NEW fields, m.conditions = builder.model.conditions, Builder!Edited(m, fields)
  PROVE  BuilderInv'
<1>1. ~builder.moved => \A i \in DOMAIN m.conditions : m.conditions[i].value # "" => <<i, "value">> \in builder.touched \cup fields
  <2>1. ~builder.moved => \A i \in DOMAIN builder.model.conditions : builder.model.conditions[i].value # "" => <<i, "value">> \in builder.touched
    BY Zenon DEF BuilderInv
  <2> DEFINE old == builder.model.conditions
  <2>2. \A i \in DOMAIN old : <<i, "value">> \in builder.touched => <<i, "value">> \in builder.touched \cup fields
    OBVIOUS
  <2> HIDE DEF old
  <2>3. ~builder.moved => \A i \in DOMAIN old : old[i].value # "" => <<i, "value">> \in builder.touched \cup fields
    BY Zenon, <2>1, <2>2 DEF old
  <2>4. m.conditions = old
    BY DEF old
  <2> QED BY Zenon, <2>3, <2>4
<1> QED BY Zenon, <1>1, EditKeeps

LEMMA ConnectionSet ==
  ASSUME BuilderConstants, BuilderInv, NEW c \in Connections \cup {Unset}, NEW fields, Builder!Edited([builder.model EXCEPT !.connection = c], fields)
  PROVE  BuilderInv'
<1> DEFINE m == [builder.model EXCEPT !.connection = c]
<1>1. builder.model \in Models
  BY ModelIs
<1>2. m \in Models /\ m.conditions = builder.model.conditions
  BY <1>1 DEF Models
<1> HIDE DEF m
<1>3. Builder!Edited(m, fields)
  BY Zenon DEF m
<1> QED BY Zenon, <1>2, <1>3, OtherFieldKeeps

LEMMA NewConnection ==
  ASSUME BuilderConstants, NEW made \in {"relation", "ownership", "hierarchy"} PROVE Builder!connectionFor(made) \in Connections
  BY DEF Builder!connectionFor, Connections

LEMMA ToggleKeeps == ASSUME BuilderConstants, BuilderInv, Builder!ToggleConnection PROVE BuilderInv'
<1>1. CASE builder.model.connection = Unset
  <2>1. PICK fields : Builder!Edited([builder.model EXCEPT !.connection = Builder!connectionFor("relation")], fields)
    BY <1>1 DEF Builder!ToggleConnection
  <2>2. Builder!connectionFor("relation") \in Connections \cup {Unset}
    BY NewConnection
  <2> QED BY Zenon, <2>1, <2>2, ConnectionSet
<1>2. CASE builder.model.connection # Unset
  <2>1. PICK m, fields : m = [builder.model EXCEPT !.connection = Unset, !.returns = "start"] /\ Builder!Edited(m, fields)
    BY <1>2 DEF Builder!ToggleConnection
  <2>2. builder.model \in Models
    BY ModelIs
  <2>3. m \in Models /\ m.conditions = builder.model.conditions
    BY <2>1, <2>2 DEF Models
  <2> QED BY Zenon, <2>1, <2>3, OtherFieldKeeps
<1> QED BY <1>1, <1>2

LEMMA ResultsKeep == ASSUME BuilderConstants, BuilderInv, Builder!EditResults PROVE BuilderInv'
<1>0. builder.model \in Models
  BY ModelIs
<1>1. CASE \E r \in {"start", "target", "both"} : Builder!Edited([builder.model EXCEPT !.returns = r], {})
  <2>0. PICK r \in {"start", "target", "both"} : Builder!Edited([builder.model EXCEPT !.returns = r], {})
    BY <1>1
  <2>1. PICK m, fields : m = [builder.model EXCEPT !.returns = r] /\ Builder!Edited(m, fields)
    BY <2>0
  <2>2. m \in Models /\ m.conditions = builder.model.conditions
    BY <1>0, <2>1 DEF Models
  <2> QED BY Zenon, <2>1, <2>2, OtherFieldKeeps
<1>2. CASE \E n \in Limits : Builder!Edited([builder.model EXCEPT !.limit = n], {<<0, "limit">>})
  <2>0. PICK n \in Limits : Builder!Edited([builder.model EXCEPT !.limit = n], {<<0, "limit">>})
    BY <1>2
  <2>1. PICK m, fields : m = [builder.model EXCEPT !.limit = n] /\ Builder!Edited(m, fields)
    BY <2>0
  <2>2. m \in Models /\ m.conditions = builder.model.conditions
    BY <1>0, <2>1 DEF Models
  <2> QED BY Zenon, <2>1, <2>2, OtherFieldKeeps
<1> QED BY <1>1, <1>2 DEF Builder!EditResults

LEMMA ConnectionKeeps == ASSUME BuilderConstants, BuilderInv, Builder!EditConnection PROVE BuilderInv'
<1> DEFINE old == builder.model.connection
           blueprint == builder.model.blueprint
           relations == IF blueprint \in DOMAIN schema.blueprints THEN schema.blueprints[blueprint].relations ELSE [r \in {} |-> Unset]
<1>1. PICK c, fields :
        /\ Builder!Edited([builder.model EXCEPT !.connection = c], fields)
        /\ old # Unset
        /\ \/ \E made \in {"relation", "ownership", "hierarchy"} : c = Builder!connectionFor(made)
           \/ \E r \in DOMAIN relations \cup {Unset} :
                c = [old EXCEPT !.name = r, !.target = IF r = Unset THEN Unset ELSE relations[r], !.direction = "out", !.maxHops = 1]
           \/ \E d \in {"out", "in"} : c = [old EXCEPT !.direction = d, !.target = IF d = "in" THEN Unset ELSE "_team", !.identifier = FALSE]
           \/ \E h \in schema.hierarchies \cup {Unset} : c = [old EXCEPT !.name = h]
           \/ \E d \in {"out", "in"} : c = [old EXCEPT !.direction = d]
           \/ \E n \in Hops : c = [old EXCEPT !.maxHops = n]
           \/ \E b \in DOMAIN schema.blueprints \cup {Unset} : c = [old EXCEPT !.target = b, !.identifier = @ /\ b # Unset]
           \/ \E t \in BOOLEAN : c = [old EXCEPT !.identifier = t]
  BY Zenon DEF Builder!EditConnection
<1>2. old \in Connections /\ schema \in Schemas
  BY <1>1, ModelIs DEF BuilderInv
<1>3. /\ DOMAIN schema.blueprints \subseteq SchemaWords /\ schema.hierarchies \subseteq SchemaWords
      /\ \A r \in DOMAIN relations : r \in SchemaWords /\ relations[r] \in SchemaWords
  BY <1>2, SchemaNames
<1> HIDE DEF old, relations
<1>4. c \in Connections
  <2>1. ASSUME NEW made \in {"relation", "ownership", "hierarchy"}, c = Builder!connectionFor(made) PROVE c \in Connections
    BY <2>1, NewConnection
  <2>2. ASSUME NEW r \in DOMAIN relations \cup {Unset},
               c = [old EXCEPT !.name = r, !.target = IF r = Unset THEN Unset ELSE relations[r], !.direction = "out", !.maxHops = 1]
        PROVE  c \in Connections
    <3>1. r \in SchemaWords \cup {Unset} /\ (IF r = Unset THEN Unset ELSE relations[r]) \in SchemaWords \cup {Unset}
      BY <1>3
    <3> QED BY <1>2, <2>2, <3>1 DEF Connections
  <2>3. ASSUME NEW d \in {"out", "in"}, c = [old EXCEPT !.direction = d, !.target = IF d = "in" THEN Unset ELSE "_team", !.identifier = FALSE]
        PROVE  c \in Connections
    BY <1>2, <2>3 DEF Connections
  <2>4. ASSUME NEW h \in schema.hierarchies \cup {Unset}, c = [old EXCEPT !.name = h] PROVE c \in Connections
    BY <1>2, <1>3, <2>4 DEF Connections
  <2>5. ASSUME NEW d \in {"out", "in"}, c = [old EXCEPT !.direction = d] PROVE c \in Connections
    BY <1>2, <2>5 DEF Connections
  <2>6. ASSUME NEW n \in Hops, c = [old EXCEPT !.maxHops = n] PROVE c \in Connections
    BY <1>2, <2>6 DEF Connections
  <2>7. ASSUME NEW b \in DOMAIN schema.blueprints \cup {Unset}, c = [old EXCEPT !.target = b, !.identifier = @ /\ b # Unset]
        PROVE  c \in Connections
    BY <1>2, <1>3, <2>7 DEF Connections
  <2>8. ASSUME NEW t \in BOOLEAN, c = [old EXCEPT !.identifier = t] PROVE c \in Connections
    BY <1>2, <2>8 DEF Connections
  <2> QED BY Zenon, <1>1, <2>1, <2>2, <2>3, <2>4, <2>5, <2>6, <2>7, <2>8
<1>5. c \in Connections \cup {Unset}
  BY <1>4
<1> QED BY Zenon, <1>1, <1>5, ConnectionSet

LEMMA BuilderStep == ASSUME BuilderConstants, BuilderInv, [Builder!BuilderNext]_(Builder!builderVars) PROVE BuilderInv'
<1>1. CASE Builder!SchemaChanges
  <2>1. schema' \in Schemas /\ UNCHANGED builder /\ (worked' => worked \/ Builder!buildQuery(builder.model, schema').query # Unset)
    BY <1>1 DEF Builder!SchemaChanges
  <2> QED BY Zenon, <2>1 DEF BuilderInv
<1>2. CASE UNCHANGED Builder!builderVars
  BY Zenon, <1>2 DEF BuilderInv, Builder!builderVars
<1> QED BY <1>1, <1>2, PickKeeps, AddKeeps, ConditionKeeps, RemoveKeeps, ToggleKeeps, ConnectionKeeps, ResultsKeep DEF Builder!BuilderNext

\* A query on offer is accepted by the server over the schema of the page and means one
\* thing there; a query that only another schema takes away says why (buildQuery,
\* EntityQueryBuilderModal).
THEOREM BuilderOffersWhatIsAccepted == ASSUME BuilderConstants PROVE Builder!BuilderSpec => [](Builder!OffersAccepted /\ Builder!SaysWhy)
<1>1. Builder!BuilderInit => BuilderInv
  BY BuilderStarts
<1>2. BuilderInv /\ [Builder!BuilderNext]_(Builder!builderVars) => BuilderInv'
  BY BuilderStep
<1>3. BuilderInv => Builder!OffersAccepted /\ Builder!SaysWhy
  BY BuilderOffers, BuilderSaysWhy
<1> QED BY <1>1, <1>2, <1>3, PTL DEF Builder!BuilderSpec

-----------------------------------------------------------------------------
(* Registry modals *)

CONSTANTS Families, RegistryContents, MaxMounts, SheetWords

VARIABLES family, registry, modalList, modalTarget, typed, mount, submitting, problem, saves

Modals == INSTANCE RegistryModals WITH Contents <- RegistryContents, stored <- registry, target <- modalTarget, listed <- modalList

\* Forms of words, whichever can be typed.
Sheets == [key : SheetWords, items : Seq(SheetWords), kinds : SUBSET SheetWords]

ModalConstants == "" \in SheetWords /\ RegistryContents \subseteq Sheets

\* A save that is waited for is of the modal that is open; a body that was sent is well formed.
ModalInv ==
  /\ registry \in [Ids -> {None} \cup Sheets] /\ modalList \in [Ids -> {None} \cup Sheets]
  /\ typed \in Sheets /\ submitting \in BOOLEAN /\ mount \in Nat
  /\ submitting => modalTarget # None /\ \E s \in saves : s.mount = mount
  /\ \A s \in saves : s.body \in Sheets /\ Modals!WellFormed(s.body)

LEMMA BodiesAreSheets == ASSUME NEW sheet \in Sheets PROVE Modals!toBody(sheet) \in Sheets
<1>1. PICK items, kinds : /\ items = (IF Modals!HasItems THEN sheet.items ELSE <<>>)
                         /\ kinds = (IF Modals!HasKinds THEN sheet.kinds ELSE {})
  OBVIOUS
<1>2. Modals!toBody(sheet) = [sheet EXCEPT !.items = items, !.kinds = kinds]
  BY <1>1 DEF Modals!toBody
<1>3. items \in Seq(SheetWords) /\ kinds \in SUBSET SheetWords
  BY <1>1 DEF Sheets
<1> QED
  BY <1>2, <1>3 DEF Sheets

LEMMA BlankIsASheet == ASSUME ModalConstants PROVE Modals!Blank \in Sheets
<1>1. "" \in SheetWords
  BY DEF ModalConstants
<1>2. <<>> \in Seq(SheetWords) /\ {} \in SUBSET SheetWords
  OBVIOUS
<1> QED
  BY <1>1, <1>2 DEF Modals!Blank, Sheets

\* The modals count as these proofs do.
LEMMA SameCount == ASSUME NEW S PROVE Modals!Cardinality(S) = Cardinality(S)
  BY Zenon DEF Modals!Cardinality, Cardinality, Modals!IsFiniteSet, IsFiniteSet

LEMMA OneToOneCounts ==
  ASSUME NEW S, NEW n \in Nat, NEW f \in [1 .. n -> S],
         \A x \in S : \E i \in 1 .. n : f[i] = x, \A i, j \in 1 .. n : f[i] = f[j] => i = j
  PROVE  Cardinality(S) = n
<1>1. f \in Bijection(1 .. n, S)
  BY DEF Bijection, Injection, Surjection, IsInjective
<1>2. ExistsBijection(1 .. n, S)
  BY <1>1 DEF ExistsBijection
<1> QED
  BY <1>2, FS_CountingElements

\* No text is blank when folded.
Filled(items) == \A n \in DOMAIN items : Modals!Fold(items[n]) # ""

\* Texts that differ when folded, none of them blank, are as many as they are typed.
LEMMA UniqueTextsCount ==
  ASSUME NEW items \in Seq(SheetWords), Modals!Unique(items), Filled(items)
  PROVE  Cardinality({Modals!Fold(t) : t \in Modals!Range(items)} \ {""}) = Len(items)
<1> DEFINE folded == [n \in 1 .. Len(items) |-> Modals!Fold(items[n])]
           image == {Modals!Fold(t) : t \in Modals!Range(items)} \ {""}
<1>1. DOMAIN items = 1 .. Len(items) /\ Len(items) \in Nat
  BY LenProperties
<1>2. \A i, j \in 1 .. Len(items) : folded[i] = folded[j] => i = j
  BY <1>1 DEF Modals!Unique, Modals!IsInjective
<1>3. \A x : x \in image <=> \E n \in 1 .. Len(items) : folded[n] = x
  BY <1>1 DEF Modals!Range, Filled
<1>4. folded \in [1 .. Len(items) -> image] /\ \A x \in image : \E n \in 1 .. Len(items) : folded[n] = x
  BY <1>3
<1> HIDE DEF folded, image
<1>5. Cardinality(image) = Len(items)
  BY <1>1, <1>2, <1>4, OneToOneCounts
<1> QED
  BY <1>5 DEF image

\* The rules of the form are those of the server on the body it becomes.
LEMMA ValidIsWellFormed ==
  ASSUME NEW sheet \in Sheets, Modals!Valid(sheet)
  PROVE  Modals!WellFormed(Modals!toBody(sheet))
<1>1. PICK body : body = Modals!toBody(sheet)
  OBVIOUS
<1>2. body.key = sheet.key /\ (Modals!HasItems => body.items = sheet.items) /\ (Modals!HasKinds => body.kinds = sheet.kinds)
  BY <1>1 DEF Modals!toBody, Sheets
<1>3. body.key \notin {"", " "}
  BY <1>2 DEF Modals!Valid, Modals!keyRule, Modals!Fold
<1>4. Modals!HasKinds => body.kinds # {}
  BY <1>2 DEF Modals!Valid, Modals!kindsRule
<1>5. Modals!HasItems => body.items # <<>> /\ body.items \in Seq(SheetWords) /\ Modals!Unique(body.items)
  BY <1>2 DEF Modals!Valid, Modals!itemsRule, Sheets
<1>6. Modals!HasItems => Filled(body.items)
  BY <1>2, Zenon DEF Modals!Valid, Modals!itemsRule, Filled
<1>7. Modals!HasItems => Cardinality({Modals!Fold(t) : t \in Modals!Range(body.items)} \ {""}) = Len(body.items)
  BY <1>5, <1>6, UniqueTextsCount
<1>8. Modals!WellFormed(body)
  BY <1>3, <1>4, <1>5, <1>7, SameCount, Zenon DEF Modals!WellFormed
<1> QED
  BY <1>1, <1>8, Zenon

LEMMA ModalInvInit == ASSUME ModalConstants, Modals!ModalInit PROVE ModalInv
<1>1. \A c \in RegistryContents : Modals!toBody(c) \in Sheets
  BY BodiesAreSheets DEF ModalConstants
<1>2. registry \in [Ids -> {None} \cup Sheets]
  BY <1>1 DEF Modals!ModalInit
<1>3. Modals!Blank \in Sheets
  BY BlankIsASheet
<1> QED
  BY <1>2, <1>3 DEF Modals!ModalInit, ModalInv

\* Well-formedness is of a body and a family, and the family stays.
LEMMA ModalStepKeeps == ASSUME ModalConstants, ModalInv, [Modals!ModalNext]_Modals!modalVars PROVE ModalInv'
<1>1. UNCHANGED family
  BY DEF Modals!ModalNext, Modals!modalVars, Modals!Open, Modals!Type, Modals!Dismiss, Modals!save, Modals!Answered,
         Modals!Saved, Modals!Failed, Modals!Reread, Modals!Deleted
<1>2. ASSUME NEW body, Modals!WellFormed(body) PROVE Modals!WellFormed(body)'
  BY <1>1, <1>2 DEF Modals!WellFormed, Modals!HasItems, Modals!HasKinds
<1> HIDE DEF Modals!WellFormed
<1>3. Modals!Blank \in Sheets
  BY BlankIsASheet
<1>4. CASE Modals!Open
  <2>1. UNCHANGED <<registry, modalList, saves>> /\ submitting' = FALSE /\ mount' = mount + 1
    BY <1>4 DEF Modals!Open, Modals!Mounted
  <2>2. typed' \in Sheets
    <3>1. typed' = Modals!Blank \/ \E i \in Ids : modalList[i] # None /\ typed' = modalList[i]
      BY <1>4 DEF Modals!Open, Modals!Mounted, Modals!toFormValues
    <3> QED
      BY <1>3, <3>1 DEF ModalInv
  <2>3. mount' \in Nat
    BY <2>1 DEF ModalInv
  <2> QED
    BY <1>2, <2>1, <2>2, <2>3 DEF ModalInv
<1>5. CASE Modals!Type \/ Modals!Dismiss \/ UNCHANGED Modals!modalVars
  <2>1. UNCHANGED <<registry, modalList, mount, saves>>
    BY <1>5 DEF Modals!Type, Modals!Dismiss, Modals!modalVars
  <2>2. typed' \in Sheets
    BY <1>3, <1>5 DEF Modals!Type, Modals!Dismiss, Modals!Unmounted, Modals!modalVars, ModalInv, ModalConstants
  <2>3. submitting' = FALSE \/ (submitting' = submitting /\ modalTarget' = modalTarget)
    BY <1>5 DEF Modals!Type, Modals!Dismiss, Modals!Unmounted, Modals!modalVars
  <2>4. submitting' \in BOOLEAN /\ (submitting' => modalTarget' # None /\ \E s \in saves' : s.mount = mount')
    <3>1. CASE submitting' = FALSE
      BY <3>1
    <3>2. CASE submitting' = submitting /\ modalTarget' = modalTarget
      <4>1. submitting \in BOOLEAN /\ (submitting => modalTarget # None /\ \E s \in saves : s.mount = mount)
        BY DEF ModalInv
      <4> QED
        BY <2>1, <3>2, <4>1, Zenon
    <3> QED
      BY <2>3, <3>1, <3>2
  <2> QED
    BY <1>2, <2>1, <2>2, <2>4 DEF ModalInv
<1>6. CASE Modals!save
  <2>1. UNCHANGED <<registry, modalList, modalTarget, typed, mount>> /\ submitting' = TRUE /\ modalTarget # None /\ Modals!Valid(typed)
    BY <1>6 DEF Modals!save
  <2>2. PICK s : s = [id |-> modalTarget, body |-> Modals!toBody(typed), mount |-> mount]
    OBVIOUS
  <2>3. saves' = saves \cup {s}
    BY <1>6, <2>2 DEF Modals!save
  <2>4. s.mount = mount /\ s.body \in Sheets /\ Modals!WellFormed(s.body)
    BY <2>1, <2>2, BodiesAreSheets, ValidIsWellFormed DEF ModalInv
  <2> QED
    BY <1>2, <2>1, <2>3, <2>4 DEF ModalInv
<1>7. CASE Modals!Answered
  <2>1. PICK s \in saves : saves' = saves \ {s} /\ (Modals!Saved(s) \/ Modals!Failed(s))
    BY <1>7 DEF Modals!Answered
  <2>2. CASE Modals!Saved(s)
    BY <1>2, <1>3, <2>1, <2>2 DEF Modals!Saved, Modals!Unmounted, ModalInv
  <2>3. CASE Modals!Failed(s)
    <3>1. UNCHANGED <<registry, modalList, modalTarget, typed, mount>>
      BY <2>3 DEF Modals!Failed
    <3>2. IF s.mount = mount /\ modalTarget # None THEN submitting' = FALSE ELSE submitting' = submitting
      BY <2>3 DEF Modals!Failed
    <3> QED
      BY <1>2, <2>1, <3>1, <3>2 DEF ModalInv
  <2> QED
    BY <2>1, <2>2, <2>3
<1>8. CASE Modals!Reread \/ Modals!Deleted
  BY <1>2, <1>8 DEF Modals!Reread, Modals!Deleted, ModalInv
<1> QED
  BY <1>4, <1>5, <1>6, <1>7, <1>8 DEF Modals!ModalNext

\* A modal that waits does so for a save of its own, however many were dismissed before it, and
\* no save breaks a rule the server has for a row by itself (Labels, Tags, Types, Annotations).
THEOREM ModalsSendTheirOwn ==
  ASSUME ModalConstants PROVE Modals!ModalSpec => []Modals!SavesAreOwnAndWellFormed
<1>1. Modals!ModalInit => ModalInv
  BY ModalInvInit
<1>2. ModalInv /\ [Modals!ModalNext]_Modals!modalVars => ModalInv'
  BY ModalStepKeeps
<1>3. ModalInv => Modals!SavesAreOwnAndWellFormed
  BY DEF ModalInv, Modals!SavesAreOwnAndWellFormed
<1> QED
  BY <1>1, <1>2, <1>3, PTL DEF Modals!ModalSpec

-----------------------------------------------------------------------------
(* Tables *)

CONSTANTS Tables, RowIds, Sizes, Filters, MaxWritten

VARIABLES table, revisions, askable, query, answer, refused, deletion

Lists == INSTANCE ListPages WITH Ids <- RowIds, MaxRevision <- MaxWritten, stored <- revisions, data <- answer, failed <- refused, dialog <- deletion

\* A table that can be asked and says it is empty is saying what a server answered; one
\* that cannot be asked offers no row of what was read before (DataTable, useListPage).
LEMMA EmptyIsAnswered == Lists!EmptyIsAnAnswer
<1>1. ASSUME ~askable PROVE Lists!TableBody # "rows"
  BY <1>1 DEF Lists!TableBody, Lists!Shown, Lists!isLoading
<1>2. ASSUME Lists!TableBody = "empty", askable PROVE answer # None /\ answer.rows = <<>>
  <2>1. ~Lists!isLoading /\ ~refused
    BY <1>2 DEF Lists!TableBody
  <2>2. answer # None
    BY <2>1, <1>2 DEF Lists!isLoading
  <2>3. ~(Lists!Shown # None /\ Lists!Shown.rows # <<>>)
    BY <1>2, <2>1 DEF Lists!TableBody
  <2> QED BY <2>2, <2>3, <1>2 DEF Lists!Shown
<1> QED BY <1>1, <1>2 DEF Lists!EmptyIsAnAnswer

\* A catalog file goes by its page only at the revision the dialog shows, whatever was
\* written elsewhere since the row was listed (the delete of the files page).
LEMMA FilesGoAsSeen == Lists!DeletesAsSeen
  BY DEF Lists!DeletesAsSeen, Lists!Deleted, Lists!Accepts
=============================================================================
