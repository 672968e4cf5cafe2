---------------------------- MODULE AccountQueries ----------------------------
(***************************************************************************)
(* The entity query of the graph and hierarchy pages: the text in the bar, *)
(* and the text that narrows the page, kept per account in the storage of  *)
(* the browser and read through a snapshot that is only good for the       *)
(* account it was taken under.  The session may pass to another account,   *)
(* in another tab too, with the page open.                                 *)
(***************************************************************************)
EXTENDS Naturals

CONSTANTS Users, Texts, NoText, NoUser

VARIABLES user,        \* the account of the session
          storage,     \* per account, what the browser keeps: text, applied
          snapshot,    \* per key, the account it was taken under and the value
          known        \* per account, the texts it has put into the bar

queryVars == <<user, storage, snapshot, known>>

Keys == {"text", "applied"}

\* Nothing kept before accounts had their own keys is read; a stale pair may be kept.
QueryInit ==
  /\ user \in Users
  /\ storage \in [Users -> [Keys -> {NoText} \cup Texts]]
  /\ snapshot = [k \in Keys |-> <<user, storage[user][k]>>]
  /\ known = [u \in Users |-> {storage[u][k] : k \in Keys} \ {NoText}]

\* What the page renders: a snapshot of another account gives way to storage.
Read(k) == IF user = NoUser THEN NoText ELSE storage[user][k]

Value(k) == IF snapshot[k][1] = user THEN snapshot[k][2] ELSE Read(k)

Draft == Value("text")
Applied == IF Draft = NoText THEN NoText ELSE Value("applied")

\* The pages are only there in a session.  The keys are set together; a write to storage is best effort, key by key.
Set(values) ==
  /\ user # NoUser
  /\ snapshot' = [k \in Keys |-> IF k \in DOMAIN values THEN <<user, values[k]>> ELSE snapshot[k]]
  /\ \E lost \in SUBSET DOMAIN values :
       storage' = [storage EXCEPT ![user] = [k \in Keys |-> IF k \in DOMAIN values \ lost THEN values[k] ELSE storage[user][k]]]
  /\ known' = [known EXCEPT ![user] = @ \cup ({values[k] : k \in DOMAIN values} \ {NoText})]
  /\ UNCHANGED user

\* A blank draft with a text still applied: put right by an effect, before the next event.
StalePair == user # NoUser /\ Draft = NoText /\ Value("applied") # NoText
Normalize == StalePair /\ Set([k \in {"applied"} |-> NoText])

SetDraft ==
  /\ ~StalePair
  /\ \E x \in {NoText} \cup Texts :
       Set([k \in {"text"} \cup (IF x = NoText THEN {"applied"} ELSE {}) |-> x])

\* The Run button and its keys are off for a blank draft.
Run == ~StalePair /\ Draft # NoText /\ Set([k \in {"applied"} |-> Draft])

Clear == ~StalePair /\ (Draft # NoText \/ Applied # NoText) /\ Set([k \in {"text", "applied"} |-> NoText])

\* A saved query, or an action of the canvas, is run at once.
RunText == ~StalePair /\ \E x \in Texts : Set([k \in {"text", "applied"} |-> x])

\* Sign-in, sign-out, another account in another tab.
SwitchAccount ==
  /\ \E u \in (Users \cup {NoUser}) \ {user} : user' = u
  /\ UNCHANGED <<storage, snapshot, known>>

QueryNext == Normalize \/ SetDraft \/ Run \/ Clear \/ RunText \/ SwitchAccount

QuerySpec == QueryInit /\ [][QueryNext]_queryVars

-----------------------------------------------------------------------------
(* Properties *)

\* An account is shown, and asks with, nothing but texts it put into the bar itself.
StaysWithItsAccount ==
  \A x \in {Draft, Applied} \ {NoText} : user # NoUser /\ x \in known[user]

\* A page comes to be narrowed by another text only when that text is the one in the bar.
NarrowsByTheDraft == user' = user /\ Applied' # Applied /\ Applied' # NoText => Applied' = Draft'

=============================================================================
