----------------------------- MODULE WebSession -----------------------------
(***************************************************************************)
(* The session transport of the web client: one browser, several tabs.    *)
(* The tabs share localStorage (stored) and nothing else; each has its own *)
(* clear generation, its own single-flight refresh and its own query       *)
(* cache, and hears of another tab's sign-in or sign-out only when the     *)
(* storage event reaches it.  A session is named by its family, the "sid"  *)
(* claim both token generations carry; the tokens of a family are one      *)
(* value, since no check of the client tells two of them apart.            *)
(* A request is made once: it may be answered, be refused with a 401, wait *)
(* for a refresh, and be sent a second time.                               *)
(***************************************************************************)
EXTENDS Naturals, FiniteSets

CONSTANTS
    Tabs,        \* documents of the application open in one browser
    Requests,    \* the calls of authedFetch
    TabOf,       \* the tab that makes a request
    Families,    \* the sessions the server may open
    AccountOf,   \* the account of a session
    Flows,       \* bound: what the user of a tab starts in it
    MaxClears,   \* bound: a password is set in a tab that cleared less often
    None         \* no session, no request

ASSUME WebSessionAssumption ==
    /\ TabOf \in [Requests -> Tabs]
    /\ None \notin Families \cup Requests
    /\ MaxClears \in Nat
    /\ Flows \in [Tabs -> SUBSET {"login", "exchange", "logout", "password"}]

VARIABLES
    stored,   \* localStorage: the family whose tokens are stored, or None
    live,     \* the server: families whose refresh token it still accepts
    issued,   \* the server: families opened so far
    clearSessionGeneration,  \* per tab
    refreshInflight,         \* per tab: the request that leads the refresh
    seen,     \* per tab: the family its lifecycle listener last compared with
    events,   \* per tab: a storage event is on its way
    cache,    \* per tab: the families whose data the query cache holds
    req,      \* the calls of authedFetch
    flight,   \* per request: the refresh it leads
    flow      \* per tab: the sign-in, sign-out or reset under way

tabVars == <<clearSessionGeneration, refreshInflight, seen, events, cache>>
vars == <<stored, live, issued, tabVars, req, flight, flow>>

Boundary == [family : Families \cup {None}, clearGeneration : Nat]

NoBoundary == [family |-> None, clearGeneration |-> 0]

RequestRows == [pc : {"idle", "sent", "waiting", "retried", "done"}, owner : Boundary,
                token : Families \cup {None}, waitsFor : Requests \cup {None}, dropped : BOOLEAN]

FlightRows == [pc : {"none", "sent", "answered", "settled"}, owner : Boundary,
               outcome : {"none", "ok", "rejected", "unavailable"}, current : Boundary]

FlowSteps == {"none", "signIn", "tokens", "logout", "revoked", "password", "changed"}

FlowRows == [pc : FlowSteps, owner : Boundary, family : Families \cup {None}]

NoRequest == [pc |-> "idle", owner |-> NoBoundary, token |-> None, waitsFor |-> None, dropped |-> FALSE]
NoFlight == [pc |-> "none", owner |-> NoBoundary, outcome |-> "none", current |-> NoBoundary]
Done == [NoRequest EXCEPT !.pc = "done"]
NoFlow == [pc |-> "none", owner |-> NoBoundary, family |-> None]

Init ==
    /\ stored = None
    /\ live = {} /\ issued = {}
    /\ clearSessionGeneration = [t \in Tabs |-> 0]
    /\ refreshInflight = [t \in Tabs |-> None]
    /\ seen = [t \in Tabs |-> None]
    /\ events = [t \in Tabs |-> FALSE]
    /\ cache = [t \in Tabs |-> {}]
    /\ req = [r \in Requests |-> NoRequest]
    /\ flight = [r \in Requests |-> NoFlight]
    /\ flow = [t \in Tabs |-> NoFlow]
-----------------------------------------------------------------------------
(* The boundary a caller captures before it awaits, and checks after.      *)

SessionBoundary(t) == [family |-> stored, clearGeneration |-> clearSessionGeneration[t]]

\* Mutant: the families are not compared, so a sign-in of another tab is not
\* noticed.
SameGeneration(left, right) == left.clearGeneration = right.clearGeneration

SameSession(left, right) ==
    /\ left.clearGeneration = right.clearGeneration
    /\ left.family = right.family

OwnsCurrentSession(t, owner) == SameSession(owner, SessionBoundary(t))

\* setItem tells every other tab of the browser.
StorageEvents(t) == [u \in Tabs |-> events[u] \/ u # t]

\* clearSession, then (at each call site) notifyAuthChange, whose lifecycle
\* listener clears this tab's query cache; the answers of the queries under
\* way no longer enter it.
NotifyAuthChange(t) == cache' = [cache EXCEPT ![t] = {}]

Dropped(t, rows) ==
    [r \in Requests |-> IF TabOf[r] = t /\ rows[r].pc \in {"sent", "waiting", "retried"}
                          THEN [rows[r] EXCEPT !.dropped = TRUE] ELSE rows[r]]

ClearSession(t) ==
    /\ stored' = None
    /\ clearSessionGeneration' = [clearSessionGeneration EXCEPT ![t] = @ + 1]
    /\ events' = StorageEvents(t)

PersistSession(t, f) ==
    /\ stored' = f
    /\ events' = StorageEvents(t)
-----------------------------------------------------------------------------
(* authedFetch.                                                            *)

\* The pages that ask anything are behind RequireAuth, which re-renders when
\* the event of another tab's sign-out arrives.
SendWithToken(r) ==
    /\ req[r].pc = "idle"
    /\ stored # None \/ events[TabOf[r]]
    /\ req' = [req EXCEPT ![r] = [NoRequest EXCEPT !.pc = "sent", !.token = stored,
                                                   !.owner = SessionBoundary(TabOf[r])]]
    /\ UNCHANGED <<stored, live, issued, tabVars, flight, flow>>

\* An answer, or an error as the second 401 is: data enters the query cache
\* unless the cache was cleared since.
Answered(r, ok) ==
    /\ req[r].pc \in {"sent", "retried"}
    /\ req[r].token = None => ~ok
    /\ req' = [req EXCEPT ![r] = Done]
    /\ cache' = [cache EXCEPT ![TabOf[r]] = IF ok /\ ~req[r].dropped THEN @ \cup {req[r].token} ELSE @]
    /\ UNCHANGED <<stored, live, issued, clearSessionGeneration, refreshInflight, seen, events, flight, flow>>

Joins(t, owner) == refreshInflight[t] # None /\ SameSession(flight[refreshInflight[t]].owner, owner)

\* Without a refresh token the refusal is known at once, and no slot stays.
DoRefresh(r, owner) ==
    LET rejected == owner.family = None IN
    /\ flight' = [flight EXCEPT ![r] = [NoFlight EXCEPT !.owner = owner,
                                          !.pc = IF rejected THEN "settled" ELSE "sent",
                                          !.outcome = IF rejected THEN "rejected" ELSE "none"]]
    /\ refreshInflight' = [refreshInflight EXCEPT ![TabOf[r]] = IF rejected THEN None ELSE r]

Refresh(r, owner) ==
    LET t == TabOf[r] IN
    IF Joins(t, owner)
      THEN /\ req' = [req EXCEPT ![r].pc = "waiting", ![r].waitsFor = refreshInflight[t]]
           /\ UNCHANGED <<flight, refreshInflight>>
      ELSE /\ req' = [req EXCEPT ![r].pc = "waiting", ![r].waitsFor = r]
           /\ DoRefresh(r, owner)

\* A 401: a caller of a former session gets it as its error; any other waits
\* for one refresh of the session as it is now.
Unauthorized(r) ==
    /\ req[r].pc = "sent"
    /\ IF OwnsCurrentSession(TabOf[r], req[r].owner)
         THEN Refresh(r, SessionBoundary(TabOf[r]))
         ELSE /\ req' = [req EXCEPT ![r] = Done]
              /\ UNCHANGED <<flight, refreshInflight>>
    /\ UNCHANGED <<stored, live, issued, clearSessionGeneration, seen, events, cache, flow>>

\* The server renews the tokens of a live family and refuses those of any
\* other; a failure, a 429 or the deadline tells nothing.
RefreshAnswered(r, reply) ==
    /\ flight[r].pc = "sent"
    /\ reply = "ok" => flight[r].owner.family \in live
    /\ reply = "rejected" => flight[r].owner.family \notin live
    /\ flight' = [flight EXCEPT ![r].pc = "answered", ![r].outcome = reply]
    /\ UNCHANGED <<stored, live, issued, tabVars, req, flow>>

\* Mutant: the pair of a late refresh is stored without the second check.
RefreshSettlesUnchecked(r) ==
    /\ flight[r].pc = "answered"
    /\ flight' = [flight EXCEPT ![r].pc = "settled", ![r].current = SessionBoundary(TabOf[r])]
    /\ IF flight[r].outcome = "ok" THEN PersistSession(TabOf[r], flight[r].owner.family) ELSE UNCHANGED <<stored, events>>
    /\ refreshInflight' = [refreshInflight EXCEPT ![TabOf[r]] = IF @ = r THEN None ELSE @]
    /\ UNCHANGED <<live, issued, clearSessionGeneration, seen, cache, req, flow>>

\* The rest of doRefresh: an answer that reaches a tab after its session ended
\* decides nothing, whatever it says.
RefreshSettles(r) ==
    LET t == TabOf[r]
        late == ~OwnsCurrentSession(t, flight[r].owner) IN
    /\ flight[r].pc = "answered"
    /\ flight' = [flight EXCEPT
         ![r].pc = "settled",
         ![r].outcome = IF late THEN "unavailable" ELSE @,
         ![r].current = IF flight[r].outcome = "ok" THEN SessionBoundary(t) ELSE NoBoundary]
    /\ IF ~late /\ flight[r].outcome = "ok" THEN PersistSession(t, flight[r].owner.family)
                                            ELSE UNCHANGED <<stored, events>>
    /\ refreshInflight' = [refreshInflight EXCEPT ![t] = IF @ = r THEN None ELSE @]
    /\ UNCHANGED <<live, issued, clearSessionGeneration, seen, cache, req, flow>>

\* The three ends of the await in authedFetch.
RetriesWith(r, f) ==
    /\ f.outcome = "ok"
    /\ SameSession(req[r].owner, f.owner)
    /\ OwnsCurrentSession(TabOf[r], f.current)

\* Mutant: a refresh without an answer ends the session as a refusal does.
EndsOnFailure(r, f) ==
    /\ f.outcome # "ok"
    /\ SameSession(req[r].owner, f.owner)
    /\ OwnsCurrentSession(TabOf[r], f.owner)

EndsSession(r, f) ==
    /\ f.outcome = "rejected"
    /\ SameSession(req[r].owner, f.owner)
    /\ OwnsCurrentSession(TabOf[r], f.owner)

\* A settled refresh is forgotten with the last call that awaits it.
Awaited(r) == \E q \in Requests \ {r} : req[q].waitsFor = req[r].waitsFor

Resume(r) ==
    LET f == flight[req[r].waitsFor] IN
    /\ req[r].pc = "waiting" /\ f.pc = "settled"
    /\ \/ /\ RetriesWith(r, f)
          /\ req' = [req EXCEPT ![r] = [@ EXCEPT !.pc = "retried", !.token = f.owner.family, !.waitsFor = None]]
          /\ UNCHANGED <<stored, clearSessionGeneration, events, cache>>
       \/ /\ EndsSession(r, f)
          /\ ClearSession(TabOf[r])
          /\ NotifyAuthChange(TabOf[r])
          /\ req' = [Dropped(TabOf[r], req) EXCEPT ![r] = Done]
       \/ /\ ~RetriesWith(r, f) /\ ~EndsSession(r, f)
          /\ req' = [req EXCEPT ![r] = Done]
          /\ UNCHANGED <<stored, clearSessionGeneration, events, cache>>
    /\ flight' = [flight EXCEPT ![req[r].waitsFor] = IF Awaited(r) THEN @ ELSE NoFlight]
    /\ UNCHANGED <<live, issued, refreshInflight, seen, flow>>
-----------------------------------------------------------------------------
(* Signing in: the password form, its mailed code, and the exchange of the *)
(* hand-off an identity provider's callback carries.                       *)

Goes(t, from, to) == flow[t].pc = from /\ flow' = [flow EXCEPT ![t].pc = to]

\* The form is on screen while the tab knows of no session: RedirectIfAuthed
\* re-renders when the event of another tab's sign-in arrives.
LoginPageShown(t) == stored = None \/ events[t]

\* Neither step of the form captures a boundary.
SignIn(t) ==
    /\ "login" \in Flows[t] /\ LoginPageShown(t)
    /\ Goes(t, "none", "signIn")
    /\ UNCHANGED <<stored, live, issued, tabVars, req, flight>>

\* The round trip to the identity provider is a full page load: the tab's
\* memory is gone, with the calls that were under way, and the page that comes
\* back exchanges its code once, whoever has signed in by then.
StartSsoLogin(t) ==
    /\ "exchange" \in Flows[t] /\ LoginPageShown(t)
    /\ events' = [events EXCEPT ![t] = FALSE]
    /\ seen' = [seen EXCEPT ![t] = stored]
    /\ cache' = [cache EXCEPT ![t] = {}]
    /\ clearSessionGeneration' = [clearSessionGeneration EXCEPT ![t] = 0]
    /\ refreshInflight' = [refreshInflight EXCEPT ![t] = None]
    /\ req' = [r \in Requests |-> IF TabOf[r] = t /\ req[r].pc # "idle" THEN Done ELSE req[r]]
    /\ flight' = [r \in Requests |-> IF TabOf[r] = t THEN NoFlight ELSE flight[r]]
    /\ flow' = [flow EXCEPT ![t] = [NoFlow EXCEPT !.pc = "signIn"]]
    /\ UNCHANGED <<stored, live, issued>>

SignInRefused(t) ==
    /\ Goes(t, "signIn", "none")
    /\ UNCHANGED <<stored, live, issued, tabVars, req, flight>>

\* The server opens a session and answers with its tokens.
TokensIssued(t) ==
    /\ flow[t].pc = "signIn"
    /\ \E f \in Families \ issued :
         /\ issued' = issued \cup {f} /\ live' = live \cup {f}
         /\ flow' = [flow EXCEPT ![t].pc = "tokens", ![t].family = f]
    /\ UNCHANGED <<stored, tabVars, req, flight>>

\* persistSession, then finishSignIn's notifyAuthChange.
FinishSignIn(t) ==
    /\ flow[t].pc = "tokens"
    /\ PersistSession(t, flow[t].family)
    /\ NotifyAuthChange(t)
    /\ req' = Dropped(t, req)
    /\ flow' = [flow EXCEPT ![t] = NoFlow]
    /\ UNCHANGED <<live, issued, clearSessionGeneration, refreshInflight, seen, flight>>

-----------------------------------------------------------------------------
(* Signing out, and the end of a session from elsewhere.                   *)

Logout(t) ==
    /\ "logout" \in Flows[t] /\ flow[t].pc = "none" /\ stored # None
    /\ flow' = [flow EXCEPT ![t] = [pc |-> "logout", owner |-> SessionBoundary(t), family |-> stored]]
    /\ UNCHANGED <<stored, live, issued, tabVars, req, flight>>

\* The revoke is best effort.
Revoked(t) ==
    /\ Goes(t, "logout", "revoked")
    /\ live' \in {live, live \ {flow[t].family}}
    /\ UNCHANGED <<stored, issued, tabVars, req, flight>>

LogoutClears(t) == OwnsCurrentSession(t, flow[t].owner)

HandleSignOut(t) ==
    /\ flow[t].pc = "revoked"
    /\ IF LogoutClears(t) THEN ClearSession(t) ELSE UNCHANGED <<stored, clearSessionGeneration, events>>
    /\ NotifyAuthChange(t)
    /\ req' = Dropped(t, req)
    /\ flow' = [flow EXCEPT ![t] = NoFlow]
    /\ UNCHANGED <<live, issued, refreshInflight, seen, flight>>

\* The change of the own password and the reset by a mailed link: the server
\* ends every session of the account, and the page then clears whatever
\* session this browser stores by that time.
SetPassword(t) ==
    /\ "password" \in Flows[t] /\ clearSessionGeneration[t] < MaxClears
    /\ Goes(t, "none", "password")
    /\ UNCHANGED <<stored, live, issued, tabVars, req, flight>>

PasswordAccepted(t) ==
    /\ Goes(t, "password", "changed")
    /\ \E f \in Families : live' = {g \in live : AccountOf[g] # AccountOf[f]}
    /\ UNCHANGED <<stored, issued, tabVars, req, flight>>

PasswordRefused(t) ==
    /\ Goes(t, "password", "none")
    /\ UNCHANGED <<stored, live, issued, tabVars, req, flight>>

PasswordSet(t) ==
    /\ flow[t].pc = "changed"
    /\ ClearSession(t)
    /\ NotifyAuthChange(t)
    /\ req' = Dropped(t, req)
    /\ flow' = [flow EXCEPT ![t] = NoFlow]
    /\ UNCHANGED <<live, issued, refreshInflight, seen, flight>>

\* An administrator, another device, or expiry.
ServerEndsSession(f) ==
    /\ f \in live /\ live' = live \ {f}
    /\ UNCHANGED <<stored, issued, tabVars, req, flight, flow>>
-----------------------------------------------------------------------------
(* What a tab hears of the others.                                         *)

\* The listener compares with the family it last saw in a storage event or at
\* its subscription: it does not follow the sign-ins of its own tab.
StorageEvent(t) ==
    /\ events[t]
    /\ events' = [events EXCEPT ![t] = FALSE]
    /\ seen' = [seen EXCEPT ![t] = stored]
    /\ IF stored = seen[t] THEN UNCHANGED <<cache, req>>
                           ELSE NotifyAuthChange(t) /\ req' = Dropped(t, req)
    /\ UNCHANGED <<stored, live, issued, clearSessionGeneration, refreshInflight, flight, flow>>
-----------------------------------------------------------------------------
RequestStep(r) ==
    \/ SendWithToken(r)
    \/ \E ok \in BOOLEAN : Answered(r, ok)
    \/ Unauthorized(r)
    \/ \E reply \in {"ok", "rejected", "unavailable"} : RefreshAnswered(r, reply)
    \/ RefreshSettles(r) \/ Resume(r)

TabStep(t) ==
    \/ SignIn(t) \/ StartSsoLogin(t) \/ SignInRefused(t) \/ TokensIssued(t) \/ FinishSignIn(t)
    \/ Logout(t) \/ Revoked(t) \/ HandleSignOut(t)
    \/ SetPassword(t) \/ PasswordAccepted(t) \/ PasswordRefused(t) \/ PasswordSet(t)
    \/ StorageEvent(t)

Next ==
    \/ \E r \in Requests : RequestStep(r)
    \/ \E t \in Tabs : TabStep(t)
    \/ \E f \in Families : ServerEndsSession(f)

Spec == Init /\ [][Next]_vars
-----------------------------------------------------------------------------
TypeOK ==
    /\ stored \in Families \cup {None}
    /\ live \subseteq Families /\ issued \subseteq Families
    /\ clearSessionGeneration \in [Tabs -> Nat]
    /\ refreshInflight \in [Tabs -> Requests \cup {None}]
    /\ seen \in [Tabs -> Families \cup {None}]
    /\ events \in [Tabs -> BOOLEAN]
    /\ cache \in [Tabs -> SUBSET Families]
    /\ req \in [Requests -> RequestRows]
    /\ flight \in [Requests -> FlightRows]
    /\ flow \in [Tabs -> FlowRows]

InstalledBySignIn ==
    \E t \in Tabs : flow[t].pc = "tokens" /\ flow'[t].pc = "none" /\ stored' = flow[t].family

\* Only a sign-in that was just answered puts a session where there was none
\* or another: no refresh, however late its answer, brings back a session that
\* this or another tab has ended or replaced.
LateAnswersInstallNothing == [][stored' \in Families \ {stored} => InstalledBySignIn]_vars

EndedByRefusal ==
    \E r \in Requests : /\ req[r].pc = "waiting" /\ req'[r].pc = "done"
                        /\ req[r].owner.family = stored /\ stored \notin live

EndedBySignOut ==
    \E t \in Tabs : flow[t].pc = "revoked" /\ flow'[t].pc = "none" /\ flow[t].owner.family = stored

EndedByPassword ==
    \E t \in Tabs : flow[t].pc = "changed" /\ flow'[t].pc = "none"

\* Whatever empties the store does so for the session it was started for: a
\* refused refresh only when the server has ended that very session (never a
\* failure or a deadline), a sign-out only the session it revoked.  The change
\* and the reset of a password end whatever is stored.
EndsTheOwnSession ==
    [][(stored # None /\ stored' = None) => (EndedByRefusal \/ EndedBySignOut \/ EndedByPassword)]_vars

\* A call that is sent a second time still carries the session it was made in.
RetriesKeepTheirSession ==
    \A r \in Requests : req[r].pc = "retried" => req[r].token = req[r].owner.family /\ req[r].token # None

\* A tab that has handled its storage events holds nothing of another session
\* in its query cache while somebody is signed in.
CacheBelongsToTheSession ==
    \A t \in Tabs : ~events[t] /\ stored # None => cache[t] \subseteq {stored}

\* Sessions of one browser do not mix, whatever signs in or out in whichever tab:
\* no request of one account goes out with the tokens of another, and what one has
\* read is not shown to the next (http.ts, auth.tsx).
SessionsDoNotMix == RetriesKeepTheirSession /\ CacheBelongsToTheSession
=============================================================================
