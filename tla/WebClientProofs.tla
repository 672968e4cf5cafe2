--------------------------- MODULE WebClientProofs ---------------------------
(***************************************************************************)
(* Proofs about two parts of the web client: its session transport, for    *)
(* any number of tabs, requests and sessions, and the laws of its forms,   *)
(* for any texts.                                                          *)
(*                                                                         *)
(* The session: a family enters the store once, with the sign-in that was  *)
(* answered it, so a tab that compares the family it saw last with the one *)
(* stored now cannot mistake a later session for an earlier one; and what  *)
(* a tab's requests and its query cache hold, as far as they may still be  *)
(* used, belongs to the family stored.                                     *)
(*                                                                         *)
(* The forms: what a row may hold is split by its type, kind or input; the *)
(* rows of one identifier are one row, as those before it would repeat it. *)
(***************************************************************************)
EXTENDS WebSession, FiniteSetTheorems, SequenceTheorems, WellFoundedInduction, TLAPS

UnderWay(r) == req[r].pc \in {"sent", "waiting", "retried"}

\* A call carries the session it was made in, and waits for some refresh.
RequestInv(r) ==
    /\ UnderWay(r) => req[r].token = req[r].owner.family
    /\ req[r].pc = "waiting" => req[r].waitsFor \in Requests
    /\ req[r].pc = "retried" => req[r].token # None

\* A refresh is of a session that was opened; its verdict does not become untrue.
FlightInv(r) ==
    LET f == flight[r].owner.family IN
    /\ f \in issued \cup {None}
    /\ flight[r].outcome = "ok" => f \in Families
    /\ flight[r].outcome = "rejected" => f \notin live

\* The tokens a sign-in was answered are new to this browser.
TokensInv(t) ==
    flow[t].pc = "tokens" =>
        /\ flow[t].family \in issued /\ flow[t].family # stored
        /\ \A u \in Tabs : /\ seen[u] # flow[t].family
                           /\ u # t /\ flow[u].pc = "tokens" => flow[u].family # flow[t].family

\* What a tab may still show or fetch belongs to the session stored, if it has heard
\* of it or if what it has seen is that session.
TabInv(t) ==
    stored # None /\ (~events[t] \/ seen[t] = stored) =>
        /\ cache[t] \subseteq {stored}
        /\ \A r \in Requests :
             TabOf[r] = t /\ UnderWay(r) /\ ~req[r].dropped => req[r].owner.family = stored

SessionInv ==
    /\ TypeOK
    /\ live \subseteq issued
    /\ stored \in issued \cup {None} /\ \A t \in Tabs : seen[t] \in issued \cup {None}
    /\ \A r \in Requests : RequestInv(r) /\ FlightInv(r)
    /\ \A t \in Tabs : TokensInv(t) /\ TabInv(t)

-----------------------------------------------------------------------------
(* Types *)

LEMMA RowTypes ==
    ASSUME TypeOK
    PROVE  /\ \A t \in Tabs : SessionBoundary(t) \in Boundary
           /\ NoBoundary \in Boundary
           /\ NoRequest \in RequestRows /\ Done \in RequestRows
           /\ NoFlight \in FlightRows /\ NoFlow \in FlowRows
<1>1. NoBoundary \in Boundary
    BY DEF NoBoundary, Boundary
<1>2. \A t \in Tabs : SessionBoundary(t) \in Boundary
    BY DEF SessionBoundary, Boundary, TypeOK
<1>3. NoRequest \in RequestRows
    BY <1>1 DEF NoRequest, RequestRows
<1>4. Done \in RequestRows
    BY <1>3 DEF Done, RequestRows
<1>5. NoFlight \in FlightRows
    BY <1>1 DEF NoFlight, FlightRows
<1>6. NoFlow \in FlowRows
    BY <1>1 DEF NoFlow, FlowRows, FlowSteps
<1> QED
    BY <1>1, <1>2, <1>3, <1>4, <1>5, <1>6

LEMMA DroppedFacts ==
    ASSUME TypeOK, NEW t \in Tabs
    PROVE  /\ Dropped(t, req) \in [Requests -> RequestRows]
           /\ \A r \in Requests :
                LET row == Dropped(t, req)[r] IN
                /\ row.pc = req[r].pc /\ row.owner = req[r].owner /\ row.token = req[r].token
                /\ row.waitsFor = req[r].waitsFor
                /\ TabOf[r] # t => row = req[r]
                /\ TabOf[r] = t /\ UnderWay(r) => row.dropped
<1>1. \A r \in Requests : req[r] \in RequestRows
    BY DEF TypeOK
<1>2. \A r \in Requests : [req[r] EXCEPT !.dropped = TRUE] \in RequestRows
    BY <1>1 DEF RequestRows
<1> QED
    BY <1>1, <1>2 DEF Dropped, UnderWay, RequestRows

LEMMA StepTypes ==
    ASSUME TypeOK, NEW t \in Tabs
    PROVE  /\ StorageEvents(t) \in [Tabs -> BOOLEAN]
           /\ [cache EXCEPT ![t] = {}] \in [Tabs -> SUBSET Families]
           /\ [clearSessionGeneration EXCEPT ![t] = @ + 1] \in [Tabs -> Nat]
    BY DEF TypeOK, StorageEvents

\* A step of a flow only.
LEMMA GoesTypes ==
    ASSUME TypeOK, NEW t \in Tabs, NEW from, NEW to \in FlowSteps, Goes(t, from, to)
    PROVE  /\ flow' \in [Tabs -> FlowRows] /\ flow[t].pc = from
           /\ flow'[t].pc = to /\ flow'[t].owner = flow[t].owner /\ flow'[t].family = flow[t].family
           /\ \A u \in Tabs \ {t} : flow'[u] = flow[u]
<1>1. flow[t] \in FlowRows /\ flow \in [Tabs -> FlowRows]
    BY DEF TypeOK
<1>2. [flow[t] EXCEPT !.pc = to] \in FlowRows
    BY <1>1 DEF FlowRows
<1>3. flow' = [flow EXCEPT ![t] = [flow[t] EXCEPT !.pc = to]]
    BY DEF Goes
<1> QED
    BY <1>1, <1>2, <1>3 DEF Goes, FlowRows

-----------------------------------------------------------------------------
(* What most steps keep *)

Usable(r) == UnderWay(r) /\ ~req[r].dropped

\* A tab keeps its part while the store stands, its cache does not grow, and its calls
\* are those of before or are of the session stored.
LEMMA TabKeeps ==
    ASSUME SessionInv, NEW t \in Tabs, stored' = stored, seen'[t] = seen[t],
           ~events'[t] => ~events[t], cache'[t] \subseteq cache[t],
           \A r \in Requests : TabOf[r] = t /\ Usable(r)' =>
              \/ Usable(r) /\ req'[r].owner = req[r].owner
              \/ req'[r].owner.family = stored
    PROVE  TabInv(t)'
<1> SUFFICES ASSUME stored # None, ~events'[t] \/ seen'[t] = stored
             PROVE  /\ cache'[t] \subseteq {stored}
                    /\ \A r \in Requests : TabOf[r] = t /\ Usable(r)' => req'[r].owner.family = stored
    BY DEF TabInv, Usable
<1>1. /\ cache[t] \subseteq {stored}
      /\ \A r \in Requests : TabOf[r] = t /\ Usable(r) => req[r].owner.family = stored
    BY DEF SessionInv, TabInv, Usable
<1> QED
    BY <1>1

\* A tab that has just been cleared holds nothing of any session.
LEMMA TabCleared ==
    ASSUME NEW t \in Tabs, cache'[t] = {}, \A r \in Requests : TabOf[r] = t => ~Usable(r)'
    PROVE  TabInv(t)'
    BY DEF TabInv, Usable

LEMMA TokensKeep ==
    ASSUME SessionInv, issued \subseteq issued', stored' \in {stored, None},
           \A t \in Tabs : seen'[t] \in {seen[t], stored},
           \A t \in Tabs : flow'[t].pc = "tokens" => flow[t].pc = "tokens" /\ flow'[t].family = flow[t].family
    PROVE  \A t \in Tabs : TokensInv(t)'
<1> SUFFICES ASSUME NEW t \in Tabs, flow'[t].pc = "tokens"
             PROVE  /\ flow'[t].family \in issued' /\ flow'[t].family # stored'
                    /\ \A u \in Tabs : /\ seen'[u] # flow'[t].family
                                       /\ u # t /\ flow'[u].pc = "tokens" => flow'[u].family # flow'[t].family
    BY DEF TokensInv
<1>1. TokensInv(t) /\ flow[t].pc = "tokens" /\ flow'[t].family = flow[t].family
    BY DEF SessionInv
<1>2. flow[t].family # None
    BY <1>1, WebSessionAssumption DEF TokensInv, SessionInv, TypeOK
<1> QED
    BY <1>1, <1>2 DEF TokensInv

\* A family that is not live stays so: only one nobody has had is opened.
LEMMA FlightKeeps ==
    ASSUME SessionInv, issued \subseteq issued', live' \subseteq live \cup (issued' \ issued), issued' \subseteq Families,
           NEW r \in Requests, flight'[r] \in {flight[r], NoFlight}
    PROVE  FlightInv(r)'
<1>1. FlightInv(r) /\ None \notin issued' /\ live \subseteq issued
    BY WebSessionAssumption DEF SessionInv
<1>2. CASE flight'[r] = flight[r]
    BY <1>1, <1>2, WebSessionAssumption DEF FlightInv
<1>3. CASE flight'[r] = NoFlight
    BY <1>3 DEF NoFlight, NoBoundary, FlightInv
<1> QED
    BY <1>2, <1>3

\* Steps of the calls that leave the browser's storage and the tabs alone.
LEMMA CallStep ==
    ASSUME SessionInv, UNCHANGED <<stored, live, issued, clearSessionGeneration, seen, events, cache, flow>>,
           refreshInflight' \in [Tabs -> Requests \cup {None}],
           req' \in [Requests -> RequestRows], flight' \in [Requests -> FlightRows],
           \A q \in Requests : RequestInv(q)' /\ FlightInv(q)',
           \A q \in Requests : Usable(q)' => \/ Usable(q) /\ req'[q].owner = req[q].owner
                                             \/ req'[q].owner.family = stored
    PROVE  SessionInv'
<1>1. TypeOK'
    BY DEF SessionInv, TypeOK
<1>2. \A t \in Tabs : TokensInv(t)'
    BY TokensKeep
<1>3. \A t \in Tabs : TabInv(t)'
    BY TabKeeps
<1> QED
    BY <1>1, <1>2, <1>3 DEF SessionInv

-----------------------------------------------------------------------------
(* The calls *)

LEMMA SendStep ==
    ASSUME SessionInv, NEW r \in Requests, SendWithToken(r)
    PROVE  SessionInv'
<1> DEFINE row == [NoRequest EXCEPT !.pc = "sent", !.token = stored, !.owner = SessionBoundary(TabOf[r])]
<1>1. TabOf[r] \in Tabs /\ TypeOK
    BY WebSessionAssumption DEF SessionInv
<1>2. /\ row \in RequestRows /\ row.pc = "sent" /\ row.token = stored
      /\ row.owner = SessionBoundary(TabOf[r]) /\ row.owner.family = stored
    BY <1>1, RowTypes DEF NoRequest, RequestRows, TypeOK, SessionBoundary
<1>3. req' = [req EXCEPT ![r] = row] /\ UNCHANGED <<stored, live, issued, tabVars, flight, flow>>
    BY DEF SendWithToken
<1> HIDE DEF row
<1>4. req' \in [Requests -> RequestRows] /\ req'[r] = row /\ \A q \in Requests \ {r} : req'[q] = req[q]
    BY <1>1, <1>2, <1>3 DEF TypeOK
<1>5. \A q \in Requests : RequestInv(q)' /\ FlightInv(q)'
    BY <1>2, <1>3, <1>4 DEF SessionInv, RequestInv, FlightInv, UnderWay
<1>6. \A q \in Requests : Usable(q)' => \/ Usable(q) /\ req'[q].owner = req[q].owner
                                        \/ req'[q].owner.family = stored
    BY <1>2, <1>4 DEF Usable, UnderWay
<1> QED
    BY <1>1, <1>3, <1>4, <1>5, <1>6, CallStep DEF tabVars, TypeOK

LEMMA AnsweredStep ==
    ASSUME SessionInv, NEW r \in Requests, NEW ok \in BOOLEAN, Answered(r, ok)
    PROVE  SessionInv'
<1> DEFINE t == TabOf[r]
           more == IF ok /\ ~req[r].dropped THEN cache[t] \cup {req[r].token} ELSE cache[t]
<1>1. t \in Tabs /\ TypeOK /\ req[r] \in RequestRows /\ UnderWay(r) /\ RequestInv(r) /\ TabInv(t)
    BY WebSessionAssumption DEF SessionInv, TypeOK, Answered, UnderWay
<1>2. /\ req' = [req EXCEPT ![r] = Done] /\ cache' = [cache EXCEPT ![t] = more]
      /\ UNCHANGED <<stored, live, issued, clearSessionGeneration, refreshInflight, seen, events, flight, flow>>
      /\ req[r].token = None => ~ok
    BY DEF Answered
<1>3. more \in SUBSET Families
    BY <1>1, <1>2 DEF TypeOK, RequestRows
<1>4. stored # None /\ (~events[t] \/ seen[t] = stored) => more \subseteq {stored}
    BY <1>1 DEF TabInv, RequestInv
<1> HIDE DEF more
<1>5. /\ req' \in [Requests -> RequestRows] /\ req'[r].pc = "done" /\ \A q \in Requests \ {r} : req'[q] = req[q]
      /\ cache' \in [Tabs -> SUBSET Families] /\ cache'[t] = more /\ \A u \in Tabs \ {t} : cache'[u] = cache[u]
    BY <1>1, <1>2, <1>3, RowTypes DEF TypeOK, Done
<1>6. TypeOK'
    BY <1>2, <1>5 DEF SessionInv, TypeOK
<1>7. \A q \in Requests : RequestInv(q)' /\ FlightInv(q)'
    BY <1>2, <1>5 DEF SessionInv, RequestInv, FlightInv, UnderWay
<1>8. \A u \in Tabs : TokensInv(u)'
    BY <1>2, TokensKeep
<1>9. \A q \in Requests : UnderWay(q)' => UnderWay(q) /\ req'[q] = req[q]
    BY <1>5 DEF UnderWay
<1>10. \A u \in Tabs \ {t} : TabInv(u)'
    BY <1>2, <1>5, <1>9, TabKeeps DEF Usable
<1>11. TabInv(t)'
    BY <1>1, <1>2, <1>4, <1>5, <1>9 DEF TabInv
<1> QED
    BY <1>2, <1>6, <1>7, <1>8, <1>10, <1>11 DEF SessionInv

LEMMA UnauthorizedStep ==
    ASSUME SessionInv, NEW r \in Requests, Unauthorized(r)
    PROVE  SessionInv'
<1> DEFINE t == TabOf[r]
           owner == SessionBoundary(t)
<1>1. /\ t \in Tabs /\ TypeOK /\ req[r] \in RequestRows /\ UnderWay(r) /\ RequestInv(r) /\ req[r].pc = "sent"
      /\ owner \in Boundary /\ owner.family = stored /\ stored \in issued \cup {None}
    BY WebSessionAssumption, RowTypes DEF SessionInv, TypeOK, Unauthorized, UnderWay, SessionBoundary
<1>2. UNCHANGED <<stored, live, issued, clearSessionGeneration, seen, events, cache, flow>>
    BY DEF Unauthorized
<1>3. CASE req' = [req EXCEPT ![r] = Done] /\ UNCHANGED <<flight, refreshInflight>>
  <2>1. req' \in [Requests -> RequestRows] /\ req'[r].pc = "done" /\ \A q \in Requests \ {r} : req'[q] = req[q]
      BY <1>1, <1>3, RowTypes DEF TypeOK, Done
  <2>2. \A q \in Requests : RequestInv(q)' /\ FlightInv(q)'
      BY <1>2, <1>3, <2>1 DEF SessionInv, RequestInv, FlightInv, UnderWay
  <2>3. \A q \in Requests : Usable(q)' => Usable(q) /\ req'[q].owner = req[q].owner
      BY <2>1 DEF Usable, UnderWay
  <2> QED
      BY <1>1, <1>2, <1>3, <2>1, <2>2, <2>3, CallStep DEF TypeOK
<1>4. ASSUME NEW leads \in Requests, req' = [req EXCEPT ![r].pc = "waiting", ![r].waitsFor = leads]
      PROVE  /\ req' \in [Requests -> RequestRows]
             /\ \A q \in Requests : RequestInv(q)'
             /\ \A q \in Requests : Usable(q)' => Usable(q) /\ req'[q].owner = req[q].owner
  <2> DEFINE row == [req[r] EXCEPT !.pc = "waiting", !.waitsFor = leads]
  <2>1. /\ row \in RequestRows /\ row.pc = "waiting" /\ row.waitsFor = leads
        /\ row.owner = req[r].owner /\ row.token = req[r].token /\ row.dropped = req[r].dropped
      BY <1>1 DEF RequestRows
  <2>2. req' = [req EXCEPT ![r] = row]
      BY <1>1, <1>4 DEF TypeOK
  <2> HIDE DEF row
  <2>3. req' \in [Requests -> RequestRows] /\ req'[r] = row /\ \A q \in Requests \ {r} : req'[q] = req[q]
      BY <1>1, <2>1, <2>2 DEF TypeOK
  <2>4. RequestInv(r)'
      BY <1>1, <2>1, <2>3 DEF RequestInv, UnderWay
  <2>5. \A q \in Requests \ {r} : RequestInv(q)'
      BY <2>3 DEF SessionInv, RequestInv, UnderWay
  <2> QED
      BY <1>1, <2>1, <2>3, <2>4, <2>5 DEF Usable, UnderWay
<1>5. CASE Joins(t, owner) /\ Refresh(r, owner)
  <2>1. refreshInflight[t] \in Requests
      BY <1>1, <1>5 DEF Joins, TypeOK
  <2>2. /\ req' = [req EXCEPT ![r].pc = "waiting", ![r].waitsFor = refreshInflight[t]]
        /\ UNCHANGED <<flight, refreshInflight>>
      BY <1>5 DEF Refresh
  <2>3. \A q \in Requests : FlightInv(q)'
      BY <1>2, <2>2 DEF SessionInv, FlightInv
  <2> QED
      BY <1>1, <1>2, <1>4, <2>1, <2>2, <2>3, CallStep DEF TypeOK
<1>6. CASE ~Joins(t, owner) /\ Refresh(r, owner)
  <2> DEFINE rejected == owner.family = None
             lead == [NoFlight EXCEPT !.owner = owner, !.pc = IF rejected THEN "settled" ELSE "sent",
                                      !.outcome = IF rejected THEN "rejected" ELSE "none"]
  <2>1. /\ req' = [req EXCEPT ![r].pc = "waiting", ![r].waitsFor = r]
        /\ flight' = [flight EXCEPT ![r] = lead]
        /\ refreshInflight' = [refreshInflight EXCEPT ![t] = IF rejected THEN None ELSE r]
      BY <1>6 DEF Refresh, DoRefresh
  <2>2. /\ lead \in FlightRows /\ lead.owner = owner
        /\ lead.outcome = IF rejected THEN "rejected" ELSE "none"
      BY <1>1, RowTypes DEF NoFlight, FlightRows
  <2> HIDE DEF lead
  <2>3. flight' \in [Requests -> FlightRows] /\ flight'[r] = lead /\ \A q \in Requests \ {r} : flight'[q] = flight[q]
      BY <1>1, <2>1, <2>2 DEF TypeOK
  <2>4. refreshInflight' \in [Tabs -> Requests \cup {None}]
      BY <1>1, <2>1 DEF TypeOK
  <2>5. FlightInv(r)'
      BY <1>1, <1>2, <2>2, <2>3, WebSessionAssumption DEF FlightInv, SessionInv, TypeOK
  <2>6. \A q \in Requests : FlightInv(q)'
      BY <1>2, <2>3, <2>5 DEF SessionInv, FlightInv
  <2> QED
      BY <1>2, <1>4, <2>1, <2>3, <2>4, <2>6, CallStep
<1> QED
    BY <1>3, <1>5, <1>6 DEF Unauthorized

LEMMA RefreshAnsweredStep ==
    ASSUME SessionInv, NEW r \in Requests, NEW reply \in {"ok", "rejected", "unavailable"}, RefreshAnswered(r, reply)
    PROVE  SessionInv'
<1> DEFINE lead == [flight[r] EXCEPT !.pc = "answered", !.outcome = reply]
<1>1. TypeOK /\ flight[r] \in FlightRows /\ FlightInv(r)
    BY DEF SessionInv, TypeOK
<1>2. /\ lead \in FlightRows /\ lead.owner = flight[r].owner /\ lead.outcome = reply
    BY <1>1 DEF FlightRows
<1>3. flight' = [flight EXCEPT ![r] = lead] /\ UNCHANGED <<stored, live, issued, tabVars, req, flow>>
    BY <1>1 DEF RefreshAnswered, TypeOK
<1> HIDE DEF lead
<1>4. flight' \in [Requests -> FlightRows] /\ flight'[r] = lead /\ \A q \in Requests \ {r} : flight'[q] = flight[q]
    BY <1>1, <1>2, <1>3 DEF TypeOK
<1>5. FlightInv(r)'
    BY <1>1, <1>2, <1>3, <1>4 DEF FlightInv, RefreshAnswered, TypeOK
<1>6. \A q \in Requests : RequestInv(q)' /\ FlightInv(q)'
    BY <1>3, <1>4, <1>5 DEF SessionInv, RequestInv, FlightInv, UnderWay
<1>7. \A q \in Requests : Usable(q)' => Usable(q) /\ req'[q].owner = req[q].owner
    BY <1>3 DEF Usable, UnderWay
<1> QED
    BY <1>1, <1>3, <1>4, <1>6, <1>7, CallStep DEF tabVars, TypeOK

\* A refresh that settles in time renews the session that is stored, and no other.
LEMMA SettlesForTheStored ==
    ASSUME SessionInv, NEW r \in Requests, RefreshSettles(r)
    PROVE  /\ stored' = stored
           /\ events' \in [Tabs -> BOOLEAN] /\ \A u \in Tabs : ~events'[u] => ~events[u]
<1> DEFINE t == TabOf[r]
<1>1. t \in Tabs /\ TypeOK
    BY WebSessionAssumption DEF SessionInv
<1>2. CASE OwnsCurrentSession(t, flight[r].owner) /\ PersistSession(t, flight[r].owner.family)
  <2>1. flight[r].owner.family = stored
      BY <1>2 DEF OwnsCurrentSession, SameSession, SessionBoundary
  <2> QED
      BY <1>1, <1>2, <2>1 DEF PersistSession, StorageEvents, TypeOK
<1>3. CASE UNCHANGED <<stored, events>>
    BY <1>1, <1>3 DEF TypeOK
<1> QED
    BY <1>2, <1>3 DEF RefreshSettles

LEMMA RefreshSettlesStep ==
    ASSUME SessionInv, NEW r \in Requests, RefreshSettles(r)
    PROVE  SessionInv'
<1> DEFINE t == TabOf[r]
           late == ~OwnsCurrentSession(t, flight[r].owner)
           lead == [flight[r] EXCEPT !.pc = "settled", !.outcome = IF late THEN "unavailable" ELSE flight[r].outcome,
                                     !.current = IF flight[r].outcome = "ok" THEN SessionBoundary(t) ELSE NoBoundary]
<1>1. t \in Tabs /\ TypeOK /\ flight[r] \in FlightRows /\ FlightInv(r)
    BY WebSessionAssumption DEF SessionInv, TypeOK
<1>2. /\ flight' = [flight EXCEPT ![r] = lead]
      /\ refreshInflight' = [refreshInflight EXCEPT ![t] = IF @ = r THEN None ELSE @]
      /\ UNCHANGED <<live, issued, clearSessionGeneration, seen, cache, req, flow>>
    BY <1>1 DEF RefreshSettles, TypeOK
<1>3. /\ lead \in FlightRows /\ lead.owner = flight[r].owner
      /\ lead.outcome \in {flight[r].outcome, "unavailable"}
  <2>1. SessionBoundary(t) \in Boundary /\ NoBoundary \in Boundary
      BY <1>1, RowTypes
  <2> QED
      BY <1>1, <2>1 DEF FlightRows
<1> HIDE DEF lead
<1>4. flight' \in [Requests -> FlightRows] /\ flight'[r] = lead /\ \A q \in Requests \ {r} : flight'[q] = flight[q]
    BY <1>1, <1>2, <1>3 DEF TypeOK
<1>5. refreshInflight' \in [Tabs -> Requests \cup {None}]
    BY <1>1, <1>2 DEF TypeOK
<1>6. TypeOK'
    BY <1>1, <1>2, <1>4, <1>5, SettlesForTheStored DEF TypeOK
<1>7. FlightInv(r)'
    BY <1>1, <1>2, <1>3, <1>4 DEF FlightInv
<1>8. \A q \in Requests : RequestInv(q)' /\ FlightInv(q)'
    BY <1>2, <1>4, <1>7 DEF SessionInv, RequestInv, FlightInv, UnderWay
<1>9. \A u \in Tabs : TokensInv(u)'
    BY <1>2, SettlesForTheStored, TokensKeep
<1>10. \A u \in Tabs : TabInv(u)'
    BY <1>2, SettlesForTheStored, TabKeeps DEF Usable, UnderWay
<1> QED
    BY <1>2, <1>6, <1>8, <1>9, <1>10, SettlesForTheStored DEF SessionInv

\* What the end of a session in tab t changes, whoever ends it.
LEMMA ClearFacts ==
    ASSUME SessionInv, NEW t \in Tabs, ClearSession(t), NotifyAuthChange(t),
           UNCHANGED <<issued, seen>>,
           \A q \in Requests : UnderWay(q)' => UnderWay(q) /\ req'[q].owner = req[q].owner
    PROVE  /\ stored' = None /\ clearSessionGeneration' \in [Tabs -> Nat]
           /\ events' \in [Tabs -> BOOLEAN] /\ cache' \in [Tabs -> SUBSET Families]
           /\ \A u \in Tabs : TabInv(u)'
<1>1. /\ stored' = None /\ clearSessionGeneration' \in [Tabs -> Nat]
      /\ events' \in [Tabs -> BOOLEAN] /\ cache' \in [Tabs -> SUBSET Families]
    BY StepTypes DEF SessionInv, ClearSession, NotifyAuthChange
<1>2. \A u \in Tabs : TabInv(u)'
    BY <1>1 DEF TabInv
<1> QED
    BY <1>1, <1>2

LEMMA ResumeStep ==
    ASSUME SessionInv, NEW r \in Requests, Resume(r)
    PROVE  SessionInv'
<1> DEFINE t == TabOf[r]
           w == req[r].waitsFor
           f == flight[w]
<1>1. /\ t \in Tabs /\ TypeOK /\ req[r] \in RequestRows /\ RequestInv(r) /\ UnderWay(r)
      /\ w \in Requests /\ FlightInv(w) /\ req \in [Requests -> RequestRows]
    BY WebSessionAssumption DEF SessionInv, TypeOK, Resume, UnderWay, RequestInv
<1>2. UNCHANGED <<live, issued, refreshInflight, seen, flow>>
    BY DEF Resume
<1>3. flight' \in [Requests -> FlightRows] /\ \A q \in Requests : flight'[q] \in {flight[q], NoFlight}
  <2>1. flight' = [flight EXCEPT ![w] = IF Awaited(r) THEN @ ELSE NoFlight]
      BY DEF Resume
  <2> QED
      BY <1>1, <2>1, RowTypes DEF TypeOK
<1>4. \A q \in Requests : FlightInv(q)'
    BY <1>1, <1>2, <1>3, FlightKeeps DEF TypeOK
<1>5. CASE /\ RetriesWith(r, f)
           /\ req' = [req EXCEPT ![r] = [@ EXCEPT !.pc = "retried", !.token = f.owner.family, !.waitsFor = None]]
           /\ UNCHANGED <<stored, clearSessionGeneration, events, cache>>
  <2> DEFINE row == [req[r] EXCEPT !.pc = "retried", !.token = f.owner.family, !.waitsFor = None]
  <2>1. f.owner.family = req[r].owner.family /\ f.owner.family \in Families
      BY <1>1, <1>5 DEF RetriesWith, SameSession, FlightInv
  <2>2. /\ row \in RequestRows /\ row.pc = "retried" /\ row.token = f.owner.family
        /\ row.owner = req[r].owner /\ row.dropped = req[r].dropped
      BY <1>1, <2>1 DEF RequestRows
  <2>3. req' = [req EXCEPT ![r] = row]
      BY <1>5
  <2> HIDE DEF row
  <2>4. req' \in [Requests -> RequestRows] /\ req'[r] = row /\ \A q \in Requests \ {r} : req'[q] = req[q]
      BY <1>1, <2>2, <2>3
  <2>5. RequestInv(r)'
      BY <2>1, <2>2, <2>4, WebSessionAssumption DEF RequestInv, UnderWay
  <2>6. \A q \in Requests : RequestInv(q)'
      BY <2>4, <2>5 DEF SessionInv, RequestInv, UnderWay
  <2>7. \A q \in Requests : Usable(q)' => Usable(q) /\ req'[q].owner = req[q].owner
      BY <1>1, <2>2, <2>4 DEF Usable, UnderWay
  <2> QED
      BY <1>1, <1>2, <1>3, <1>4, <1>5, <2>4, <2>6, <2>7, CallStep DEF TypeOK
<1>6. CASE req' = [req EXCEPT ![r] = Done] /\ UNCHANGED <<stored, clearSessionGeneration, events, cache>>
  <2>1. req' \in [Requests -> RequestRows] /\ req'[r].pc = "done" /\ \A q \in Requests \ {r} : req'[q] = req[q]
      BY <1>1, <1>6, RowTypes DEF Done
  <2>2. \A q \in Requests : RequestInv(q)'
      BY <2>1 DEF SessionInv, RequestInv, UnderWay
  <2>3. \A q \in Requests : Usable(q)' => Usable(q) /\ req'[q].owner = req[q].owner
      BY <2>1 DEF Usable, UnderWay
  <2> QED
      BY <1>1, <1>2, <1>3, <1>4, <1>6, <2>1, <2>2, <2>3, CallStep DEF TypeOK
<1>7. CASE /\ EndsSession(r, f) /\ ClearSession(t) /\ NotifyAuthChange(t)
           /\ req' = [Dropped(t, req) EXCEPT ![r] = Done]
  <2>1. /\ req' \in [Requests -> RequestRows] /\ req'[r].pc = "done"
        /\ \A q \in Requests \ {r} : req'[q] = Dropped(t, req)[q]
      BY <1>1, <1>7, DroppedFacts, RowTypes DEF Done
  <2>2. \A q \in Requests \ {r} : /\ req'[q].pc = req[q].pc /\ req'[q].owner = req[q].owner
                                  /\ req'[q].token = req[q].token /\ req'[q].waitsFor = req[q].waitsFor
      BY <1>1, <2>1, DroppedFacts
  <2>3. \A q \in Requests : RequestInv(q)'
      BY <2>1, <2>2 DEF SessionInv, RequestInv, UnderWay
  <2>4. \A q \in Requests : UnderWay(q)' => UnderWay(q) /\ req'[q].owner = req[q].owner
      BY <2>1, <2>2 DEF UnderWay
  <2>5. /\ stored' = None /\ clearSessionGeneration' \in [Tabs -> Nat]
        /\ events' \in [Tabs -> BOOLEAN] /\ cache' \in [Tabs -> SUBSET Families]
        /\ \A u \in Tabs : TabInv(u)'
      BY <1>1, <1>2, <1>7, <2>4, ClearFacts
  <2>6. TypeOK'
      BY <1>1, <1>2, <1>3, <2>1, <2>5 DEF TypeOK
  <2>7. \A u \in Tabs : TokensInv(u)'
      BY <1>2, <2>5, TokensKeep
  <2> QED
      BY <1>2, <1>4, <2>3, <2>5, <2>6, <2>7 DEF SessionInv
<1> QED
    BY <1>5, <1>6, <1>7 DEF Resume

-----------------------------------------------------------------------------
(* The tabs *)

\* A step of a tab's flow that changes neither the store nor any tab nor any call.
LEMMA FlowStep ==
    ASSUME SessionInv, UNCHANGED <<stored, issued, tabVars, req, flight>>, live' \subseteq live,
           flow' \in [Tabs -> FlowRows],
           \A t \in Tabs : flow'[t].pc = "tokens" => flow[t].pc = "tokens" /\ flow'[t].family = flow[t].family
    PROVE  SessionInv'
<1> USE DEF tabVars
<1>1. TypeOK'
    BY DEF SessionInv, TypeOK
<1>2. \A q \in Requests : RequestInv(q)' /\ FlightInv(q)'
    BY DEF SessionInv, RequestInv, FlightInv, UnderWay
<1>3. \A t \in Tabs : TokensInv(t)'
    BY TokensKeep
<1>4. \A t \in Tabs : TabInv(t)'
    BY TabKeeps DEF Usable, UnderWay
<1> QED
    BY <1>1, <1>2, <1>3, <1>4 DEF SessionInv

LEMMA FlowSteps1 ==
    ASSUME SessionInv, NEW t \in Tabs,
           \/ SignIn(t) \/ SignInRefused(t) \/ Revoked(t)
           \/ SetPassword(t) \/ PasswordAccepted(t) \/ PasswordRefused(t)
    PROVE  SessionInv'
<1>1. PICK from \in FlowSteps, to \in {"none", "signIn", "revoked", "password", "changed"} : Goes(t, from, to)
    BY DEF SignIn, SignInRefused, Revoked, SetPassword, PasswordAccepted, PasswordRefused, FlowSteps
<1>2. /\ flow' \in [Tabs -> FlowRows] /\ flow'[t].pc = to
      /\ \A u \in Tabs \ {t} : flow'[u] = flow[u]
    BY <1>1, GoesTypes DEF SessionInv, FlowSteps
<1>3. UNCHANGED <<stored, issued, tabVars, req, flight>> /\ live' \subseteq live
    BY DEF SignIn, SignInRefused, Revoked, SetPassword, PasswordAccepted, PasswordRefused
<1>4. \A u \in Tabs : flow'[u].pc = "tokens" => flow[u].pc = "tokens" /\ flow'[u].family = flow[u].family
    BY <1>2
<1> QED
    BY <1>2, <1>3, <1>4, FlowStep

LEMMA LogoutStep ==
    ASSUME SessionInv, NEW t \in Tabs, Logout(t)
    PROVE  SessionInv'
<1> DEFINE row == [pc |-> "logout", owner |-> SessionBoundary(t), family |-> stored]
<1>1. row \in FlowRows
    BY RowTypes DEF SessionInv, TypeOK, FlowRows, FlowSteps
<1>2. flow' = [flow EXCEPT ![t] = row] /\ UNCHANGED <<stored, live, issued, tabVars, req, flight>>
    BY DEF Logout
<1>3. row.pc = "logout"
    OBVIOUS
<1> HIDE DEF row
<1>4. flow' \in [Tabs -> FlowRows] /\ flow'[t] = row /\ \A u \in Tabs \ {t} : flow'[u] = flow[u]
    BY <1>1, <1>2 DEF SessionInv, TypeOK
<1> QED
    BY <1>2, <1>3, <1>4, FlowStep

\* The server names a session nobody has had.
LEMMA TokensIssuedStep ==
    ASSUME SessionInv, NEW t \in Tabs, TokensIssued(t)
    PROVE  SessionInv'
<1>1. PICK f \in Families \ issued :
        /\ issued' = issued \cup {f} /\ live' = live \cup {f}
        /\ flow' = [flow EXCEPT ![t].pc = "tokens", ![t].family = f]
    BY DEF TokensIssued
<1> DEFINE row == [flow[t] EXCEPT !.pc = "tokens", !.family = f]
<1>2. TypeOK /\ flow[t] \in FlowRows /\ UNCHANGED <<stored, tabVars, req, flight>>
    BY DEF SessionInv, TypeOK, TokensIssued
<1>3. row \in FlowRows /\ row.pc = "tokens" /\ row.family = f
    BY <1>2 DEF FlowRows, FlowSteps
<1>4. flow' = [flow EXCEPT ![t] = row]
    BY <1>1, <1>2 DEF TypeOK
<1> HIDE DEF row
<1>5. flow' \in [Tabs -> FlowRows] /\ flow'[t] = row /\ \A u \in Tabs \ {t} : flow'[u] = flow[u]
    BY <1>2, <1>3, <1>4 DEF TypeOK
<1>6. TypeOK' /\ live' \subseteq issued' /\ issued' \subseteq Families
    BY <1>1, <1>2, <1>5 DEF SessionInv, TypeOK, tabVars
<1>7. \A q \in Requests : RequestInv(q)'
    BY <1>2 DEF SessionInv, RequestInv, UnderWay
<1>8. \A q \in Requests : FlightInv(q)'
    BY <1>1, <1>2, <1>6, FlightKeeps
<1>9. \A u \in Tabs : TabInv(u)'
    BY <1>2, TabKeeps DEF Usable, UnderWay, tabVars
<1>10. stored \in issued \cup {None} /\ \A u \in Tabs : seen[u] \in issued \cup {None}
    BY DEF SessionInv
<1>11. f # None
    BY WebSessionAssumption
<1>12. ASSUME NEW u \in Tabs PROVE TokensInv(u)'
  <2>1. CASE u = t
    <3>1. \A v \in Tabs \ {t} : flow[v].pc = "tokens" => flow[v].family \in issued
        BY DEF SessionInv, TokensInv
    <3> QED
        BY <1>1, <1>2, <1>3, <1>5, <1>10, <1>11, <2>1, <3>1 DEF TokensInv, tabVars
  <2>2. CASE u # t
    <3>1. TokensInv(u) /\ flow'[u] = flow[u]
        BY <1>5, <2>2 DEF SessionInv
    <3> QED
        BY <1>1, <1>2, <1>3, <1>5, <2>2, <3>1 DEF TokensInv, tabVars
  <2> QED
      BY <2>1, <2>2
<1> QED
    BY <1>1, <1>2, <1>6, <1>7, <1>8, <1>9, <1>10, <1>12 DEF SessionInv, tabVars

LEMMA ServerEndsStep ==
    ASSUME SessionInv, NEW f \in Families, ServerEndsSession(f)
    PROVE  SessionInv'
<1>1. UNCHANGED <<stored, issued, tabVars, req, flight>> /\ live' \subseteq live /\ flow' = flow
    BY DEF ServerEndsSession
<1> QED
    BY <1>1, FlowStep DEF SessionInv, TypeOK

\* A page load leaves the tab nothing to mix up.
LEMMA StartSsoStep ==
    ASSUME SessionInv, NEW t \in Tabs, StartSsoLogin(t)
    PROVE  SessionInv'
<1> DEFINE row == [NoFlow EXCEPT !.pc = "signIn"]
<1>1. /\ UNCHANGED <<stored, live, issued>>
      /\ events' = [events EXCEPT ![t] = FALSE] /\ seen' = [seen EXCEPT ![t] = stored]
      /\ cache' = [cache EXCEPT ![t] = {}]
      /\ clearSessionGeneration' = [clearSessionGeneration EXCEPT ![t] = 0]
      /\ refreshInflight' = [refreshInflight EXCEPT ![t] = None]
      /\ req' = [r \in Requests |-> IF TabOf[r] = t /\ req[r].pc # "idle" THEN Done ELSE req[r]]
      /\ flight' = [r \in Requests |-> IF TabOf[r] = t THEN NoFlight ELSE flight[r]]
      /\ flow' = [flow EXCEPT ![t] = row]
    BY DEF StartSsoLogin
<1>2. row \in FlowRows /\ row.pc = "signIn"
    BY RowTypes DEF SessionInv, NoFlow, FlowRows, FlowSteps
<1> HIDE DEF row
<1>3. TypeOK'
    BY <1>1, <1>2, RowTypes DEF SessionInv, TypeOK
<1>4. Done.pc = "done"
    BY DEF Done, NoRequest
<1>5. \A q \in Requests : RequestInv(q)'
    BY <1>1, <1>4 DEF SessionInv, RequestInv, UnderWay
<1>6. \A q \in Requests : FlightInv(q)'
    BY <1>1, FlightKeeps DEF SessionInv, TypeOK
<1>7. \A u \in Tabs : TokensInv(u)'
  <2>1. \A u \in Tabs : flow'[u].pc = "tokens" => flow[u].pc = "tokens" /\ flow'[u].family = flow[u].family
      BY <1>1, <1>2 DEF SessionInv, TypeOK
  <2>2. \A u \in Tabs : seen'[u] \in {seen[u], stored}
      BY <1>1 DEF SessionInv, TypeOK
  <2> QED
      BY <1>1, <2>1, <2>2, TokensKeep
<1>8. \A q \in Requests : /\ TabOf[q] = t => ~Usable(q)'
                          /\ TabOf[q] # t => req'[q] = req[q]
    BY <1>1, <1>4 DEF Usable, UnderWay
<1>9. TabInv(t)'
    BY <1>1, <1>8, TabCleared DEF SessionInv, TypeOK
<1>10. \A u \in Tabs \ {t} : TabInv(u)'
    BY <1>1, <1>8, TabKeeps DEF SessionInv, TypeOK, Usable, UnderWay
<1> QED
    BY <1>1, <1>3, <1>5, <1>6, <1>7, <1>9, <1>10 DEF SessionInv, TypeOK

\* The calls of the tab that clears its cache are dropped, and those of the others stay.
LEMMA DropsAll ==
    ASSUME SessionInv, NEW t \in Tabs, req' = Dropped(t, req)
    PROVE  /\ req' \in [Requests -> RequestRows]
           /\ \A q \in Requests : RequestInv(q)'
           /\ \A q \in Requests : UnderWay(q)' => UnderWay(q) /\ req'[q].owner = req[q].owner
           /\ \A q \in Requests : TabOf[q] = t => ~Usable(q)'
           /\ \A q \in Requests : TabOf[q] # t => req'[q] = req[q]
<1>1. /\ req' \in [Requests -> RequestRows]
      /\ \A q \in Requests : /\ req'[q].pc = req[q].pc /\ req'[q].owner = req[q].owner
                             /\ req'[q].token = req[q].token /\ req'[q].waitsFor = req[q].waitsFor
                             /\ TabOf[q] # t => req'[q] = req[q]
                             /\ TabOf[q] = t /\ UnderWay(q) => req'[q].dropped
    BY DroppedFacts DEF SessionInv
<1>2. \A q \in Requests : RequestInv(q)'
    BY <1>1 DEF SessionInv, RequestInv, UnderWay
<1> QED
    BY <1>1, <1>2 DEF Usable, UnderWay

\* The family of a sign-in is new to every other tab, and its own is cleared.
LEMMA FinishSignInStep ==
    ASSUME SessionInv, NEW t \in Tabs, FinishSignIn(t)
    PROVE  SessionInv'
<1> DEFINE f == flow[t].family
<1>1. /\ stored' = f /\ events' = StorageEvents(t) /\ cache' = [cache EXCEPT ![t] = {}]
      /\ req' = Dropped(t, req) /\ flow' = [flow EXCEPT ![t] = NoFlow] /\ flow[t].pc = "tokens"
      /\ UNCHANGED <<live, issued, clearSessionGeneration, refreshInflight, seen, flight>>
    BY DEF FinishSignIn, PersistSession, NotifyAuthChange
<1>2. TypeOK /\ TokensInv(t) /\ f \in issued
    BY <1>1 DEF SessionInv, TokensInv
<1>3. TypeOK'
    BY <1>1, <1>2, DropsAll, StepTypes, RowTypes DEF TypeOK
<1>4. \A q \in Requests : RequestInv(q)' /\ FlightInv(q)'
    BY <1>1, DropsAll DEF SessionInv, FlightInv
<1>5. NoFlow.pc = "none"
    BY DEF NoFlow
<1>6. ASSUME NEW u \in Tabs PROVE TokensInv(u)'
  <2>1. CASE u = t
      BY <1>1, <1>2, <1>5, <2>1 DEF TokensInv, TypeOK
  <2>2. CASE u # t
    <3>1. TokensInv(u) /\ flow'[u] = flow[u]
        BY <1>1, <2>2 DEF SessionInv, TypeOK
    <3>2. \A v \in Tabs \ {t} : flow'[v] = flow[v]
        BY <1>1 DEF SessionInv, TypeOK
    <3>3. flow[u].pc = "tokens" => flow[u].family # f
        BY <1>1, <1>2, <2>2 DEF TokensInv
    <3>4. flow'[t].pc = "none"
        BY <1>1, <1>2, <1>5 DEF TypeOK
    <3> QED
        BY <1>1, <3>1, <3>2, <3>3, <3>4 DEF TokensInv
  <2> QED
      BY <2>1, <2>2
<1>7. TabInv(t)'
    BY <1>1, <1>2, DropsAll, TabCleared DEF TypeOK
<1>8. ASSUME NEW u \in Tabs \ {t} PROVE TabInv(u)'
  <2>1. events'[u] /\ seen'[u] # stored'
      BY <1>1, <1>2 DEF StorageEvents, TokensInv
  <2> QED
      BY <2>1 DEF TabInv
<1> QED
    BY <1>1, <1>2, <1>3, <1>4, <1>6, <1>7, <1>8 DEF SessionInv

LEMMA HandleSignOutStep ==
    ASSUME SessionInv, NEW t \in Tabs, HandleSignOut(t) \/ PasswordSet(t)
    PROVE  SessionInv'
<1>1. /\ ClearSession(t) \/ UNCHANGED <<stored, clearSessionGeneration, events>>
      /\ NotifyAuthChange(t) /\ req' = Dropped(t, req) /\ flow' = [flow EXCEPT ![t] = NoFlow]
      /\ UNCHANGED <<live, issued, refreshInflight, seen, flight>>
    BY DEF HandleSignOut, PasswordSet
<1>2. TypeOK /\ flow' \in [Tabs -> FlowRows] /\ flow'[t].pc = "none" /\ \A u \in Tabs \ {t} : flow'[u] = flow[u]
  <2>1. NoFlow \in FlowRows /\ NoFlow.pc = "none"
      BY RowTypes DEF SessionInv, NoFlow
  <2> QED
      BY <1>1, <2>1 DEF SessionInv, TypeOK
<1>3. \A u \in Tabs : flow'[u].pc = "tokens" => flow[u].pc = "tokens" /\ flow'[u].family = flow[u].family
    BY <1>2
<1>4. \A q \in Requests : RequestInv(q)' /\ FlightInv(q)'
    BY <1>1, DropsAll DEF SessionInv, FlightInv
<1>5. CASE ClearSession(t)
  <2>1. /\ stored' = None /\ clearSessionGeneration' \in [Tabs -> Nat]
        /\ events' \in [Tabs -> BOOLEAN] /\ cache' \in [Tabs -> SUBSET Families]
        /\ \A u \in Tabs : TabInv(u)'
      BY <1>1, <1>5, DropsAll, ClearFacts
  <2>2. TypeOK'
      BY <1>1, <1>2, <2>1, DropsAll DEF TypeOK
  <2>3. \A u \in Tabs : TokensInv(u)'
      BY <1>1, <1>3, <2>1, TokensKeep
  <2> QED
      BY <1>1, <1>4, <2>1, <2>2, <2>3 DEF SessionInv
<1>6. CASE UNCHANGED <<stored, clearSessionGeneration, events>>
  <2>1. cache' = [cache EXCEPT ![t] = {}]
      BY <1>1 DEF NotifyAuthChange
  <2>2. TypeOK'
      BY <1>1, <1>2, <1>6, <2>1, DropsAll DEF TypeOK
  <2>3. \A u \in Tabs : TokensInv(u)'
      BY <1>1, <1>3, <1>6, TokensKeep
  <2>4. TabInv(t)'
      BY <1>1, <1>2, <2>1, DropsAll, TabCleared DEF TypeOK
  <2>5. \A u \in Tabs \ {t} : TabInv(u)'
      BY <1>1, <1>2, <1>6, <2>1, DropsAll, TabKeeps DEF TypeOK, Usable, UnderWay
  <2> QED
      BY <1>1, <1>4, <1>6, <2>2, <2>3, <2>4, <2>5 DEF SessionInv
<1> QED
    BY <1>1, <1>5, <1>6

\* A tab that saw this very session last needs no clearing; any other is cleared.
LEMMA StorageEventStep ==
    ASSUME SessionInv, NEW t \in Tabs, StorageEvent(t)
    PROVE  SessionInv'
<1>1. /\ events' = [events EXCEPT ![t] = FALSE] /\ seen' = [seen EXCEPT ![t] = stored]
      /\ UNCHANGED <<stored, live, issued, clearSessionGeneration, refreshInflight, flight, flow>>
    BY DEF StorageEvent
<1>2. TypeOK
    BY DEF SessionInv
<1>3. \A u \in Tabs : TokensInv(u)'
    BY <1>1, <1>2, TokensKeep DEF TypeOK
<1>4. CASE stored = seen[t] /\ UNCHANGED <<cache, req>>
  <2>1. TypeOK'
      BY <1>1, <1>2, <1>4 DEF TypeOK
  <2>2. \A q \in Requests : RequestInv(q)' /\ FlightInv(q)'
      BY <1>1, <1>4 DEF SessionInv, RequestInv, FlightInv, UnderWay
  <2>3. TabInv(t)'
      BY <1>1, <1>4 DEF SessionInv, TabInv, UnderWay
  <2>4. \A u \in Tabs \ {t} : TabInv(u)'
      BY <1>1, <1>2, <1>4, TabKeeps DEF TypeOK, Usable, UnderWay
  <2> QED
      BY <1>1, <1>2, <1>3, <2>1, <2>2, <2>3, <2>4 DEF SessionInv, TypeOK
<1>5. CASE NotifyAuthChange(t) /\ req' = Dropped(t, req)
  <2>1. cache' = [cache EXCEPT ![t] = {}]
      BY <1>5 DEF NotifyAuthChange
  <2>2. TypeOK'
      BY <1>1, <1>2, <1>5, <2>1, DropsAll DEF TypeOK
  <2>3. \A q \in Requests : RequestInv(q)' /\ FlightInv(q)'
      BY <1>1, <1>5, DropsAll DEF SessionInv, FlightInv
  <2>4. TabInv(t)'
      BY <1>2, <1>5, <2>1, DropsAll, TabCleared DEF TypeOK
  <2>5. \A u \in Tabs \ {t} : TabInv(u)'
      BY <1>1, <1>2, <1>5, <2>1, DropsAll, TabKeeps DEF TypeOK, Usable, UnderWay
  <2> QED
      BY <1>1, <1>2, <1>3, <2>2, <2>3, <2>4, <2>5 DEF SessionInv, TypeOK
<1> QED
    BY <1>4, <1>5 DEF StorageEvent

-----------------------------------------------------------------------------
LEMMA InvInit == Init => SessionInv
<1> SUFFICES ASSUME Init PROVE SessionInv
    OBVIOUS
<1> USE DEF Init
<1>1. NoBoundary \in Boundary
    BY DEF NoBoundary, Boundary
<1>2. NoRequest \in RequestRows /\ NoRequest.pc = "idle"
    BY <1>1 DEF NoRequest, RequestRows
<1>3. NoFlight \in FlightRows /\ NoFlight.outcome = "none" /\ NoFlight.owner.family = None
    BY <1>1 DEF NoFlight, FlightRows, NoBoundary
<1>4. NoFlow \in FlowRows /\ NoFlow.pc = "none"
    BY <1>1 DEF NoFlow, FlowRows, FlowSteps
<1>5. TypeOK
    BY <1>2, <1>3, <1>4 DEF TypeOK
<1>6. \A q \in Requests : RequestInv(q) /\ FlightInv(q)
    BY <1>2, <1>3 DEF RequestInv, FlightInv, UnderWay
<1>7. \A t \in Tabs : TokensInv(t) /\ TabInv(t)
    BY <1>4 DEF TokensInv, TabInv
<1> QED
    BY <1>5, <1>6, <1>7 DEF SessionInv

LEMMA InvStep == SessionInv /\ [Next]_vars => SessionInv'
<1>1. ASSUME SessionInv, NEW r \in Requests, RequestStep(r) PROVE SessionInv'
    BY <1>1, SendStep, AnsweredStep, UnauthorizedStep, RefreshAnsweredStep, RefreshSettlesStep, ResumeStep
       DEF RequestStep
<1>2. ASSUME SessionInv, NEW t \in Tabs, TabStep(t) PROVE SessionInv'
    BY <1>2, FlowSteps1, LogoutStep, TokensIssuedStep, StartSsoStep, FinishSignInStep, HandleSignOutStep,
       StorageEventStep DEF TabStep
<1>3. ASSUME SessionInv, UNCHANGED vars PROVE SessionInv'
  <2>1. UNCHANGED <<stored, issued, tabVars, req, flight>> /\ live' \subseteq live /\ flow' = flow
      BY <1>3 DEF vars
  <2> QED
      BY <1>3, <2>1, FlowStep DEF SessionInv, TypeOK
<1> QED
    BY <1>1, <1>2, <1>3, ServerEndsStep DEF Next

LEMMA Invariant == Spec => []SessionInv
    BY InvInit, InvStep, PTL DEF Spec

\* Sessions of one browser do not mix, whatever signs in or out in whichever tab: no
\* request goes out a second time with the tokens of another session, and a tab that
\* has heard of the session stored caches nothing of another (http.ts authedFetch,
\* auth.tsx's lifecycle listener).
THEOREM NoMixing == Spec => []SessionsDoNotMix
<1>1. SessionInv => SessionsDoNotMix
  <2> SUFFICES ASSUME SessionInv PROVE SessionsDoNotMix
      OBVIOUS
  <2>1. RetriesKeepTheirSession
      BY DEF SessionInv, RequestInv, UnderWay, RetriesKeepTheirSession
  <2>2. CacheBelongsToTheSession
      BY DEF SessionInv, TabInv, CacheBelongsToTheSession
  <2> QED
      BY <2>1, <2>2 DEF SessionsDoNotMix
<1> QED
    BY <1>1, Invariant, PTL

-----------------------------------------------------------------------------
(* Who changes the store *)

\* A refused refresh ends the session it was for, which the server has ended.
LEMMA RefusalEnds ==
    ASSUME SessionInv, NEW r \in Requests, Resume(r), stored' # stored
    PROVE  stored' = None /\ EndedByRefusal
<1> DEFINE f == flight[req[r].waitsFor]
<1>1. EndsSession(r, f) /\ stored' = None /\ req'[r] = Done /\ req[r].pc = "waiting"
  <2>1. EndsSession(r, f) /\ ClearSession(TabOf[r]) /\ req' = [Dropped(TabOf[r], req) EXCEPT ![r] = Done]
      BY DEF Resume
  <2>2. Dropped(TabOf[r], req) \in [Requests -> RequestRows]
      BY WebSessionAssumption, DroppedFacts DEF SessionInv
  <2> QED
      BY <2>1, <2>2 DEF Resume, ClearSession
<1>2. req[r].waitsFor \in Requests
    BY <1>1 DEF SessionInv, RequestInv
<1>3. f.owner.family \notin live
    BY <1>1, <1>2 DEF SessionInv, FlightInv, EndsSession
<1>4. f.owner.family = stored /\ req[r].owner.family = stored
    BY <1>1 DEF EndsSession, OwnsCurrentSession, SameSession, SessionBoundary
<1>5. req'[r].pc = "done"
    BY <1>1 DEF Done, NoRequest
<1> QED
    BY <1>1, <1>3, <1>4, <1>5 DEF EndedByRefusal

LEMMA StoreChanges ==
    ASSUME SessionInv, [Next]_vars, stored' # stored
    PROVE  \/ InstalledBySignIn
           \/ stored' = None /\ (EndedByRefusal \/ EndedBySignOut \/ EndedByPassword)
<1>1. Next
    BY DEF vars
<1>2. ASSUME NEW r \in Requests, RequestStep(r) PROVE stored' = None /\ EndedByRefusal
  <2>1. Resume(r)
      BY <1>2, SettlesForTheStored DEF RequestStep, SendWithToken, Answered, Unauthorized, RefreshAnswered
  <2> QED
      BY <2>1, RefusalEnds
<1>3. ASSUME NEW t \in Tabs, TabStep(t)
      PROVE  \/ InstalledBySignIn
             \/ stored' = None /\ (EndedBySignOut \/ EndedByPassword)
  <2>1. FinishSignIn(t) \/ HandleSignOut(t) \/ PasswordSet(t)
      BY <1>3 DEF TabStep, SignIn, StartSsoLogin, SignInRefused, TokensIssued, Logout, Revoked,
                  SetPassword, PasswordAccepted, PasswordRefused, StorageEvent
  <2>2. flow' = [flow EXCEPT ![t] = NoFlow] /\ flow \in [Tabs -> FlowRows] /\ NoFlow.pc = "none"
      BY <2>1 DEF FinishSignIn, HandleSignOut, PasswordSet, NoFlow, SessionInv, TypeOK
  <2>3. flow'[t].pc = "none"
      BY <2>2
  <2>4. CASE FinishSignIn(t)
      BY <2>3, <2>4 DEF FinishSignIn, PersistSession, InstalledBySignIn
  <2>5. CASE HandleSignOut(t)
    <3>1. LogoutClears(t) /\ stored' = None /\ flow[t].pc = "revoked"
        BY <2>5 DEF HandleSignOut, ClearSession
    <3>2. flow[t].owner.family = stored
        BY <3>1 DEF LogoutClears, OwnsCurrentSession, SameSession, SessionBoundary
    <3> QED
        BY <2>3, <3>1, <3>2 DEF EndedBySignOut
  <2>6. CASE PasswordSet(t)
      BY <2>3, <2>6 DEF PasswordSet, ClearSession, EndedByPassword
  <2> QED
      BY <2>1, <2>4, <2>5, <2>6
<1>4. ~ \E f \in Families : ServerEndsSession(f)
    BY DEF ServerEndsSession
<1> QED
    BY <1>1, <1>2, <1>3, <1>4 DEF Next

\* No late answer brings back a session: whatever another tab did meanwhile, a refresh
\* renews the session that is stored or stores nothing (http.ts doRefresh).
THEOREM OnlySignInsInstall == Spec => LateAnswersInstallNothing
<1>1. ASSUME SessionInv, [Next]_vars PROVE [stored' \in Families \ {stored} => InstalledBySignIn]_vars
  <2>1. None \notin Families
      BY WebSessionAssumption
  <2> QED
      BY <1>1, <2>1, StoreChanges
<1> QED
    BY <1>1, Invariant, PTL DEF Spec, LateAnswersInstallNothing

\* Whatever empties the store does so for the session it was started for: a refusal only
\* when the server has ended that very session, a sign-out only the one it revoked
\* (http.ts authedFetch, auth.tsx handleSignOut).
THEOREM SessionsEndOnPurpose == Spec => EndsTheOwnSession
<1>1. ASSUME SessionInv, [Next]_vars
      PROVE  [(stored # None /\ stored' = None) => (EndedByRefusal \/ EndedBySignOut \/ EndedByPassword)]_vars
  <2> SUFFICES ASSUME stored # None, stored' = None
               PROVE  EndedByRefusal \/ EndedBySignOut \/ EndedByPassword
      OBVIOUS
  <2>1. \A t \in Tabs : flow[t].pc = "tokens" => flow[t].family \in Families
      BY <1>1 DEF SessionInv, TypeOK, TokensInv
  <2>2. ~InstalledBySignIn
      BY <2>1, WebSessionAssumption DEF InstalledBySignIn
  <2> QED
      BY <1>1, <2>2, StoreChanges
<1> QED
    BY <1>1, Invariant, PTL DEF Spec, EndsTheOwnSession

-----------------------------------------------------------------------------
(* The form of a blueprint *)

\* The texts of the forms.
CONSTANTS TrimmedText, LowerText, NumberOf, ParsedText, SchemaTexts, Identifiers, Patterns, Formatted,
          FileNames, FileNamespaces, LabelKeys, EntityRefs, TagNames, SingleWords, Uris

BlueprintPage == INSTANCE BlueprintForm
EntityPage == INSTANCE EntityForm
CatalogPage == INSTANCE CatalogForm

\* The families of a form are sequences of rows.
RowFamilies(values, Rows) == \A k \in DOMAIN BlueprintPage!ROW_FAMILIES : values[BlueprintPage!ROW_FAMILIES[k]] \in Seq(Rows)

\* A row is at a place of one of the five families.
LEMMA FamilyRows ==
  ASSUME NEW values, NEW Rows, RowFamilies(values, Rows), NEW r \in BlueprintPage!RowsOf(values)
  PROVE  /\ r \in Nat \X Nat /\ r = <<r[1], r[2]>>
         /\ r[1] \in 1 .. 5 /\ r[2] \in DOMAIN values[BlueprintPage!ROW_FAMILIES[r[1]]]
         /\ BlueprintPage!Family(r) \in BlueprintPage!PropertyFamilies \cup {"relations"}
<1>1. PICK k \in DOMAIN BlueprintPage!ROW_FAMILIES : r \in {k} \X DOMAIN values[BlueprintPage!ROW_FAMILIES[k]]
  BY DEF BlueprintPage!RowsOf
<1>2. k \in 1 .. 5
  BY DEF BlueprintPage!ROW_FAMILIES
<1>3. values[BlueprintPage!ROW_FAMILIES[k]] \in Seq(Rows)
  BY DEF RowFamilies
<1>4. DOMAIN values[BlueprintPage!ROW_FAMILIES[k]] \subseteq Nat
  BY <1>3, LenProperties
<1>5. BlueprintPage!ROW_FAMILIES[k] \in BlueprintPage!PropertyFamilies \cup {"relations"}
  BY <1>2 DEF BlueprintPage!ROW_FAMILIES, BlueprintPage!PropertyFamilies
<1> QED
  BY <1>1, <1>2, <1>4, <1>5 DEF BlueprintPage!Family

LEMMA RowsAreOrdered ==
  ASSUME NEW r, NEW s, r[1] \in Nat, r[2] \in Nat, s[1] \in Nat, s[2] \in Nat, r[1] # s[1] \/ r[2] # s[2]
  PROVE  BlueprintPage!Before(r, s) \/ BlueprintPage!Before(s, r)
  BY DEF BlueprintPage!Before

LEMMA RowFamilyNumbers == DOMAIN BlueprintPage!ROW_FAMILIES = 1 .. 5 /\ \A k \in 1 .. 5 : k <= k /\ (k = 1 \/ k = 2 \/ k = 3 \/ k = 4 \/ k = 5)
  BY DEF BlueprintPage!ROW_FAMILIES

LEMMA PropertyFamilyNumbers ==
  ASSUME NEW f \in BlueprintPage!PropertyFamilies
  PROVE  f # "relations" /\ \E k \in 1 .. 5 : f = BlueprintPage!ROW_FAMILIES[k]
<1>1. /\ BlueprintPage!ROW_FAMILIES[1] = "properties" /\ BlueprintPage!ROW_FAMILIES[3] = "mirrorProperties"
      /\ BlueprintPage!ROW_FAMILIES[4] = "calculationProperties" /\ BlueprintPage!ROW_FAMILIES[5] = "aggregationProperties"
  BY DEF BlueprintPage!ROW_FAMILIES
<1> QED BY <1>1 DEF BlueprintPage!PropertyFamilies

LEMMA RelationsAreAFamily == \A values : \E k \in 1 .. 5 : values.relations = values[BlueprintPage!ROW_FAMILIES[k]]
<1>1. BlueprintPage!ROW_FAMILIES[2] = "relations" /\ 2 \in 1 .. 5
  BY DEF BlueprintPage!ROW_FAMILIES
<1> QED BY <1>1

LEMMA PlacesAreNumbers == ASSUME NEW S, NEW rows \in Seq(S) PROVE DOMAIN rows \subseteq Nat
  BY LenProperties

LEMMA AtMostItself == \A n \in Nat : n <= n
  OBVIOUS

LEMMA SameCardinality == \A S : BlueprintPage!Cardinality(S) = Cardinality(S)
  BY DEF BlueprintPage!Cardinality, Cardinality

\* A row of a form that may be submitted has an identifier no row before it has.
LEMMA RowsHaveIds ==
  ASSUME NEW values, "" \notin Identifiers, BlueprintPage!Submits(values), NEW q \in BlueprintPage!RowsOf(values)
  PROVE  /\ BlueprintPage!Id(BlueprintPage!Draft(values, q)) # ""
         /\ BlueprintPage!Family(q) = "relations" => ~BlueprintPage!isDuplicateRelationId(values, q)
         /\ BlueprintPage!Family(q) # "relations" => ~BlueprintPage!isDuplicatePropertyId(values, q)
<1> DEFINE id == BlueprintPage!Id(BlueprintPage!Draft(values, q))
           repeated == IF BlueprintPage!Family(q) = "relations" THEN BlueprintPage!isDuplicateRelationId(values, q) ELSE BlueprintPage!isDuplicatePropertyId(values, q)
<1>1. BlueprintPage!RowIssues(values, q) = {}
  BY DEF BlueprintPage!Submits, BlueprintPage!rowsWithErrors
<1>2. BlueprintPage!Optional(id \notin Identifiers \/ repeated, "id") = {}
  BY <1>1 DEF BlueprintPage!RowIssues
<1> QED BY <1>2 DEF BlueprintPage!Optional

\* No two rows of a family have one identifier, nor have two of the families of properties.
LEMMA RowsHaveTheirOwnIds ==
  ASSUME NEW values, NEW Rows, RowFamilies(values, Rows), "" \notin Identifiers, BlueprintPage!Submits(values),
         NEW r \in BlueprintPage!RowsOf(values), NEW s \in BlueprintPage!RowsOf(values), r # s,
         BlueprintPage!Family(r) = "relations" <=> BlueprintPage!Family(s) = "relations"
  PROVE  BlueprintPage!Id(BlueprintPage!Draft(values, r)) # BlueprintPage!Id(BlueprintPage!Draft(values, s))
<1> DEFINE Id(q) == BlueprintPage!Id(BlueprintPage!Draft(values, q))
<1>1. BlueprintPage!Before(r, s) \/ BlueprintPage!Before(s, r)
  <2>1. r \in Nat \X Nat /\ r = <<r[1], r[2]>> /\ s \in Nat \X Nat /\ s = <<s[1], s[2]>>
    BY FamilyRows
  <2>2. r[1] # s[1] \/ r[2] # s[2]
    BY <2>1
  <2>3. r[1] \in Nat /\ r[2] \in Nat /\ s[1] \in Nat /\ s[2] \in Nat
    BY <2>1
  <2> QED BY Zenon, <2>2, <2>3, RowsAreOrdered
<1>2. ASSUME NEW q \in BlueprintPage!RowsOf(values)
      PROVE  /\ Id(q) # ""
             /\ BlueprintPage!Family(q) = "relations" => ~BlueprintPage!isDuplicateRelationId(values, q)
             /\ BlueprintPage!Family(q) # "relations" => ~BlueprintPage!isDuplicatePropertyId(values, q)
  BY Zenon, RowsHaveIds
<1>3. ASSUME NEW a \in BlueprintPage!RowsOf(values), NEW b \in BlueprintPage!RowsOf(values), BlueprintPage!Before(a, b),
             BlueprintPage!Family(a) = "relations" <=> BlueprintPage!Family(b) = "relations"
      PROVE  Id(a) # Id(b)
  <2>1. Id(b) # ""
    BY <1>2
  <2> HIDE DEF Id
  <2>2. CASE BlueprintPage!Family(b) = "relations"
    BY <1>2, <1>3, <2>1, <2>2 DEF BlueprintPage!isDuplicateRelationId, BlueprintPage!Repeats, Id
  <2>3. CASE BlueprintPage!Family(b) # "relations"
    <3>1. a \in BlueprintPage!combinedPropertyIds(values)
      BY <1>3, <2>3, FamilyRows DEF BlueprintPage!combinedPropertyIds
    <3> QED
      BY <1>2, <1>3, <2>1, <2>3, <3>1 DEF BlueprintPage!isDuplicatePropertyId, BlueprintPage!Repeats, Id
  <2> QED BY <2>2, <2>3
<1> HIDE DEF Id
<1> QED
  BY <1>1, <1>3 DEF Id

\* The row a map keyed by identifiers keeps of those with one.
LastOf(rows, id) ==
  CHOOSE i \in DOMAIN rows : /\ BlueprintPage!Every(rows[i]) /\ BlueprintPage!Id(rows[i]) = id
                            /\ \A j \in DOMAIN rows : BlueprintPage!Every(rows[j]) /\ BlueprintPage!Id(rows[j]) = id => j <= i

\* Rows with identifiers of their own are as many as their identifiers.
LEMMA IdsAreRows ==
  ASSUME NEW Rows, NEW rows \in Seq(Rows),
         \A i \in DOMAIN rows : BlueprintPage!Id(rows[i]) # "",
         \A i, j \in DOMAIN rows : i # j => BlueprintPage!Id(rows[i]) # BlueprintPage!Id(rows[j])
  PROVE  /\ BlueprintPage!IdsOf(rows, BlueprintPage!Every) = {BlueprintPage!Id(rows[i]) : i \in DOMAIN rows}
         /\ Cardinality({BlueprintPage!Id(rows[i]) : i \in DOMAIN rows}) = Len(rows)
         /\ \A i \in DOMAIN rows : LastOf(rows, BlueprintPage!Id(rows[i])) = i
<1> DEFINE ids == {BlueprintPage!Id(rows[i]) : i \in DOMAIN rows}
           own == [i \in 1 .. Len(rows) |-> BlueprintPage!Id(rows[i])]
<1>1. DOMAIN rows = 1 .. Len(rows) /\ Len(rows) \in Nat
  BY LenProperties
<1>2. BlueprintPage!IdsOf(rows, BlueprintPage!Every) = ids
  BY DEF BlueprintPage!IdsOf, BlueprintPage!Every
<1>3. own \in Bijection(1 .. Len(rows), ids)
  BY <1>1 DEF Bijection, Injection, Surjection, IsInjective
<1>4. Cardinality(ids) = Len(rows)
  <2>1. ExistsBijection(1 .. Len(rows), ids)
    BY <1>3 DEF ExistsBijection
  <2> HIDE DEF ids
  <2> QED BY <1>1, <2>1, FS_CountingElements
<1>5. DOMAIN rows \subseteq Nat
  BY Zenon, PlacesAreNumbers
<1>6. ASSUME NEW i \in DOMAIN rows
      PROVE  LastOf(rows, BlueprintPage!Id(rows[i])) = i
  <2> DEFINE Kept(n) == /\ BlueprintPage!Every(rows[n]) /\ BlueprintPage!Id(rows[n]) = BlueprintPage!Id(rows[i])
                        /\ \A m \in DOMAIN rows : BlueprintPage!Every(rows[m]) /\ BlueprintPage!Id(rows[m]) = BlueprintPage!Id(rows[i]) => m <= n
  <2>1. \A m \in DOMAIN rows : BlueprintPage!Id(rows[m]) = BlueprintPage!Id(rows[i]) => m = i
    OBVIOUS
  <2>2. Kept(i)
    <3>1. i <= i
      BY Zenon, <1>5, AtMostItself
    <3> QED BY <2>1, <3>1 DEF BlueprintPage!Every
  <2>3. \A n \in DOMAIN rows : Kept(n) => n = i
    BY <2>1
  <2>4. LastOf(rows, BlueprintPage!Id(rows[i])) = CHOOSE n \in DOMAIN rows : Kept(n)
    BY DEF LastOf
  <2> HIDE DEF Kept
  <2> QED BY <2>2, <2>3, <2>4
<1> QED
  BY <1>2, <1>4, <1>6

\* Of a form that may be submitted, the rows of a family and those of two families of properties.
LEMMA FamiliesHaveTheirOwnIds ==
  ASSUME NEW values, NEW Rows, RowFamilies(values, Rows), "" \notin Identifiers, BlueprintPage!Submits(values), NEW k \in 1 .. 5
  PROVE  /\ values[BlueprintPage!ROW_FAMILIES[k]] \in Seq(Rows)
         /\ \A i \in DOMAIN values[BlueprintPage!ROW_FAMILIES[k]] : BlueprintPage!Id(values[BlueprintPage!ROW_FAMILIES[k]][i]) # ""
         /\ \A l \in 1 .. 5 : \A i \in DOMAIN values[BlueprintPage!ROW_FAMILIES[k]], j \in DOMAIN values[BlueprintPage!ROW_FAMILIES[l]] :
              /\ <<k, i>> # <<l, j>>
              /\ BlueprintPage!ROW_FAMILIES[k] = "relations" <=> BlueprintPage!ROW_FAMILIES[l] = "relations"
              => BlueprintPage!Id(values[BlueprintPage!ROW_FAMILIES[k]][i]) # BlueprintPage!Id(values[BlueprintPage!ROW_FAMILIES[l]][j])
<1> DEFINE family(n) == values[BlueprintPage!ROW_FAMILIES[n]]
<1>1. ASSUME NEW n \in 1 .. 5
      PROVE  /\ \A i \in DOMAIN family(n) : <<n, i>> \in BlueprintPage!RowsOf(values)
             /\ \A i : BlueprintPage!Draft(values, <<n, i>>) = family(n)[i] /\ BlueprintPage!Family(<<n, i>>) = BlueprintPage!ROW_FAMILIES[n]
  <2>1. \A i \in DOMAIN family(n) : <<n, i>> \in {n} \X DOMAIN family(n)
    OBVIOUS
  <2>2. {n} \X DOMAIN family(n) \subseteq BlueprintPage!RowsOf(values)
    BY RowFamilyNumbers DEF BlueprintPage!RowsOf
  <2>3. \A i : BlueprintPage!Draft(values, <<n, i>>) = family(n)[i] /\ BlueprintPage!Family(<<n, i>>) = BlueprintPage!ROW_FAMILIES[n]
    BY DEF BlueprintPage!Draft, BlueprintPage!Family
  <2> HIDE DEF family
  <2> QED BY <2>1, <2>2, <2>3
<1>2. ASSUME NEW l \in 1 .. 5, NEW i \in DOMAIN family(k), NEW j \in DOMAIN family(l), <<k, i>> # <<l, j>>,
             BlueprintPage!ROW_FAMILIES[k] = "relations" <=> BlueprintPage!ROW_FAMILIES[l] = "relations"
      PROVE  BlueprintPage!Id(family(k)[i]) # BlueprintPage!Id(family(l)[j])
  <2> DEFINE r == <<k, i>>
             s == <<l, j>>
  <2>1. r \in BlueprintPage!RowsOf(values) /\ s \in BlueprintPage!RowsOf(values) /\ r # s
    BY Zenon, <1>1, <1>2
  <2>2. BlueprintPage!Family(r) = "relations" <=> BlueprintPage!Family(s) = "relations"
    BY Zenon, <1>1, <1>2
  <2>3. BlueprintPage!Draft(values, r) = family(k)[i] /\ BlueprintPage!Draft(values, s) = family(l)[j]
    BY Zenon, <1>1
  <2> HIDE DEF r, s
  <2>4. BlueprintPage!Id(BlueprintPage!Draft(values, r)) # BlueprintPage!Id(BlueprintPage!Draft(values, s))
    BY Zenon, <2>1, <2>2, RowsHaveTheirOwnIds
  <2> QED BY Zenon, <2>3, <2>4
<1>3. family(k) \in Seq(Rows)
  BY Zenon, RowFamilyNumbers DEF RowFamilies
<1>4. ASSUME NEW i \in DOMAIN family(k)
      PROVE  BlueprintPage!Id(family(k)[i]) # ""
  <2>1. <<k, i>> \in BlueprintPage!RowsOf(values) /\ BlueprintPage!Draft(values, <<k, i>>) = family(k)[i]
    BY Zenon, <1>1
  <2>2. BlueprintPage!Id(BlueprintPage!Draft(values, <<k, i>>)) # ""
    BY Zenon, <2>1, RowsHaveIds
  <2> QED BY Zenon, <2>1, <2>2
<1> QED
  BY Zenon, <1>2, <1>3, <1>4

\* A blueprint form that may be submitted sends a definition for each of its rows: none takes the
\* place of another of its family, no identifier is in two families of properties, and what is
\* required or has a tier is sent (toBlueprintRequest, isDuplicatePropertyId).
THEOREM SubmitsLoseNoRow ==
  ASSUME NEW values, NEW Rows, RowFamilies(values, Rows), "" \notin Identifiers
  PROVE  BlueprintPage!NoRowIsLost(values)
<1> DEFINE request == BlueprintPage!toBlueprintRequest(values)
           family(k) == values[BlueprintPage!ROW_FAMILIES[k]]
           ids(k) == {BlueprintPage!Id(family(k)[i]) : i \in DOMAIN family(k)}
<1>1. SUFFICES ASSUME BlueprintPage!Submits(values)
               PROVE  /\ \A k \in 1 .. 5 : Cardinality(DOMAIN request[BlueprintPage!ROW_FAMILIES[k]]) = Len(family(k))
                      /\ \A f, g \in BlueprintPage!PropertyFamilies : f # g => DOMAIN request[f] \cap DOMAIN request[g] = {}
                      /\ request.required \subseteq DOMAIN request.properties
                      /\ DOMAIN request.tiers.relations \subseteq DOMAIN request.relations
  BY RowFamilyNumbers, SameCardinality DEF BlueprintPage!NoRowIsLost
<1>2. ASSUME NEW k \in 1 .. 5
      PROVE  DOMAIN request[BlueprintPage!ROW_FAMILIES[k]] = BlueprintPage!IdsOf(family(k), BlueprintPage!Every)
  <2>1. CASE k = 1
    BY <2>1 DEF BlueprintPage!ROW_FAMILIES, BlueprintPage!toBlueprintRequest, BlueprintPage!Keyed
  <2>2. CASE k = 2
    BY <2>2 DEF BlueprintPage!ROW_FAMILIES, BlueprintPage!toBlueprintRequest, BlueprintPage!Keyed
  <2>3. CASE k = 3
    BY <2>3 DEF BlueprintPage!ROW_FAMILIES, BlueprintPage!toBlueprintRequest, BlueprintPage!Keyed
  <2>4. CASE k = 4
    BY <2>4 DEF BlueprintPage!ROW_FAMILIES, BlueprintPage!toBlueprintRequest, BlueprintPage!Keyed
  <2>5. CASE k = 5
    BY <2>5 DEF BlueprintPage!ROW_FAMILIES, BlueprintPage!toBlueprintRequest, BlueprintPage!Keyed
  <2> QED BY Zenon, <2>1, <2>2, <2>3, <2>4, <2>5, RowFamilyNumbers
<1>3. ASSUME NEW k \in 1 .. 5, NEW l \in 1 .. 5, NEW i \in DOMAIN family(k), NEW j \in DOMAIN family(l), <<k, i>> # <<l, j>>,
             BlueprintPage!ROW_FAMILIES[k] = "relations" <=> BlueprintPage!ROW_FAMILIES[l] = "relations"
      PROVE  BlueprintPage!Id(family(k)[i]) # BlueprintPage!Id(family(l)[j])
  BY Zenon, <1>1, <1>3, FamiliesHaveTheirOwnIds
<1>4. ASSUME NEW k \in 1 .. 5
      PROVE  /\ BlueprintPage!IdsOf(family(k), BlueprintPage!Every) = ids(k)
             /\ Cardinality(ids(k)) = Len(family(k))
  <2>1. family(k) \in Seq(Rows) /\ \A i \in DOMAIN family(k) : BlueprintPage!Id(family(k)[i]) # ""
    BY Zenon, <1>1, FamiliesHaveTheirOwnIds
  <2>2. \A i, j \in DOMAIN family(k) : i # j => BlueprintPage!Id(family(k)[i]) # BlueprintPage!Id(family(k)[j])
    <3>1. \A i, j : i # j => <<k, i>> # <<k, j>>
      OBVIOUS
    <3> QED BY Zenon, <1>3, <3>1
  <2> HIDE DEF family
  <2> QED BY <2>1, <2>2, IdsAreRows
<1>5. ASSUME NEW f \in BlueprintPage!PropertyFamilies, NEW g \in BlueprintPage!PropertyFamilies, f # g
      PROVE  DOMAIN request[f] \cap DOMAIN request[g] = {}
  <2>1. PICK k \in 1 .. 5 : f = BlueprintPage!ROW_FAMILIES[k]
    BY Zenon, PropertyFamilyNumbers
  <2>2. PICK l \in 1 .. 5 : g = BlueprintPage!ROW_FAMILIES[l]
    BY Zenon, PropertyFamilyNumbers
  <2>3. f # "relations" /\ g # "relations"
    BY Zenon, PropertyFamilyNumbers
  <2>4. k # l /\ \A i, j : <<k, i>> # <<l, j>>
    BY <1>5, <2>1, <2>2
  <2>5. DOMAIN request[f] = ids(k) /\ DOMAIN request[g] = ids(l)
    BY Zenon, <1>2, <1>4, <2>1, <2>2
  <2>6. \A i \in DOMAIN family(k), j \in DOMAIN family(l) : BlueprintPage!Id(family(k)[i]) # BlueprintPage!Id(family(l)[j])
    BY Zenon, <1>3, <2>1, <2>2, <2>3, <2>4
  <2>7. ids(k) \cap ids(l) = {}
    <3> HIDE DEF family
    <3> QED BY <2>6
  <2> QED BY Zenon, <2>5, <2>7
<1>6. request.required \subseteq DOMAIN request.properties
  BY DEF BlueprintPage!toBlueprintRequest, BlueprintPage!Keyed, BlueprintPage!IdsOf, BlueprintPage!Every
<1>7. DOMAIN request.tiers.relations \subseteq DOMAIN request.relations
  BY DEF BlueprintPage!toBlueprintRequest, BlueprintPage!tiersFor, BlueprintPage!Keyed, BlueprintPage!IdsOf, BlueprintPage!Every
<1> QED
  BY <1>2, <1>4, <1>5, <1>6, <1>7

\* The row a relation is sent from is its own.
LEMMA RelationsKeepTheirPlace ==
  ASSUME NEW values, NEW Rows, RowFamilies(values, Rows), "" \notin Identifiers, BlueprintPage!Submits(values), NEW i \in DOMAIN values.relations
  PROVE  LastOf(values.relations, BlueprintPage!Id(values.relations[i])) = i
<1>1. PICK k \in 1 .. 5 : values.relations = values[BlueprintPage!ROW_FAMILIES[k]]
  BY RelationsAreAFamily
<1> DEFINE family == values[BlueprintPage!ROW_FAMILIES[k]]
<1>2. family \in Seq(Rows) /\ \A n \in DOMAIN family : BlueprintPage!Id(family[n]) # ""
  BY Zenon, FamiliesHaveTheirOwnIds
<1>3. \A n, m \in DOMAIN family : n # m => BlueprintPage!Id(family[n]) # BlueprintPage!Id(family[m])
  <2>1. \A n, m : n # m => <<k, n>> # <<k, m>>
    OBVIOUS
  <2> QED BY Zenon, <2>1, FamiliesHaveTheirOwnIds
<1> HIDE DEF family
<1>4. i \in DOMAIN family
  BY Zenon, <1>1 DEF family
<1>5. LastOf(family, BlueprintPage!Id(family[i])) = i
  BY Zenon, <1>2, <1>3, <1>4, IdsAreRows
<1> QED BY Zenon, <1>1, <1>5 DEF family

\* A hierarchy is sent with the relation its row shows, and none it does not show; of a form that
\* may be submitted it is one to a single entity (hierarchyRelationsFor).
THEOREM HierarchiesAreSentAsShown ==
  ASSUME NEW values, NEW Rows, RowFamilies(values, Rows), "" \notin Identifiers, NEW active,
         \A h \in DOMAIN values.hierarchyRelations : TrimmedText[values.hierarchyRelations[h]] = values.hierarchyRelations[h]
  PROVE  BlueprintPage!HierarchiesAreShown(values, active)
<1> DEFINE request == BlueprintPage!toBlueprintRequest(values)
           sent == request.hierarchyRelations
           chosen == values.hierarchyRelations
           rows == values.relations
           single == BlueprintPage!singleRelationIds(rows)
<1>1. DOMAIN sent = {h \in DOMAIN chosen : chosen[h] \in single} /\ \A h \in DOMAIN sent : sent[h] = chosen[h]
  BY DEF BlueprintPage!toBlueprintRequest, BlueprintPage!hierarchyRelationsFor, BlueprintPage!Trim
<1>2. single = {BlueprintPage!Id(rows[i]) : i \in {j \in DOMAIN rows : ~rows[j].many}} \ {""}
  BY DEF BlueprintPage!singleRelationIds, BlueprintPage!IdsOf, BlueprintPage!Single
<1>3. \A h : h \in DOMAIN sent <=> BlueprintPage!HierarchyRow(values, h) # ""
  <2>1. "" \notin single
    BY <1>2
  <2>2. \A h : BlueprintPage!HierarchyRow(values, h) = IF h \in DOMAIN chosen /\ chosen[h] \in single THEN chosen[h] ELSE ""
    BY DEF BlueprintPage!HierarchyRow
  <2> HIDE DEF sent, single, chosen
  <2> QED BY <1>1, <2>1, <2>2
<1>4. ASSUME BlueprintPage!Submits(values), NEW h \in DOMAIN sent
      PROVE  ~request.relations[sent[h]].many
  <2>1. PICK i \in DOMAIN rows : ~rows[i].many /\ BlueprintPage!Id(rows[i]) = sent[h]
    BY <1>1, <1>2
  <2>2. LastOf(rows, sent[h]) = i
    <3>1. LastOf(rows, BlueprintPage!Id(rows[i])) = i
      BY Zenon, <1>4, <2>1, RelationsKeepTheirPlace
    <3> QED BY Zenon, <2>1, <3>1
  <2>3. request.relations[sent[h]] = BlueprintPage!relationDefinitionFor(rows[LastOf(rows, sent[h])])
    <3>1. sent[h] \in BlueprintPage!IdsOf(rows, BlueprintPage!Every)
      <4>1. sent[h] # ""
        BY <1>1, <1>2
      <4> HIDE DEF sent
      <4> QED BY <2>1, <4>1 DEF BlueprintPage!IdsOf, BlueprintPage!Every
    <3>2. request.relations = BlueprintPage!Keyed(rows, BlueprintPage!Every, BlueprintPage!relationDefinitionFor)
      BY DEF BlueprintPage!toBlueprintRequest
    <3> HIDE DEF sent, request
    <3> QED BY <3>1, <3>2 DEF BlueprintPage!Keyed, LastOf
  <2>4. \A row : BlueprintPage!relationDefinitionFor(row).many = row.many
    BY DEF BlueprintPage!relationDefinitionFor
  <2> HIDE DEF sent, request
  <2> QED BY Zenon, <2>1, <2>2, <2>3, <2>4
<1> QED
  BY <1>3, <1>4 DEF BlueprintPage!HierarchiesAreShown

\* Of some rows one comes first.
LEMMA FirstRow ==
  ASSUME NEW rows, rows \subseteq Nat \X Nat, rows # {}
  PROVE  \E r \in rows : \A s \in rows \ {r} : BlueprintPage!Before(r, s)
<1> DEFINE firsts == {r[1] : r \in rows}
<1>1. PICK a \in firsts : \A b \in firsts : ~(b < a)
  <2>1. firsts \subseteq Nat /\ firsts # {}
    OBVIOUS
  <2>2. \E a \in firsts : \A b \in firsts : ~(<<b, a>> \in OpToRel(<, Nat))
    BY <2>1, NatLessThanWellFounded, WFMin
  <2> QED BY <2>1, <2>2 DEF OpToRel
<1> DEFINE seconds == {r[2] : r \in {q \in rows : q[1] = a}}
<1>2. PICK c \in seconds : \A d \in seconds : ~(d < c)
  <2>1. seconds \subseteq Nat /\ seconds # {}
    OBVIOUS
  <2>2. \E x \in seconds : \A b \in seconds : ~(<<b, x>> \in OpToRel(<, Nat))
    <3> HIDE DEF seconds
    <3> QED BY <2>1, NatLessThanWellFounded, WFMin
  <2> QED BY <2>1, <2>2 DEF OpToRel
<1>3. PICK r \in rows : r[1] = a /\ r[2] = c
  OBVIOUS
<1>4. ASSUME NEW s \in rows \ {r}
      PROVE  BlueprintPage!Before(r, s)
  <2>1. r \in Nat \X Nat /\ s \in Nat \X Nat /\ s[1] \in firsts
    BY <1>3, <1>4
  <2>2. s[1] = a => s[2] \in seconds
    BY <1>4
  <2>3. s[1] >= a
    BY <1>1, <1>3, <2>1
  <2>4. s[1] = a => s[2] >= c
    BY <1>2, <1>3, <2>1, <2>2
  <2>5. s[1] = a => s[2] # c
    BY <1>3, <1>4, <2>1
  <2> QED BY <1>3, <2>1, <2>3, <2>4, <2>5 DEF BlueprintPage!Before
<1> QED BY <1>3, <1>4

\* A submit that is blocked opens every row with an error and puts its user on the first of them
\* (revealErrors of the blueprint form).
THEOREM BlockedSubmitsShowTheirErrors ==
  ASSUME NEW values, NEW Rows, RowFamilies(values, Rows)
  PROVE  BlueprintPage!ErrorsAreRevealed(values)
<1> DEFINE rows == BlueprintPage!rowsWithErrors(values)
           fold == BlueprintPage!revealErrors([expanded |-> BlueprintPage!firstRowIds(values), focus |-> <<>>], values)
<1>1. rows \subseteq Nat \X Nat
  BY FamilyRows DEF BlueprintPage!rowsWithErrors
<1>2. rows \subseteq fold.expanded
  BY DEF BlueprintPage!revealErrors
<1>3. ASSUME rows # {}
      PROVE  /\ fold.focus[1] \in rows
             /\ \A r \in rows : r = fold.focus[1] \/ BlueprintPage!Before(fold.focus[1], r)
  <2>1. fold.focus[1] = CHOOSE r \in rows : \A s \in rows \ {r} : BlueprintPage!Before(r, s)
    BY <1>3 DEF BlueprintPage!revealErrors
  <2> HIDE DEF rows, fold
  <2> QED BY <1>1, <1>3, <2>1, FirstRow
<1> QED
  BY <1>2, <1>3 DEF BlueprintPage!ErrorsAreRevealed, BlueprintPage!ErrorDots

\* The fields each type lets through.
LEMMA ReachingFields ==
  ASSUME NEW draft, draft.type \in BlueprintPage!PROPERTY_TYPES, NEW f \in BlueprintPage!Reaching(draft)
  PROVE  /\ BlueprintPage!WireKey(f) \in BlueprintPage!Applicable(draft.type)
         /\ f \in BlueprintPage!BlueprintPropertyRow(draft) \/ (f = "enumColors" /\ draft.type \in {"string", "number"})
<1> DEFINE embedded == BlueprintPage!Text(draft, "spec") = "embedded-url"
           dated == BlueprintPage!Text(draft, "format") = "date-time"
           worded == BlueprintPage!Text(draft, "itemsType") = "string"
           AskedWith == {"specAuthorizationUrl", "specTokenUrl", "specClientId", "specAuthorizationScope"}
<1>1. CASE draft.type = "string"
  <2>1. f \in {"title", "description", "icon", "format", "pattern", "minLength", "maxLength", "spec", "enumValues", "enumColors", "defaultText"}
        \/ (dated /\ f = "dateFormat") \/ (embedded /\ f \in AskedWith)
    BY <1>1 DEF BlueprintPage!Reaching, BlueprintPage!TYPE_FIELDS, BlueprintPage!Common, BlueprintPage!SignIn, BlueprintPage!specAuthenticationFor, BlueprintPage!itemsFor
  <2> HIDE DEF dated, embedded
  <2>2. BlueprintPage!WireKey(f) \in BlueprintPage!Applicable("string")
    BY <2>1 DEF BlueprintPage!WireKey, BlueprintPage!Applicable, BlueprintPage!Common, BlueprintPage!SignIn
  <2>3. f # "enumColors" => f \in BlueprintPage!BlueprintPropertyRow(draft)
    BY <1>1, <2>1 DEF dated, embedded, BlueprintPage!BlueprintPropertyRow, BlueprintPage!TypeSpecificFields, BlueprintPage!StringPropertyFields,
       BlueprintPage!AdvancedFields, BlueprintPage!Optional, BlueprintPage!SignIn
  <2> QED BY <1>1, <2>2, <2>3
<1>2. CASE draft.type = "number"
  <2>1. f \in {"title", "description", "icon", "minimum", "maximum", "exclusiveMinimum", "exclusiveMaximum", "enumValues", "enumColors", "defaultText"}
    BY <1>2 DEF BlueprintPage!Reaching, BlueprintPage!TYPE_FIELDS, BlueprintPage!Common, BlueprintPage!SignIn, BlueprintPage!specAuthenticationFor, BlueprintPage!itemsFor
  <2>2. BlueprintPage!WireKey(f) \in BlueprintPage!Applicable("number")
    BY <2>1 DEF BlueprintPage!WireKey, BlueprintPage!Applicable, BlueprintPage!Common, BlueprintPage!SignIn
  <2>3. f # "enumColors" => f \in BlueprintPage!BlueprintPropertyRow(draft)
    BY <1>2, <2>1 DEF BlueprintPage!BlueprintPropertyRow, BlueprintPage!TypeSpecificFields, BlueprintPage!NumberPropertyFields,
       BlueprintPage!AdvancedFields, BlueprintPage!Optional
  <2> QED BY <1>2, <2>2, <2>3
<1>3. CASE draft.type = "boolean"
  <2>1. f \in {"title", "description", "icon", "defaultBool"}
    BY <1>3 DEF BlueprintPage!Reaching, BlueprintPage!TYPE_FIELDS, BlueprintPage!Common, BlueprintPage!SignIn, BlueprintPage!specAuthenticationFor, BlueprintPage!itemsFor
  <2>2. BlueprintPage!WireKey(f) \in BlueprintPage!Applicable("boolean")
    BY <2>1 DEF BlueprintPage!WireKey, BlueprintPage!Applicable, BlueprintPage!Common, BlueprintPage!SignIn
  <2>3. f \in BlueprintPage!BlueprintPropertyRow(draft)
    BY <1>3, <2>1 DEF BlueprintPage!BlueprintPropertyRow, BlueprintPage!TypeSpecificFields, BlueprintPage!AdvancedFields
  <2> QED BY <1>3, <2>2, <2>3
<1>4. CASE draft.type = "array"
  <2>1. f \in {"title", "description", "icon", "itemsType", "minItems", "maxItems", "uniqueItems", "defaultList"} \/ (worded /\ f = "itemsFormat")
    BY <1>4 DEF BlueprintPage!Reaching, BlueprintPage!TYPE_FIELDS, BlueprintPage!Common, BlueprintPage!SignIn, BlueprintPage!specAuthenticationFor, BlueprintPage!itemsFor
  <2> HIDE DEF worded
  <2>2. BlueprintPage!WireKey(f) \in BlueprintPage!Applicable("array")
    BY <2>1 DEF BlueprintPage!WireKey, BlueprintPage!Applicable, BlueprintPage!Common, BlueprintPage!SignIn
  <2>3. f \in BlueprintPage!BlueprintPropertyRow(draft)
    BY <1>4, <2>1 DEF worded, BlueprintPage!BlueprintPropertyRow, BlueprintPage!TypeSpecificFields, BlueprintPage!ArrayPropertyFields,
       BlueprintPage!AdvancedFields, BlueprintPage!Optional
  <2> QED BY <1>4, <2>2, <2>3
<1>5. CASE draft.type = "object"
  <2>1. f \in {"title", "description", "icon", "objectFormat", "objectSpec", "objectSchemaJson", "defaultText"}
    BY <1>5 DEF BlueprintPage!Reaching, BlueprintPage!TYPE_FIELDS, BlueprintPage!Common, BlueprintPage!SignIn, BlueprintPage!specAuthenticationFor, BlueprintPage!itemsFor
  <2>2. BlueprintPage!WireKey(f) \in BlueprintPage!Applicable("object")
    BY <2>1 DEF BlueprintPage!WireKey, BlueprintPage!Applicable, BlueprintPage!Common, BlueprintPage!SignIn
  <2>3. f \in BlueprintPage!BlueprintPropertyRow(draft)
    BY <1>5, <2>1 DEF BlueprintPage!BlueprintPropertyRow, BlueprintPage!TypeSpecificFields, BlueprintPage!ObjectPropertyFields, BlueprintPage!AdvancedFields
  <2> QED BY <1>5, <2>2, <2>3
<1> QED
  BY <1>1, <1>2, <1>3, <1>4, <1>5 DEF BlueprintPage!PROPERTY_TYPES

\* What the row of a property sends is on display in it, and applies to its type: nothing that was
\* typed under another type is sent (propertyDefinitionFor, BlueprintPropertyRow).
THEOREM RowsSendWhatTheyShow ==
  ASSUME NEW draft, draft.type \in BlueprintPage!PROPERTY_TYPES
  PROVE  BlueprintPage!SendsWhatItShows(draft)
<1> DEFINE sent == {f \in BlueprintPage!Reaching(draft) \cap DOMAIN draft.at : ~BlueprintPage!Unfilled(f, BlueprintPage!Sent(draft, f))}
<1>1. DOMAIN BlueprintPage!propertyDefinitionFor(draft).at = {BlueprintPage!WireKey(f) : f \in sent}
  BY DEF BlueprintPage!propertyDefinitionFor
<1>2. ASSUME NEW f \in sent
      PROVE  f \in BlueprintPage!BlueprintPropertyRow(draft)
  <2>1. CASE f # "enumColors"
    BY <2>1, ReachingFields
  <2>2. CASE f = "enumColors"
    <3>1. draft.type \in {"string", "number"} \/ f \in BlueprintPage!BlueprintPropertyRow(draft)
      BY ReachingFields
    <3>2. BlueprintPage!Sent(draft, f) = BlueprintPage!enumColorsFor(draft)
      BY <2>2 DEF BlueprintPage!Sent, BlueprintPage!NumberFields
    <3>3. DOMAIN BlueprintPage!enumColorsFor(draft) # {}
      BY <2>2, <3>2 DEF BlueprintPage!Unfilled, BlueprintPage!Lists
    <3>4. BlueprintPage!ToSet(BlueprintPage!ListOf(draft, "enumValues")) # {}
      BY <3>3 DEF BlueprintPage!enumColorsFor, BlueprintPage!Restrict
    <3>5. BlueprintPage!ListOf(draft, "enumValues") # <<>>
      BY <3>4 DEF BlueprintPage!ToSet
    <3> QED
      BY <2>2, <3>1, <3>5 DEF BlueprintPage!BlueprintPropertyRow, BlueprintPage!EnumEditor, BlueprintPage!Optional
  <2> QED BY <2>1, <2>2
<1>3. \A f \in sent : BlueprintPage!WireKey(f) \in BlueprintPage!Applicable(draft.type)
  BY ReachingFields
<1> HIDE DEF sent
<1> QED
  BY <1>1, <1>2, <1>3 DEF BlueprintPage!SendsWhatItShows, sent

-----------------------------------------------------------------------------
(* The form of an entity *)

\* Nothing is left of no text.
TextConstants == TrimmedText[""] = ""

\* What is typed into one input of a labelled link leaves the other's text, whatever the box held
\* (update of LabeledUrlFields).
THEOREM LinksKeepTheirTexts ==
  ASSUME TextConstants, NEW box, NEW key \in {"url", "displayText"}, NEW v
  PROVE  EntityPage!LinksKeepBothTexts(box, key, v)
<1> DEFINE Trim(s) == EntityPage!Trim(s)
           parsed == IF EntityPage!safeJsonParse(box)[1] = "object" THEN EntityPage!safeJsonParse(box)[2] ELSE [k \in {} |-> ""]
           next == [k \in DOMAIN parsed \cup {key} |-> IF k = key THEN v ELSE parsed[k]]
           filled == {k \in DOMAIN next \cap {"url", "displayText"} : Trim(next[k]) # ""}
           after == EntityPage!update(box, key, v)
<1>1. after = IF filled = {} THEN <<"none", "">> ELSE <<"object", [k \in filled |-> Trim(next[k])]>>
  BY DEF EntityPage!update, EntityPage!Undefined
<1>2. Trim("") = ""
  BY DEF TextConstants, EntityPage!Trim
<1>3. \A k \in {"url", "displayText"} : k \in filled <=> k \in DOMAIN next /\ Trim(next[k]) # ""
  OBVIOUS
<1>4. key \in DOMAIN next /\ next[key] = v
  OBVIOUS
<1>5. ASSUME NEW k \in {"url", "displayText"} \ {key}
      PROVE  EntityPage!Shows(box, k) = IF k \in DOMAIN next THEN next[k] ELSE ""
  BY DEF EntityPage!Shows
<1> HIDE DEF next, parsed, after, filled
<1>6. EntityPage!safeJsonParse(after) = after
  <2>1. after # <<"broken", "">>
    BY <1>1
  <2> QED BY <2>1 DEF EntityPage!safeJsonParse, EntityPage!Broken
<1>7. ASSUME NEW k \in {"url", "displayText"}
      PROVE  EntityPage!Shows(after, k) = IF k \in filled THEN Trim(next[k]) ELSE ""
  <2>1. CASE filled = {}
    <3>1. after[1] # "object" /\ k \notin filled
      BY <1>1, <2>1
    <3> QED BY <3>1, <1>6 DEF EntityPage!Shows
  <2>2. CASE filled # {}
    <3>1. after[1] = "object" /\ after[2] = [x \in filled |-> Trim(next[x])]
      BY <1>1, <2>2
    <3> QED BY <3>1, <1>6 DEF EntityPage!Shows
  <2> QED BY <2>1, <2>2
<1>8. EntityPage!Shows(after, key) = Trim(v)
  BY <1>3, <1>4, <1>7
<1>9. ASSUME NEW k \in {"url", "displayText"} \ {key}
      PROVE  EntityPage!Shows(after, k) = Trim(EntityPage!Shows(box, k))
  BY <1>2, <1>3, <1>5, <1>7, <1>9
<1> QED
  BY <1>8, <1>9 DEF EntityPage!LinksKeepBothTexts, after

\* The types of a property.
Typed == {"string", "number", "boolean", "array", "object"}
\* The draft of a property of the blueprint, or of a stored key it has no more; a number that was
\* listed has no blanks around it.
Draftable(b, draft) ==
  /\ draft.id \notin b.computed
  /\ draft.unknown \/ (draft.id \in DOMAIN b.properties /\ b.properties[draft.id].type \in Typed)
  /\ EntityPage!Definition(b, draft.id).items = "number" => \A i \in DOMAIN draft.list : TrimmedText[draft.list[i]] = draft.list[i]

\* What a property without an error sends and chooses.
Settled(b, draft, pool) ==
  LET input == EntityPage!EntityPropertyField(b, draft, pool) IN
  /\ EntityPage!Filled(draft, input.slot) => EntityPage!propertyValueToWire(draft, EntityPage!Definition(b, draft.id)) # EntityPage!Undefined
  /\ input.offers # {} /\ input.slot \in {"text", "list"} => EntityPage!Chosen(draft, input.slot) \subseteq input.offers

\* Its errors, which only the rule of its input finds.
Errors(b, draft) == EntityPage!textFieldError(b, draft) \/ EntityPage!listFieldError(b, draft) \/ EntityPage!jsonFieldError(b, draft)
OwnErrors(b, draft, slot) ==
  /\ EntityPage!textFieldError(b, draft) => slot = "text"
  /\ EntityPage!listFieldError(b, draft) => slot = "list"
  /\ EntityPage!jsonFieldError(b, draft) => slot = "json"

\* A stored key the blueprint has no more has a box of its own.
LEMMA UnknownSettled ==
  ASSUME NEW b, NEW draft, draft.unknown, NEW pool
  PROVE  /\ OwnErrors(b, draft, EntityPage!EntityPropertyField(b, draft, pool).slot)
         /\ ~Errors(b, draft) => Settled(b, draft, pool)
<1>1. EntityPage!EntityPropertyField(b, draft, pool).slot = "json"
  BY DEF EntityPage!EntityPropertyField, EntityPage!Widget
<1>2. ~EntityPage!textFieldError(b, draft) /\ ~EntityPage!listFieldError(b, draft)
  BY DEF EntityPage!textFieldError, EntityPage!listFieldError
<1>3. ASSUME ~EntityPage!jsonFieldError(b, draft), draft.json # EntityPage!Undefined
      PROVE  EntityPage!propertyValueToWire(draft, EntityPage!Definition(b, draft.id)) # EntityPage!Undefined
  <2>1. draft.json # EntityPage!Broken
    BY <1>3 DEF EntityPage!jsonFieldError, EntityPage!jsonSyntaxError
  <2> QED BY <1>3, <2>1 DEF EntityPage!propertyValueToWire, EntityPage!safeJsonParse
<1> QED
  BY <1>1, <1>2, <1>3 DEF OwnErrors, Errors, Settled, EntityPage!Filled

\* Texts and numbers.
LEMMA TextSettled ==
  ASSUME NEW b, NEW draft, ~draft.unknown, NEW pool, EntityPage!Definition(b, draft.id).type \in {"string", "number"}
  PROVE  /\ OwnErrors(b, draft, EntityPage!EntityPropertyField(b, draft, pool).slot)
         /\ ~Errors(b, draft) => Settled(b, draft, pool)
<1> DEFINE def == EntityPage!Definition(b, draft.id)
           text == EntityPage!Trim(draft.text)
           input == EntityPage!EntityPropertyField(b, draft, pool)
<1>1. /\ input.slot = "text"
      /\ input.offers = def.enum \/ input.offers = pool \cup ({text} \ {""})
  BY DEF EntityPage!EntityPropertyField, EntityPage!Widget, EntityPage!ReferencePropertyField, EntityPage!EntityOptionsSelect, EntityPage!Reference
<1>2. ~EntityPage!listFieldError(b, draft) /\ ~EntityPage!jsonFieldError(b, draft) /\ ~EntityPage!UsesJson(def)
  BY DEF EntityPage!listFieldError, EntityPage!jsonFieldError, EntityPage!UsesJson
<1>3. ASSUME ~EntityPage!textFieldError(b, draft), text # ""
      PROVE  /\ def.type = "number" => EntityPage!isNumber(text)
             /\ def.enum = {} \/ text \in def.enum
  BY <1>3 DEF EntityPage!textFieldError, EntityPage!numberRule, EntityPage!stringRule, EntityPage!Listed
<1>4. ASSUME ~EntityPage!textFieldError(b, draft), text # ""
      PROVE  EntityPage!propertyValueToWire(draft, def) # EntityPage!Undefined
  <2>1. CASE def.type = "string"
    BY <1>2, <1>4, <2>1 DEF EntityPage!propertyValueToWire, EntityPage!Undefined
  <2>2. CASE def.type = "number"
    BY <1>2, <1>3, <1>4, <2>2 DEF EntityPage!propertyValueToWire, EntityPage!Undefined
  <2> QED BY <2>1, <2>2
<1>5. EntityPage!Filled(draft, "text") <=> text # ""
  BY DEF EntityPage!Filled
<1>6. EntityPage!Chosen(draft, "text") = {text} \ {""}
  BY DEF EntityPage!Chosen
<1> HIDE DEF text
<1>7. OwnErrors(b, draft, input.slot)
  BY <1>1, <1>2 DEF OwnErrors
<1>8. ASSUME ~EntityPage!textFieldError(b, draft)
      PROVE  Settled(b, draft, pool)
  <2>1. input.offers # {} => {text} \ {""} \subseteq input.offers
    <3> HIDE DEF input
    <3> QED BY <1>1, <1>3, <1>8
  <2> QED BY <1>1, <1>4, <1>5, <1>6, <1>8, <2>1 DEF Settled
<1> QED
  BY <1>7, <1>8 DEF Errors

\* Booleans.
LEMMA SwitchSettled ==
  ASSUME NEW b, NEW draft, ~draft.unknown, NEW pool, EntityPage!Definition(b, draft.id).type = "boolean"
  PROVE  /\ OwnErrors(b, draft, EntityPage!EntityPropertyField(b, draft, pool).slot)
         /\ ~Errors(b, draft) => Settled(b, draft, pool)
<1> DEFINE def == EntityPage!Definition(b, draft.id)
<1>1. EntityPage!EntityPropertyField(b, draft, pool).slot = "bool"
  BY DEF EntityPage!EntityPropertyField, EntityPage!Widget
<1>2. ~EntityPage!textFieldError(b, draft) /\ ~EntityPage!listFieldError(b, draft) /\ ~EntityPage!jsonFieldError(b, draft) /\ ~EntityPage!UsesJson(def)
  BY DEF EntityPage!textFieldError, EntityPage!listFieldError, EntityPage!jsonFieldError, EntityPage!UsesJson
<1>3. ASSUME draft.bool # ""
      PROVE  EntityPage!propertyValueToWire(draft, def) # EntityPage!Undefined
  BY <1>2, <1>3 DEF EntityPage!propertyValueToWire, EntityPage!Undefined
<1> QED
  BY <1>1, <1>2, <1>3 DEF OwnErrors, Settled, EntityPage!Filled

\* Objects and arrays of them.
LEMMA JsonSettled ==
  ASSUME NEW b, NEW draft, ~draft.unknown, NEW pool, EntityPage!UsesJson(EntityPage!Definition(b, draft.id))
  PROVE  /\ OwnErrors(b, draft, EntityPage!EntityPropertyField(b, draft, pool).slot)
         /\ ~Errors(b, draft) => Settled(b, draft, pool)
<1> DEFINE def == EntityPage!Definition(b, draft.id)
<1>1. EntityPage!EntityPropertyField(b, draft, pool).slot = "json"
  BY DEF EntityPage!EntityPropertyField, EntityPage!Widget, EntityPage!UsesJson, EntityPage!ArrayField, EntityPage!LabeledUrlFields
<1>2. ~EntityPage!textFieldError(b, draft) /\ ~EntityPage!listFieldError(b, draft)
  BY DEF EntityPage!textFieldError, EntityPage!listFieldError, EntityPage!UsesJson
<1>3. ASSUME ~EntityPage!jsonFieldError(b, draft), draft.json # EntityPage!Undefined
      PROVE  EntityPage!propertyValueToWire(draft, def) # EntityPage!Undefined
  <2>1. draft.json # EntityPage!Broken
    BY <1>3 DEF EntityPage!jsonFieldError, EntityPage!jsonSyntaxError, EntityPage!Broken, EntityPage!Undefined
  <2> QED BY <1>3, <2>1 DEF EntityPage!propertyValueToWire, EntityPage!safeJsonParse
<1> QED
  BY <1>1, <1>2, <1>3 DEF OwnErrors, Errors, Settled, EntityPage!Filled

\* The other arrays.
LEMMA ListSettled ==
  ASSUME NEW b, NEW draft, ~draft.unknown, NEW pool,
         EntityPage!Definition(b, draft.id).items = "number" => \A i \in DOMAIN draft.list : TrimmedText[draft.list[i]] = draft.list[i],
         EntityPage!Definition(b, draft.id).type = "array", EntityPage!Definition(b, draft.id).items # "object"
  PROVE  /\ OwnErrors(b, draft, EntityPage!EntityPropertyField(b, draft, pool).slot)
         /\ ~Errors(b, draft) => Settled(b, draft, pool)
<1> DEFINE def == EntityPage!Definition(b, draft.id)
           list == draft.list
           listed == EntityPage!ToSet(list)
           input == EntityPage!EntityPropertyField(b, draft, pool)
           coerced == EntityPage!coerceListItems(list, def.items)
<1>1. /\ input.slot = "list"
      /\ \/ input.offers = pool \cup listed
         \/ input.offers = IF def.enum = {} /\ def.items = "boolean" THEN {"true", "false"} ELSE def.enum
  BY DEF EntityPage!EntityPropertyField, EntityPage!Widget, EntityPage!ReferencePropertyField, EntityPage!EntityOptionsSelect, EntityPage!ArrayField
<1>2. ~EntityPage!textFieldError(b, draft) /\ ~EntityPage!jsonFieldError(b, draft) /\ ~EntityPage!UsesJson(def)
  BY DEF EntityPage!textFieldError, EntityPage!jsonFieldError, EntityPage!UsesJson
<1>3. list # <<>> => EntityPage!propertyValueToWire(draft, def) # EntityPage!Undefined
  BY <1>2 DEF EntityPage!propertyValueToWire, EntityPage!Undefined
<1>4. listed = {list[i] : i \in DOMAIN list}
  BY DEF EntityPage!ToSet
<1>5. ASSUME ~EntityPage!listFieldError(b, draft), list # <<>>
      PROVE  /\ def.items = "number" => \A v \in listed : EntityPage!isNumber(v)
             /\ def.items = "boolean" => listed \subseteq {"true", "false"}
             /\ ~EntityPage!arrayRule(def, coerced)
  BY <1>5 DEF EntityPage!listFieldError
<1>6. ASSUME ~EntityPage!listFieldError(b, draft), NEW i \in DOMAIN list
      PROVE  /\ def.enum = {} \/ list[i] \in def.enum
             /\ def.items = "boolean" => list[i] \in {"true", "false"}
  <2>1. list # <<>>
    OBVIOUS
  <2>2. i \in DOMAIN coerced /\ list[i] \in listed
    BY <1>4 DEF EntityPage!coerceListItems
  <2>3. /\ coerced[i] = IF def.items = "number" THEN <<"number", IF EntityPage!isNumber(list[i]) THEN EntityPage!Trim(list[i]) ELSE "NaN">>
                          ELSE IF def.items = "boolean" THEN <<"boolean", IF list[i] = "true" THEN "true" ELSE "false">> ELSE <<"string", list[i]>>
    BY DEF EntityPage!coerceListItems
  <2>4. /\ def.items = "number" => EntityPage!isNumber(list[i])
        /\ def.items = "boolean" => list[i] \in {"true", "false"}
        /\ ~EntityPage!arrayRule(def, coerced)
    BY <1>5, <1>6, <2>1, <2>2
  <2>5. EntityPage!Listed(def, EntityPage!Spelled(coerced[i]))
    BY <2>2, <2>4 DEF EntityPage!arrayRule
  <2>6. def.items = "number" => EntityPage!Trim(list[i]) = list[i]
    BY DEF EntityPage!Trim
  <2> HIDE DEF coerced, list, listed, def
  <2>7. coerced[i][1] # "object" /\ coerced[i][2] = list[i]
    BY <2>3, <2>4, <2>6
  <2>8. EntityPage!Spelled(coerced[i]) = list[i]
    BY <2>7 DEF EntityPage!Spelled
  <2> QED
    BY <2>4, <2>5, <2>8 DEF EntityPage!Listed
<1>7. EntityPage!Chosen(draft, "list") = listed /\ (EntityPage!Filled(draft, "list") <=> list # <<>>)
  BY DEF EntityPage!Chosen, EntityPage!Filled
<1>8. OwnErrors(b, draft, input.slot)
  BY <1>1, <1>2 DEF OwnErrors
<1>9. ASSUME ~EntityPage!listFieldError(b, draft), input.offers # {}
      PROVE  listed \subseteq input.offers
  <2> HIDE DEF input, listed, def, list
  <2> QED BY <1>1, <1>4, <1>6, <1>9
<1> QED
  BY <1>1, <1>3, <1>7, <1>8, <1>9 DEF Errors, Settled

LEMMA EverySettled ==
  ASSUME NEW b, NEW draft, Draftable(b, draft), NEW pool
  PROVE  /\ OwnErrors(b, draft, EntityPage!EntityPropertyField(b, draft, pool).slot)
         /\ ~Errors(b, draft) => Settled(b, draft, pool)
<1> DEFINE def == EntityPage!Definition(b, draft.id)
<1>1. def.items = "number" => \A i \in DOMAIN draft.list : TrimmedText[draft.list[i]] = draft.list[i]
  BY DEF Draftable
<1>2. draft.unknown \/ def.type \in Typed
  BY DEF Draftable, EntityPage!Definition
<1>3. CASE draft.unknown
  BY Zenon, <1>3, UnknownSettled
<1>4. CASE ~draft.unknown /\ def.type \in {"string", "number"}
  BY <1>4, TextSettled
<1>5. CASE ~draft.unknown /\ def.type = "boolean"
  BY Zenon, <1>5, SwitchSettled
<1>6. CASE ~draft.unknown /\ EntityPage!UsesJson(def)
  BY Zenon, <1>6, JsonSettled
<1>7. CASE ~draft.unknown /\ def.type = "array" /\ def.items # "object"
  BY Zenon, <1>1, <1>7, ListSettled
<1> QED
  BY <1>2, <1>3, <1>4, <1>5, <1>6, <1>7 DEF Typed, EntityPage!UsesJson

\* What is sent has every property whose value is one.
LEMMA SentHas ==
  ASSUME NEW values, NEW b, NEW i \in DOMAIN values.properties,
         values.properties[i].id \notin b.computed,
         EntityPage!propertyValueToWire(values.properties[i], EntityPage!Definition(b, values.properties[i].id)) # EntityPage!Undefined
  PROVE  values.properties[i].id \in DOMAIN EntityPage!toEntityRequest(values, b).properties
  BY DEF EntityPage!toEntityRequest, EntityPage!Sent

\* What is typed into a property of an entity is sent or blocks the save at the very input it is
\* typed into, and so does a choice that is not offered; a relation that blocks it does so at its
\* own input (toEntityRequest, entityFormValidation, EntityPropertyField).
THEOREM TypedIsSentOrBlocks ==
  ASSUME NEW values, NEW b, \A i \in DOMAIN values.properties : Draftable(b, values.properties[i]), NEW pool
  PROVE  EntityPage!NothingTypedIsDropped(values, b, pool)
<1>1. ASSUME NEW i \in DOMAIN values.properties
      PROVE  LET draft == values.properties[i]
                 input == EntityPage!EntityPropertyField(b, draft, pool) IN
             /\ EntityPage!PropertyErrors(values, b, i) \subseteq {input.slot}
             /\ EntityPage!PropertyErrors(values, b, i) = {} /\ EntityPage!Filled(draft, input.slot)
                  => draft.id \in DOMAIN EntityPage!toEntityRequest(values, b).properties
             /\ EntityPage!PropertyErrors(values, b, i) = {} /\ input.offers # {} /\ input.slot \in {"text", "list"}
                  => EntityPage!Chosen(draft, input.slot) \subseteq input.offers
  <2> DEFINE draft == values.properties[i]
             input == EntityPage!EntityPropertyField(b, draft, pool)
             errors == EntityPage!PropertyErrors(values, b, i)
  <2>1. Draftable(b, draft)
    OBVIOUS
  <2>2. OwnErrors(b, draft, input.slot) /\ (~Errors(b, draft) => Settled(b, draft, pool))
    BY Zenon, <2>1, EverySettled
  <2>3. errors \subseteq {input.slot} /\ (errors = {} => ~Errors(b, draft))
    BY <2>2 DEF EntityPage!PropertyErrors, OwnErrors, Errors
  <2>4. draft.id \notin b.computed
    BY <2>1 DEF Draftable
  <2>5. ASSUME errors = {}, EntityPage!Filled(draft, input.slot)
        PROVE  draft.id \in DOMAIN EntityPage!toEntityRequest(values, b).properties
    <3>1. EntityPage!propertyValueToWire(draft, EntityPage!Definition(b, draft.id)) # EntityPage!Undefined
      BY Zenon, <2>2, <2>3, <2>5 DEF Settled
    <3> QED BY Zenon, <2>4, <3>1, SentHas
  <2>6. ASSUME errors = {}, input.offers # {}, input.slot \in {"text", "list"}
        PROVE  EntityPage!Chosen(draft, input.slot) \subseteq input.offers
    BY Zenon, <2>2, <2>3, <2>6 DEF Settled
  <2> QED BY Zenon, <2>3, <2>5, <2>6
<1>2. ASSUME NEW i \in DOMAIN values.relations, NEW slot \in EntityPage!RelationErrors(values, b, i)
      PROVE  slot = EntityPage!EntityRelationField(b.relations[values.relations[i].id]).slot
  BY DEF EntityPage!RelationErrors, EntityPage!EntityRelationField, EntityPage!Widget
<1> QED
  BY Zenon, <1>1, <1>2 DEF EntityPage!NothingTypedIsDropped

-----------------------------------------------------------------------------
(* The form of a catalog file *)

\* The spec a catalog file is sent with has the fields of its kind, what its kind requires among
\* them; every error of it is at a field on display (specFor, catalogFileFormValidation).
THEOREM FilesSendTheirKind ==
  ASSUME NEW values,
         values.kind \in CatalogPage!ENTITY_KINDS, CatalogPage!KIND_FIELDS[values.kind] \subseteq DOMAIN values.at
  PROVE  CatalogPage!SendsItsKind(values)
<1> DEFINE kind == values.kind
           spec == CatalogPage!specFor(values)
<1>1. CatalogPage!toCatalogFileRequest(values, "").spec = spec
  BY DEF CatalogPage!toCatalogFileRequest
<1>2. DOMAIN spec \subseteq CatalogPage!KIND_FIELDS[kind]
  BY DEF CatalogPage!specFor, CatalogPage!fieldApplies
<1>3. CatalogPage!Marked(kind) = CatalogPage!KIND_REQUIRED[kind]
  BY DEF CatalogPage!Marked, CatalogPage!KIND_REQUIRED, CatalogPage!KIND_FIELDS, CatalogPage!SpecFieldset, CatalogPage!fieldRequired,
         CatalogPage!Words, CatalogPage!References, CatalogPage!ENTITY_KINDS
<1>4. CatalogPage!SpecErrors(values) \subseteq CatalogPage!SpecFieldset(kind) \cup CatalogPage!ProfileFieldset(kind) \cup CatalogPage!RelationsFieldset(kind)
  <2>1. ASSUME NEW f \in CatalogPage!SpecErrors(values)
        PROVE  f \in CatalogPage!KIND_FIELDS[kind]
    <3>1. CASE f \in CatalogPage!Words
      BY <2>1, <3>1 DEF CatalogPage!SpecErrors, CatalogPage!singleWordRule, CatalogPage!fieldApplies, CatalogPage!Words, CatalogPage!References, CatalogPage!RELATION_FIELDS
    <3>2. CASE f \in CatalogPage!References
      BY <2>1, <3>2 DEF CatalogPage!SpecErrors, CatalogPage!refRule, CatalogPage!fieldApplies, CatalogPage!Words, CatalogPage!References, CatalogPage!RELATION_FIELDS
    <3>3. CASE f \in CatalogPage!RELATION_FIELDS
      BY <2>1, <3>3 DEF CatalogPage!SpecErrors, CatalogPage!refArrayRule, CatalogPage!fieldApplies, CatalogPage!Words, CatalogPage!References, CatalogPage!RELATION_FIELDS
    <3>4. CASE f \notin CatalogPage!Words \cup CatalogPage!References \cup CatalogPage!RELATION_FIELDS
      BY <2>1, <3>4 DEF CatalogPage!SpecErrors, CatalogPage!fieldApplies
    <3> QED BY <3>1, <3>2, <3>3, <3>4
  <2>2. CatalogPage!KIND_FIELDS[kind] \subseteq CatalogPage!Words \cup CatalogPage!References \cup {"definition", "profile"} \cup CatalogPage!RELATION_FIELDS
    BY DEF CatalogPage!KIND_FIELDS, CatalogPage!ENTITY_KINDS, CatalogPage!Words, CatalogPage!References, CatalogPage!RELATION_FIELDS
  <2> QED
    BY <2>1, <2>2 DEF CatalogPage!SpecFieldset, CatalogPage!ProfileFieldset, CatalogPage!RelationsFieldset
<1>5. ASSUME CatalogPage!catalogFileFormValidation(values), NEW f \in CatalogPage!KIND_REQUIRED[kind]
      PROVE  f \in DOMAIN spec
  <2> DEFINE v == CatalogPage!Trim(values.at[f])
  <2>1. f \in {"type", "lifecycle", "owner", "definition"} /\ f \in CatalogPage!KIND_FIELDS[kind]
    BY DEF CatalogPage!KIND_REQUIRED, CatalogPage!KIND_FIELDS, CatalogPage!ENTITY_KINDS
  <2>2. f \in DOMAIN values.at
    BY <2>1
  <2>3. f \notin CatalogPage!SpecErrors(values)
    BY <1>5 DEF CatalogPage!catalogFileFormValidation
  <2>4. v # ""
    <3>1. CASE f \in {"type", "lifecycle"}
      BY <2>1, <2>2, <2>3, <3>1 DEF CatalogPage!SpecErrors, CatalogPage!singleWordRule, CatalogPage!fieldApplies, CatalogPage!fieldRequired, CatalogPage!Words, CatalogPage!References, CatalogPage!RELATION_FIELDS
    <3>2. CASE f = "owner"
      BY <2>1, <2>2, <2>3, <3>2 DEF CatalogPage!SpecErrors, CatalogPage!refRule, CatalogPage!fieldApplies, CatalogPage!fieldRequired, CatalogPage!Words, CatalogPage!References, CatalogPage!RELATION_FIELDS
    <3>3. CASE f = "definition"
      BY <2>1, <2>2, <2>3, <3>3 DEF CatalogPage!SpecErrors, CatalogPage!fieldApplies, CatalogPage!Words, CatalogPage!References, CatalogPage!RELATION_FIELDS
    <3> QED BY <2>1, <3>1, <3>2, <3>3
  <2>5. CatalogPage!Trimmed(f, values.at[f]) = v /\ CatalogPage!Empty(f) = ""
    BY <2>1 DEF CatalogPage!Trimmed, CatalogPage!Empty, CatalogPage!RELATION_FIELDS
  <2> HIDE DEF v
  <2> QED
    BY <2>1, <2>2, <2>4, <2>5 DEF CatalogPage!specFor, CatalogPage!fieldApplies
<1> QED
  BY <1>1, <1>2, <1>3, <1>4, <1>5 DEF CatalogPage!SendsItsKind

\* A file is not offered itself as what it refers to, however it is spelled (refSuggestions).
THEOREM FilesAreNotOfferedThemselves ==
  ASSUME NEW Texts, \A s \in Texts : LowerText[LowerText[s]] = LowerText[s],
         NEW identities, \A i \in identities : LowerText[i.name] # "",
         NEW field, NEW values, TrimmedText[values.name] \in Texts, NEW default
  PROVE  CatalogPage!NothingRefersToItself(identities, field, values, default)
<1> DEFINE request == CatalogPage!toCatalogFileRequest(values, default)
<1>1. /\ request.kind = values.kind /\ request.name = TrimmedText[values.name]
      /\ request.namespace = IF CatalogPage!Folded(values.namespace) = "" THEN default ELSE CatalogPage!Folded(values.namespace)
  BY DEF CatalogPage!toCatalogFileRequest, CatalogPage!Trim
<1>2. CatalogPage!Folded(values.name) = LowerText[request.name] /\ LowerText[LowerText[request.name]] = LowerText[request.name]
  BY <1>1 DEF CatalogPage!Folded, CatalogPage!Trim
<1> HIDE DEF request
<1>3. ASSUME NEW i \in CatalogPage!refSuggestions(identities, field, CatalogPage!Self(values, default)),
             i.kind = request.kind, LowerText[i.name] = LowerText[request.name], LowerText[i.namespace] = LowerText[request.namespace]
      PROVE  FALSE
  <2> DEFINE self == [kind |-> values.kind, namespace |-> request.namespace, name |-> CatalogPage!Folded(values.name)]
  <2>1. i \in identities /\ LowerText[i.name] # ""
    BY <1>3 DEF CatalogPage!refSuggestions
  <2>2. CatalogPage!Self(values, default) = {self}
    BY <1>1, <1>2, <1>3, <2>1 DEF CatalogPage!Self
  <2>3. ~CatalogPage!sameIdentity(i, self)
    BY <1>3, <2>2 DEF CatalogPage!refSuggestions
  <2> QED
    BY <1>1, <1>2, <1>3, <2>3 DEF CatalogPage!sameIdentity
<1> QED
  BY <1>3 DEF CatalogPage!NothingRefersToItself, CatalogPage!refSuggestions, request

\* Of rows of labels, those of one key and those whose value their key does not take.
KeysApart(rows) == \A i, j \in DOMAIN rows : i # j /\ rows[i].key # "" => rows[i].key # rows[j].key
ValueTaken(registry, given, row) ==
  \/ row.value = "" \/ \E r \in CatalogPage!ToSet(given) : r = row
  \/ row.key \in DOMAIN registry /\ row.value \in registry[row.key].values

LEMMA LabelsApartMeans ==
  ASSUME NEW registry, NEW given, NEW v
  PROVE  CatalogPage!LabelsApart(registry, given, v) <=> KeysApart(v.labels) /\ \A i \in DOMAIN v.labels : ValueTaken(registry, given, v.labels[i])
<1>1. \A offered, current : current # "" => current \in CatalogPage!Kept(offered, current)
  BY DEF CatalogPage!Kept
<1>2. \A i \in DOMAIN v.labels :
        /\ v.labels[i].key # "" => v.labels[i].key \in CatalogPage!LabelsFieldset(registry, v, i).keys
        /\ v.labels[i].value # "" => v.labels[i].value \in CatalogPage!LabelsFieldset(registry, v, i).values
  BY <1>1 DEF CatalogPage!LabelsFieldset, CatalogPage!KeyOptions
<1>3. CatalogPage!LabelsApart(registry, given, v) <=>
        /\ KeysApart(v.labels)
        /\ \A i \in DOMAIN v.labels : /\ v.labels[i].key # "" => v.labels[i].key \in CatalogPage!LabelsFieldset(registry, v, i).keys
                                      /\ v.labels[i].value # "" => v.labels[i].value \in CatalogPage!LabelsFieldset(registry, v, i).values
                                      /\ ValueTaken(registry, given, v.labels[i])
  BY DEF CatalogPage!LabelsApart, KeysApart, ValueTaken
<1> QED
  BY <1>2, <1>3

LabelRows(Texts) == [key : Texts, value : Texts]

\* The places the rows of a longer or a shorter list come from.
LEMMA RowAppended ==
  ASSUME NEW S, NEW rows \in Seq(S), NEW row \in S
  PROVE  \A i \in DOMAIN Append(rows, row) : (i \in DOMAIN rows /\ Append(rows, row)[i] = rows[i]) \/ Append(rows, row)[i] = row
<1> DEFINE after == Append(rows, row)
<1>1. /\ Len(rows) \in Nat /\ DOMAIN rows = 1 .. Len(rows) /\ DOMAIN after = 1 .. (Len(rows) + 1)
      /\ \A i \in 1 .. Len(rows) : after[i] = rows[i]
      /\ after[Len(rows) + 1] = row
  BY AppendProperties, LenProperties
<1> HIDE DEF after
<1>2. \A i \in DOMAIN after : (i \in DOMAIN rows /\ after[i] = rows[i]) \/ after[i] = row
  BY <1>1
<1> QED BY <1>2 DEF after

LEMMA RowRemoved ==
  ASSUME NEW S, NEW rows \in Seq(S), NEW at \in DOMAIN rows
  PROVE  \E from \in [DOMAIN CatalogPage!RemoveAt(rows, at) -> DOMAIN rows] :
           /\ \A i \in DOMAIN from : CatalogPage!RemoveAt(rows, at)[i] = rows[from[i]]
           /\ \A i, j \in DOMAIN from : i # j => from[i] # from[j]
<1> DEFINE after == CatalogPage!RemoveAt(rows, at)
           before == SubSeq(rows, 1, at - 1)
           behind == SubSeq(rows, at + 1, Len(rows))
           from == [i \in DOMAIN after |-> IF i < at THEN i ELSE i + 1]
<1>1. Len(rows) \in Nat /\ DOMAIN rows = 1 .. Len(rows) /\ at \in 1 .. Len(rows) /\ at \in Nat
  BY LenProperties
<1>2. /\ before \in Seq(S) /\ Len(before) = at - 1
      /\ \A i \in 1 .. at - 1 : before[i] = rows[i]
  BY <1>1, SubSeqProperties
<1>3. behind \in Seq(S) /\ Len(behind) = Len(rows) - at
  BY <1>1, SubSeqProperties
<1>4. \A i \in 1 .. Len(rows) - at : behind[i] = rows[at + i]
  <2>1. \A i \in 1 .. Len(rows) - (at + 1) + 1 : behind[i] = rows[at + 1 + i - 1]
    BY <1>1, SubSeqProperties
  <2> HIDE DEF behind
  <2>2. \A i \in 1 .. Len(rows) - at : i \in 1 .. Len(rows) - (at + 1) + 1 /\ at + 1 + i - 1 = at + i
    BY <1>1
  <2> QED BY <2>1, <2>2
<1>5. after = before \o behind
  BY DEF CatalogPage!RemoveAt
<1> HIDE DEF before, behind, after
<1>6. /\ after \in Seq(S) /\ Len(after) = (at - 1) + (Len(rows) - at)
      /\ \A i \in 1 .. (at - 1) + (Len(rows) - at) : after[i] = IF i <= at - 1 THEN before[i] ELSE behind[i - (at - 1)]
  BY <1>2, <1>3, <1>5, ConcatProperties
<1>7. DOMAIN after = 1 .. Len(rows) - 1
  BY <1>1, <1>6, LenProperties
<1>8. ASSUME NEW i \in DOMAIN after
      PROVE  after[i] = rows[from[i]] /\ from[i] \in DOMAIN rows
  <2>1. CASE i < at
    BY <1>1, <1>2, <1>6, <1>7, <2>1
  <2>2. CASE ~(i < at)
    <3>1. i - (at - 1) \in 1 .. Len(rows) - at /\ at + (i - (at - 1)) = i + 1 /\ i + 1 \in 1 .. Len(rows) /\ i \in 1 .. (at - 1) + (Len(rows) - at)
      BY <1>1, <1>7, <2>2
    <3>2. after[i] = behind[i - (at - 1)]
      BY <1>1, <1>6, <2>2, <3>1
    <3> QED BY <1>1, <1>4, <2>2, <3>1, <3>2
  <2> QED BY <2>1, <2>2
<1>9. \A i, j \in DOMAIN after : i # j => from[i] # from[j]
  BY <1>1, <1>7
<1>10. from \in [DOMAIN after -> DOMAIN rows]
  BY <1>8
<1> QED BY <1>8, <1>9, <1>10 DEF after

LEMMA RemovedApart ==
  ASSUME NEW S, NEW rows \in Seq(S), NEW at \in DOMAIN rows, KeysApart(rows)
  PROVE  /\ KeysApart(CatalogPage!RemoveAt(rows, at))
         /\ \A i \in DOMAIN CatalogPage!RemoveAt(rows, at) : \E j \in DOMAIN rows : CatalogPage!RemoveAt(rows, at)[i] = rows[j]
<1> DEFINE after == CatalogPage!RemoveAt(rows, at)
<1> HIDE DEF after
<1>1. PICK from \in [DOMAIN after -> DOMAIN rows] : /\ \A i \in DOMAIN from : after[i] = rows[from[i]]
                                                  /\ \A i, j \in DOMAIN from : i # j => from[i] # from[j]
  BY RowRemoved DEF after
<1>2. /\ \A i \in DOMAIN after : from[i] \in DOMAIN rows /\ after[i] = rows[from[i]]
      /\ \A i, j \in DOMAIN after : i # j => from[i] # from[j]
  BY <1>1
<1>3. ASSUME NEW i \in DOMAIN after, NEW j \in DOMAIN after, i # j, after[i].key # ""
      PROVE  after[i].key # after[j].key
  <2>1. from[i] \in DOMAIN rows /\ from[j] \in DOMAIN rows /\ from[i] # from[j]
    BY Zenon, <1>2, <1>3
  <2>2. after[i] = rows[from[i]] /\ after[j] = rows[from[j]]
    BY Zenon, <1>2
  <2>3. rows[from[i]].key # "" => rows[from[i]].key # rows[from[j]].key
    BY Zenon, <2>1 DEF KeysApart
  <2> QED BY Zenon, <1>3, <2>2, <2>3
<1>4. KeysApart(after)
  BY Zenon, <1>3 DEF KeysApart
<1> QED BY <1>2, <1>4 DEF after

\* A row changed keeps its key or takes one no other has.
LEMMA ChangedApart ==
  ASSUME NEW rows, KeysApart(rows), NEW at \in DOMAIN rows, NEW new,
         new.key = "" \/ \A j \in DOMAIN rows \ {at} : new.key # rows[j].key
  PROVE  KeysApart([rows EXCEPT ![at] = new])
<1> DEFINE after == [rows EXCEPT ![at] = new]
<1>1. DOMAIN after = DOMAIN rows /\ after[at] = new /\ \A i \in DOMAIN rows \ {at} : after[i] = rows[i]
  OBVIOUS
<1> HIDE DEF after
<1>2. ASSUME NEW i \in DOMAIN after, NEW j \in DOMAIN after, i # j, after[i].key # ""
      PROVE  after[i].key # after[j].key
  <2>1. rows[i].key # "" => rows[i].key # rows[j].key
    BY <1>1, <1>2 DEF KeysApart
  <2> QED BY <1>1, <1>2, <2>1
<1>3. KeysApart(after)
  BY <1>2 DEF KeysApart
<1> QED BY <1>3 DEF after

LEMMA RowHeld == ASSUME NEW S, NEW rows \in Seq(S), NEW at \in DOMAIN rows PROVE rows[at] \in S
  BY LenProperties

LEMMA ValueChanged ==
  ASSUME NEW Texts, NEW row \in LabelRows(Texts), NEW v
  PROVE  [row EXCEPT !.value = v] = [key |-> row.key, value |-> v]
  BY DEF LabelRows

\* Whatever is done to its labels, a file keeps no two rows of one key, nor a value its key does
\* not take (LabelsFieldset of the catalog file form).
THEOREM EditsKeepLabelsApart ==
  ASSUME NEW Texts, "" \in Texts, NEW Fields, {"kind", "labels"} \subseteq Fields, NEW Held,
         NEW registry, NEW given, NEW values \in [Fields -> Held], values.labels \in Seq(LabelRows(Texts)),
         CatalogPage!LabelsApart(registry, given, values), NEW op
  PROVE  CatalogPage!LabelsApart(registry, given, CatalogPage!EditLabels(registry, values, op))
<1> DEFINE rows == values.labels
           after == CatalogPage!EditLabels(registry, values, op)
           row == rows[op.at]
           offered == CatalogPage!LabelsFieldset(registry, values, op.at)
           Taken(r) == ValueTaken(registry, given, r)
<1>1. KeysApart(rows) /\ \A i \in DOMAIN rows : Taken(rows[i])
  BY LabelsApartMeans
<1>2. SUFFICES KeysApart(after.labels) /\ \A i \in DOMAIN after.labels : Taken(after.labels[i])
  BY LabelsApartMeans
<1>3. CASE op.do = "add" /\ CatalogPage!Allowed(registry, values.kind) # {}
  <2> DEFINE blank == [key |-> "", value |-> ""]
  <2>1. after.labels = Append(rows, blank)
    BY <1>3 DEF CatalogPage!EditLabels
  <2>2. blank \in LabelRows(Texts) /\ blank.key = "" /\ Taken(blank)
    BY DEF ValueTaken, LabelRows
  <2> HIDE DEF after, rows, blank, Taken
  <2>3. rows \in Seq(LabelRows(Texts))
    BY DEF rows
  <2>4. \A i \in DOMAIN after.labels : (i \in DOMAIN rows /\ after.labels[i] = rows[i]) \/ after.labels[i] = blank
    <3>1. \A i \in DOMAIN Append(rows, blank) : (i \in DOMAIN rows /\ Append(rows, blank)[i] = rows[i]) \/ Append(rows, blank)[i] = blank
      BY Zenon, <2>2, <2>3, RowAppended
    <3> QED BY Zenon, <2>1, <3>1
  <2>5. \A i \in DOMAIN after.labels : Taken(after.labels[i])
    BY Zenon, <1>1, <2>2, <2>4
  <2>6. KeysApart(after.labels)
    BY Zenon, <1>1, <2>2, <2>4 DEF KeysApart
  <2> QED
    BY <2>5, <2>6
<1>4. CASE op.do = "key" /\ op.at \in DOMAIN rows /\ op.to \in offered.keys
  <2> DEFINE new == [key |-> CatalogPage!Picked(row.key, op.to), value |-> ""]
  <2>1. after.labels = [rows EXCEPT ![op.at] = new]
    BY <1>4 DEF CatalogPage!EditLabels
  <2>2. Taken(new)
    BY DEF ValueTaken
  <2>3. new.key = "" \/ \A j \in DOMAIN rows \ {op.at} : new.key # rows[j].key
    <3>1. op.to = row.key \/ op.to \notin {rows[j].key : j \in DOMAIN rows}
      BY <1>4 DEF CatalogPage!LabelsFieldset, CatalogPage!KeyOptions, CatalogPage!Kept
    <3> QED BY <3>1 DEF CatalogPage!Picked
  <2> HIDE DEF after, new, rows, Taken
  <2>4. KeysApart(after.labels)
    <3>1. KeysApart([rows EXCEPT ![op.at] = new])
      BY Zenon, <1>1, <1>4, <2>3, ChangedApart
    <3> QED BY Zenon, <2>1, <3>1
  <2> QED
    BY <1>1, <2>1, <2>2, <2>4
<1>5. CASE op.do = "value" /\ op.at \in DOMAIN rows /\ op.to \in offered.values
  <2> DEFINE new == [key |-> row.key, value |-> CatalogPage!Picked(row.value, op.to)]
  <2>1. after.labels = [rows EXCEPT ![op.at] = new]
    <3>1. row \in LabelRows(Texts)
      BY Zenon, <1>5, RowHeld
    <3>2. [row EXCEPT !.value = CatalogPage!Picked(row.value, op.to)] = new
      BY Zenon, <3>1, ValueChanged
    <3>3. after = [values EXCEPT !.labels[op.at].value = CatalogPage!Picked(@, op.to)]
      BY <1>5 DEF CatalogPage!EditLabels
    <3> QED BY <3>2, <3>3
  <2>2. Taken(new)
    BY <1>5 DEF ValueTaken, CatalogPage!LabelsFieldset, CatalogPage!Kept, CatalogPage!Picked
  <2>3. new.key = row.key
    OBVIOUS
  <2>4. new.key = "" \/ \A j \in DOMAIN rows \ {op.at} : new.key # rows[j].key
    BY <1>1, <1>5, <2>3 DEF KeysApart
  <2> HIDE DEF after, new, rows, Taken
  <2>5. KeysApart(after.labels)
    <3>1. KeysApart([rows EXCEPT ![op.at] = new])
      BY Zenon, <1>1, <1>5, <2>4, ChangedApart
    <3> QED BY Zenon, <2>1, <3>1
  <2> QED
    BY <1>1, <2>1, <2>2, <2>5
<1>6. CASE op.do = "remove" /\ op.at \in DOMAIN rows
  <2>1. after.labels = CatalogPage!RemoveAt(rows, op.at)
    BY <1>6 DEF CatalogPage!EditLabels
  <2> HIDE DEF after, rows, Taken
  <2>2. rows \in Seq(LabelRows(Texts))
    BY DEF rows
  <2>3. KeysApart(after.labels) /\ \A i \in DOMAIN after.labels : \E j \in DOMAIN rows : after.labels[i] = rows[j]
    <3>1. op.at \in DOMAIN rows /\ KeysApart(rows)
      BY Zenon, <1>1, <1>6
    <3>2. /\ KeysApart(CatalogPage!RemoveAt(rows, op.at))
          /\ \A i \in DOMAIN CatalogPage!RemoveAt(rows, op.at) : \E j \in DOMAIN rows : CatalogPage!RemoveAt(rows, op.at)[i] = rows[j]
      <4> DEFINE place == op.at
      <4>1. place \in DOMAIN rows /\ KeysApart(rows)
        BY Zenon, <3>1
      <4> HIDE DEF place
      <4>2. /\ KeysApart(CatalogPage!RemoveAt(rows, place))
            /\ \A i \in DOMAIN CatalogPage!RemoveAt(rows, place) : \E j \in DOMAIN rows : CatalogPage!RemoveAt(rows, place)[i] = rows[j]
        BY <2>2, <4>1, RemovedApart
      <4> QED BY <4>2 DEF place
    <3> QED BY <2>1, <3>2
  <2> QED
    BY Zenon, <1>1, <2>3
<1>7. CASE op.do = "kind"
  <2>1. after.labels = rows
    BY <1>7 DEF CatalogPage!EditLabels
  <2> QED
    BY <1>1, <2>1
<1>8. CASE after = values
  BY <1>1, <1>8
<1> QED
  BY <1>3, <1>4, <1>5, <1>6, <1>7, <1>8 DEF CatalogPage!EditLabels
=============================================================================
