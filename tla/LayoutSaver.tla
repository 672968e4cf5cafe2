----------------------------- MODULE LayoutSaver -----------------------------
(***************************************************************************)
(* The saver of the per-user graph layout: one controller per signed-in    *)
(* account, held by the query cache of a tab, which loads the document     *)
(* once, edits it in memory and writes it back behind a debounce, one      *)
(* write at a time, the newest document only.  The session of the browser  *)
(* may be replaced under it by this tab, at once, or by another tab, with  *)
(* a storage event that comes later.  A document stands for the number of  *)
(* the edit that made it, so that a request carries the document for its   *)
(* version too.                                                            *)
(***************************************************************************)
EXTENDS Naturals, FiniteSets

CONSTANTS
    Users,         \* the accounts that sign in
    Families,      \* their sessions
    UserOf,        \* the account of a session
    MaxEdits,      \* bound on the edits
    MaxSessions,   \* bound on the sessions opened one after the other
    None

Documents == 0 .. MaxEdits

\* inflight: the write under way, and whether the server has applied it.
Controllers ==
    [family : Families, phase : {"loading", "ready", "loadError"}, document : Documents \cup {None},
     loading : BOOLEAN, pending : BOOLEAN, saving : BOOLEAN, saveError : BOOLEAN, timer : BOOLEAN,
     queued : Documents \cup {None}, inflight : Documents \cup {None}, applied : BOOLEAN,
     session : Families, cleanup : BOOLEAN]

ASSUME LayoutSaverAssumption ==
    /\ UserOf \in [Families -> Users]
    /\ None \notin Users \cup Families \cup Nat \cup Controllers
    /\ MaxEdits \in Nat /\ MaxSessions \in Nat

VARIABLES
    family,       \* localStorage: the session whose tokens are stored, or None
    opened,       \* the sessions opened so far
    heard,        \* no storage event is on its way to this tab
    layouts,      \* the server: the document of every account
    controllers,  \* the tab: the controller of an account, or None
    mounted,      \* the account whose controller the page on screen listens to
    edits,        \* the number of edits made so far
    astray,       \* writes given up that may still reach the server
    abandoned     \* the accounts a write of which was ever given up

saverVars == <<family, opened, heard, layouts, controllers, mounted, edits, astray, abandoned>>

SessionUser == IF family = None THEN None ELSE UserOf[family]

SaverInit ==
    /\ family = None /\ opened = {} /\ heard = TRUE
    /\ layouts = [u \in Users |-> 0]
    /\ controllers = [u \in Users |-> None]
    /\ mounted = None
    /\ edits = 0 /\ astray = {} /\ abandoned = {}
-----------------------------------------------------------------------------
\* Mutant: the session is not compared, only the account.
SameUser(u, c) == SessionUser = u

SameSession(u, c) == SessionUser = u /\ c.family = family

\* dispose, by way of the query cache: what is under way is left to itself.
\* A write the server has not applied yet may still reach it.
Astray(u) ==
    IF controllers[u] = None THEN {}
    ELSE IF controllers[u].inflight = None \/ controllers[u].applied THEN {}
    ELSE {[user |-> u, document |-> controllers[u].inflight, session |-> controllers[u].session]}

Dispose(us) ==
    LET left == UNION {Astray(u) : u \in us} IN
    /\ controllers' = [u \in Users |-> IF u \in us THEN None ELSE controllers[u]]
    /\ astray' = astray \cup left
    /\ abandoned' = abandoned \cup {w.user : w \in left}

Put(u, c) == controllers' = [controllers EXCEPT ![u] = c] /\ UNCHANGED <<astray, abandoned>>

Listens(u) == mounted = u

\* scheduleCleanup: the timer of 0 ms that runs once nobody listens.
Scheduled(u, c) == [c EXCEPT !.cleanup = @ \/ ~Listens(u)]

\* pump: the newest document goes out when nothing is under way and no failure
\* waits for its retry.  A caller has checked the session.
Pumped(c) ==
    IF c.inflight # None \/ c.queued = None \/ c.saveError THEN c
    ELSE [c EXCEPT !.inflight = c.queued, !.queued = None, !.applied = FALSE, !.saving = TRUE, !.session = family,
                   !.pending = c.queued # c.document \/ c.timer]

\* enqueueLatest.
EnqueueLatest(u, c) ==
    IF SameSession(u, c) THEN Put(u, Pumped([c EXCEPT !.queued = c.document])) ELSE Dispose({u})
-----------------------------------------------------------------------------
(* The page.                                                               *)

NewController ==
    [family |-> family, phase |-> "loading", document |-> None, loading |-> TRUE, pending |-> FALSE,
     saving |-> FALSE, saveError |-> FALSE, timer |-> FALSE, queued |-> None, inflight |-> None,
     applied |-> FALSE, session |-> family, cleanup |-> FALSE]

\* load: once, and only for the session the controller was made in.
MayLoad(c) == ~c.loading /\ c.phase = "loading" /\ c.document = None

\* A render takes the controller of the account signed in now, or makes one,
\* and listens to it; the former one is left to its cleanup.
Render ==
    LET u == SessionUser IN
    /\ u # None
    /\ mounted # u \/ controllers[u] = None
    /\ mounted' = u
    /\ LET left(v) == IF v = u \/ v # mounted \/ controllers[v] = None THEN controllers[v]
                      ELSE [controllers[v] EXCEPT !.cleanup = TRUE]
           c == controllers[u] IN
       IF c # None /\ MayLoad(c) /\ ~SameSession(u, c)
         THEN Dispose({u})
         ELSE /\ controllers' = [v \in Users |-> IF v # u THEN left(v)
                                                 ELSE IF c = None THEN NewController
                                                 ELSE [c EXCEPT !.cleanup = FALSE, !.loading = @ \/ MayLoad(c)]]
              /\ UNCHANGED <<astray, abandoned>>
    /\ UNCHANGED <<family, opened, heard, layouts, edits>>

Leave ==
    /\ mounted # None
    /\ mounted' = None
    /\ controllers' = [u \in Users |-> IF u = mounted /\ controllers[u] # None
                                         THEN [controllers[u] EXCEPT !.cleanup = TRUE] ELSE controllers[u]]
    /\ UNCHANGED <<family, opened, heard, layouts, edits, astray, abandoned>>

\* update: a drag is debounced, a fold or a switch of the mode is not.
Update(u, debounce) ==
    LET c == controllers[u]
        edited == [c EXCEPT !.document = edits + 1, !.pending = TRUE] IN
    /\ c # None /\ Listens(u) /\ c.phase = "ready" /\ edits < MaxEdits
    /\ edits' = edits + 1
    /\ IF c.saveError THEN Put(u, edited)
       ELSE IF debounce THEN Put(u, [edited EXCEPT !.timer = TRUE])
       ELSE EnqueueLatest(u, [edited EXCEPT !.timer = FALSE])
    /\ UNCHANGED <<family, opened, heard, layouts, mounted>>

\* The debounce, kept when the page is left.
TimerFires(u) ==
    LET c == controllers[u] IN
    /\ c # None /\ c.timer
    /\ EnqueueLatest(u, [c EXCEPT !.timer = FALSE])
    /\ UNCHANGED <<family, opened, heard, layouts, mounted, edits>>

RetryLoad(u) ==
    LET c == controllers[u] IN
    /\ c # None /\ Listens(u) /\ c.phase = "loadError" /\ ~c.loading
    /\ IF SameSession(u, c) THEN Put(u, [c EXCEPT !.phase = "loading", !.loading = TRUE]) ELSE Dispose({u})
    /\ UNCHANGED <<family, opened, heard, layouts, mounted, edits>>

RetrySave(u) ==
    LET c == controllers[u] IN
    /\ c # None /\ Listens(u) /\ c.saveError
    /\ EnqueueLatest(u, [c EXCEPT !.saveError = FALSE, !.pending = TRUE])
    /\ UNCHANGED <<family, opened, heard, layouts, mounted, edits>>
-----------------------------------------------------------------------------
(* The calls.                                                              *)

LoadEnds(u, ok) ==
    LET c == controllers[u] IN
    /\ c # None /\ c.loading
    /\ IF ~SameSession(u, c) THEN Dispose({u})
       ELSE Put(u, Scheduled(u, IF ok THEN [c EXCEPT !.phase = "ready", !.document = layouts[u], !.loading = FALSE]
                                      ELSE [c EXCEPT !.phase = "loadError", !.loading = FALSE]))
    /\ UNCHANGED <<family, opened, heard, layouts, mounted, edits>>

\* The server applies a write it is asked for.
Apply(u) ==
    LET c == controllers[u] IN
    /\ c # None /\ c.inflight # None /\ ~c.applied
    /\ layouts' = [layouts EXCEPT ![u] = c.inflight]
    /\ Put(u, [c EXCEPT !.applied = TRUE])
    /\ UNCHANGED <<family, opened, heard, mounted, edits>>

\* Mutant: a write that is done says that nothing is pending.
SaveSucceedsClean(u) ==
    LET c == controllers[u] IN
    /\ c # None /\ c.inflight # None /\ c.applied
    /\ Put(u, Scheduled(u, Pumped([c EXCEPT !.inflight = None, !.saving = FALSE, !.pending = FALSE])))
    /\ UNCHANGED <<family, opened, heard, layouts, mounted, edits>>

SaveSucceeds(u) ==
    LET c == controllers[u]
        savedLatest == c.inflight = c.document /\ c.queued = None /\ ~c.timer
        done == [c EXCEPT !.inflight = None, !.saving = FALSE, !.pending = ~savedLatest] IN
    /\ c # None /\ c.inflight # None /\ c.applied
    /\ IF done.queued # None /\ ~SameSession(u, c) THEN Dispose({u})
       ELSE Put(u, Scheduled(u, Pumped(done)))
    /\ UNCHANGED <<family, opened, heard, layouts, mounted, edits>>

\* Refused, or the answer was lost: whatever waited is dropped, until Retry
\* sends the newest document.  At the deadline the write itself may still be on
\* its way.
SaveFails(u) ==
    LET c == controllers[u]
        failed == Scheduled(u, [c EXCEPT !.inflight = None, !.queued = None, !.timer = FALSE, !.saving = FALSE,
                                         !.pending = TRUE, !.saveError = TRUE]) IN
    /\ c # None /\ c.inflight # None
    /\ \/ Put(u, failed)
       \/ /\ ~c.applied
          /\ controllers' = [controllers EXCEPT ![u] = failed]
          /\ astray' = astray \cup Astray(u) /\ abandoned' = abandoned \cup {u}
    /\ UNCHANGED <<family, opened, heard, layouts, mounted, edits>>

LateWrite(w) ==
    /\ w \in astray
    /\ astray' = astray \ {w}
    /\ layouts' \in {layouts, [layouts EXCEPT ![w.user] = w.document]}
    /\ UNCHANGED <<family, opened, heard, controllers, mounted, edits, abandoned>>

\* Mutant: a page that is left lets its controller go at once.
AlwaysClean(c) == TRUE

\* The cleanup timer: only a controller with nothing to lose is let go.
SettledClean(c) ==
    /\ c.phase = "ready" /\ ~c.pending /\ ~c.saving /\ ~c.saveError
    /\ ~c.loading /\ ~c.timer /\ c.inflight = None /\ c.queued = None

Cleanup(u) ==
    LET c == controllers[u] IN
    /\ c # None /\ c.cleanup
    /\ IF ~Listens(u) /\ SettledClean(c) THEN Dispose({u}) ELSE Put(u, [c EXCEPT !.cleanup = FALSE])
    /\ UNCHANGED <<family, opened, heard, layouts, mounted, edits>>
-----------------------------------------------------------------------------
(* The session changes.                                                    *)

Opens(f) ==
    /\ f \in (Families \ opened) \cup {None} /\ f # family
    /\ f # None => Cardinality(opened) < MaxSessions
    /\ family' = f
    /\ opened' = opened \cup ({f} \ {None})

\* In this tab: every controller goes with the query cache.
ThisTabSigns(f) ==
    /\ Opens(f)
    /\ Dispose(Users)
    /\ UNCHANGED <<heard, layouts, mounted, edits>>

OtherTabSigns(f) ==
    /\ Opens(f)
    /\ heard' = FALSE
    /\ UNCHANGED <<layouts, controllers, mounted, edits, astray, abandoned>>

\* The storage event: a controller made for the session that is stored now has
\* subscribed since, and compares with it.
StorageArrives ==
    /\ ~heard /\ heard' = TRUE
    /\ Dispose({u \in Users : controllers[u] # None /\ controllers[u].family # family})
    /\ UNCHANGED <<family, opened, layouts, mounted, edits>>
-----------------------------------------------------------------------------
ControllerStep(u) ==
    \/ \E debounce \in BOOLEAN : Update(u, debounce)
    \/ TimerFires(u) \/ RetryLoad(u) \/ RetrySave(u)
    \/ \E ok \in BOOLEAN : LoadEnds(u, ok)
    \/ Apply(u) \/ SaveSucceeds(u) \/ SaveFails(u) \/ Cleanup(u)

SaverNext ==
    \/ Render \/ Leave \/ StorageArrives
    \/ \E u \in Users : ControllerStep(u)
    \/ \E w \in astray : LateWrite(w)
    \/ \E f \in Families \cup {None} : ThisTabSigns(f) \/ OtherTabSigns(f)

\* The debounce fires, the server applies what reaches it, and every call is
\* answered within its deadline.
SaverFairness ==
    \A u \in Users :
      /\ WF_saverVars(TimerFires(u))
      /\ WF_saverVars(Apply(u))
      /\ WF_saverVars(SaveSucceeds(u))

SaverSpec == SaverInit /\ [][SaverNext]_saverVars /\ SaverFairness
-----------------------------------------------------------------------------
SaverTypeOK ==
    /\ family \in Families \cup {None} /\ opened \subseteq Families
    /\ heard \in BOOLEAN
    /\ layouts \in [Users -> Documents]
    /\ controllers \in [Users -> Controllers \cup {None}]
    /\ mounted \in Users \cup {None} /\ edits \in Documents
    /\ astray \subseteq [user : Users, document : Documents, session : Families]
    /\ abandoned \subseteq Users

Unsaved(c) == c.pending \/ c.saving

\* Every account's document is the abstract store: it only moves forward along
\* the edits, and "nothing pending" means stored, for as long as no write was
\* given up while it could still reach the server.
StoreOf(u) == INSTANCE LayoutStore WITH
    NoDocument <- None,
    stored <- layouts[u],
    edited <- IF controllers[u] = None THEN None ELSE controllers[u].document,
    clean <- controllers[u] # None /\ controllers[u].phase = "ready" /\ ~Unsaved(controllers[u]),
    abandoned <- u \in abandoned

ImplementsStore ==
    /\ \A u \in Users : StoreOf(u)!Init
    /\ [][\A u \in Users : StoreOf(u)!Next \/ UNCHANGED StoreOf(u)!vars]_saverVars

\* A document goes out under a session of the account it belongs to, the very
\* one its page was opened in.
WritesKeepTheirSession ==
    \A u \in Users : LET c == controllers[u] IN
      c # None => /\ UserOf[c.family] = u
                  /\ c.inflight # None => c.session = c.family

\* An edit is written, unless a failure offers its retry or the session that
\* made it ends; leaving the page does not lose it.
EditsAreWritten ==
    \A f \in Families : LET u == UserOf[f] IN
      controllers[u] # None /\ controllers[u].family = f /\ Unsaved(controllers[u])
        ~> \/ controllers[u] # None /\ (controllers[u].saveError \/ ~Unsaved(controllers[u]))
           \/ family # f
=============================================================================
