--------------------------- MODULE WebGraphProofs ---------------------------
(***************************************************************************)
(* Proofs about the saver of the graph layout (LayoutSaver) and about the  *)
(* graph page with its runner (GraphPage), for any number of accounts,     *)
(* sessions, edits, jobs and graphs.                                       *)
(***************************************************************************)
EXTENDS LayoutSaver, GraphPage, TLAPS

(***************************************************************************)
(* The saver.  What a controller keeps: the documents it still has to do   *)
(* with lie in the order stored, under way, waiting, shown, unless a write *)
(* of the account was given up; and a controller that has nothing pending  *)
(* shows the document that is stored or under way.                         *)
(***************************************************************************)
Idle(c) ==
    /\ c.inflight = None /\ c.queued = None
    /\ ~c.timer /\ ~c.pending /\ ~c.saving /\ ~c.saveError

InOrder(c, saved) ==
    /\ c.document # None => saved <= c.document
    /\ c.inflight # None => /\ saved <= c.inflight /\ c.inflight <= c.document
                            /\ c.applied => saved = c.inflight
    /\ c.queued # None => /\ saved <= c.queued /\ c.queued <= c.document
                          /\ c.inflight # None => c.inflight <= c.queued
    /\ c.document # None /\ ~c.pending =>
         c.queued = None /\ c.document = (IF c.inflight # None THEN c.inflight ELSE saved)

\* A controller of account u, while the newest edit is `newest'.
Kept(u, c, newest) ==
    /\ c \in Controllers
    /\ UserOf[c.family] = u
    /\ c.inflight # None => c.session = c.family
    /\ c.loading => c.phase = "loading"
    /\ c.phase = "ready" <=> c.document # None
    /\ c.phase # "ready" => Idle(c)
    /\ c.saving <=> c.inflight # None
    /\ c.timer => c.pending
    /\ c.saveError => c.pending /\ ~c.timer /\ c.inflight = None /\ c.queued = None
    /\ c.document # None => c.document <= newest
    /\ c.inflight # None => c.inflight <= newest
    /\ c.queued # None => c.queued <= newest

SaverInv ==
    /\ SaverTypeOK
    /\ \A u \in Users : layouts[u] <= edits
    /\ \A w \in astray : w.user \in abandoned /\ w.document <= edits
    /\ \A u \in Users : controllers[u] # None =>
         /\ Kept(u, controllers[u], edits)
         /\ u \notin abandoned => InOrder(controllers[u], layouts[u])

-----------------------------------------------------------------------------
(* What a controller may become *)

\* More edits of other pages change nothing of it.
LEMMA KeptLater ==
    ASSUME NEW u, NEW c, NEW n \in Documents, NEW m \in Documents, n <= m, Kept(u, c, n)
    PROVE  Kept(u, c, m)
    BY LayoutSaverAssumption DEF Kept, Controllers, Documents

\* The timer of a controller starts and stops.
LEMMA TimerSet ==
    ASSUME NEW c \in Controllers, NEW b \in BOOLEAN
    PROVE  [c EXCEPT !.timer = b] \in Controllers
<1>1. [c EXCEPT !.timer = TRUE] \in Controllers
    BY DEF Controllers
<1>2. [c EXCEPT !.timer = FALSE] \in Controllers
    BY DEF Controllers
<1>3. CASE b
    BY <1>1, <1>3
<1>4. CASE ~b
    BY <1>2, <1>4
<1> QED
    BY <1>3, <1>4

\* pump sends a document under the session its controller belongs to.
LEMMA PumpedKept ==
    ASSUME NEW u \in Users, NEW c, NEW n \in Documents, Kept(u, c, n),
           c.queued # None => family \in Families /\ c.family = family
    PROVE  /\ Kept(u, Pumped(c), n)
           /\ Pumped(c).document = c.document /\ Pumped(c).phase = c.phase
           /\ (Pumped(c).pending = c.pending /\ Pumped(c).saving = c.saving) \/ Pumped(c).saving
           /\ \A saved \in Documents : InOrder(c, saved) => InOrder(Pumped(c), saved)
<1>1. c \in Controllers /\ None \notin Documents
    BY LayoutSaverAssumption DEF Kept, Documents
<1>2. CASE c.inflight # None \/ c.queued = None \/ c.saveError
    BY <1>2 DEF Pumped
<1>3. CASE c.inflight = None /\ c.queued # None /\ ~c.saveError
  <2> DEFINE d == Pumped(c)
  <2>1. /\ d \in Controllers /\ d.family = c.family /\ d.phase = c.phase /\ d.document = c.document
        /\ d.loading = c.loading /\ d.pending = (c.queued # c.document \/ c.timer) /\ d.saving = TRUE
        /\ d.saveError = c.saveError /\ d.timer = c.timer /\ d.queued = None /\ d.inflight = c.queued
        /\ d.applied = FALSE /\ d.session = family
      BY <1>1, <1>3, ZenonT(40) DEF Pumped, Controllers
  <2> HIDE DEF d
  <2>2. c.phase = "ready"
      BY <1>3 DEF Kept, Idle
  <2>3. Kept(u, d, n)
      BY <1>3, <2>1, <2>2 DEF Kept
  <2>4. ASSUME NEW saved \in Documents, InOrder(c, saved) PROVE InOrder(d, saved)
      BY <1>3, <2>1, <2>2, <2>4 DEF InOrder
  <2> QED
      BY <2>1, <2>3, <2>4 DEF d
<1> QED
    BY <1>2, <1>3

\* scheduleCleanup touches nothing but the flag of the cleanup.
LEMMA ScheduledKept ==
    ASSUME NEW u \in Users, NEW c, NEW n \in Documents, Kept(u, c, n)
    PROVE  /\ Kept(u, Scheduled(u, c), n)
           /\ \A saved \in Documents : InOrder(c, saved) => InOrder(Scheduled(u, c), saved)
           /\ Scheduled(u, c).document = c.document /\ Scheduled(u, c).phase = c.phase
           /\ Scheduled(u, c).pending = c.pending /\ Scheduled(u, c).saving = c.saving
<1> DEFINE d == Scheduled(u, c)
<1>1. c \in Controllers
    BY DEF Kept
<1>2. /\ d \in Controllers /\ d.family = c.family /\ d.phase = c.phase /\ d.document = c.document
      /\ d.loading = c.loading /\ d.pending = c.pending /\ d.saving = c.saving
      /\ d.saveError = c.saveError /\ d.timer = c.timer /\ d.queued = c.queued /\ d.inflight = c.inflight
      /\ d.applied = c.applied /\ d.session = c.session
    BY <1>1 DEF Scheduled, Listens, Controllers
<1> HIDE DEF d
<1>3. Kept(u, d, n)
    BY <1>2 DEF Kept, Idle
<1>4. ASSUME NEW saved \in Documents, InOrder(c, saved) PROVE InOrder(d, saved)
    BY <1>2, <1>4 DEF InOrder
<1> QED
    BY <1>2, <1>3, <1>4 DEF d

-----------------------------------------------------------------------------
(* Steps of one controller, and of the query cache *)

\* The promise of LayoutStore, for every account.
Stores == \A v \in Users : StoreOf(v)!Next \/ UNCHANGED StoreOf(v)!vars

Becomes(u, d) ==
    /\ controllers[u] # None
    /\ controllers' = [controllers EXCEPT ![u] = d]
    /\ UNCHANGED <<family, opened, heard, mounted, layouts>>

LEMMA PutInv ==
    ASSUME SaverInv, NEW u \in Users, NEW d, Becomes(u, d), UNCHANGED <<astray, abandoned>>,
           edits' \in Documents, edits <= edits',
           Kept(u, d, edits'), u \notin abandoned => InOrder(d, layouts[u])
    PROVE  SaverInv'
<1>1. SaverTypeOK /\ d \in Controllers
    BY DEF SaverInv, Kept
<1>2. SaverTypeOK'
    BY <1>1 DEF SaverTypeOK, Becomes
<1>3. ASSUME NEW v \in Users, controllers'[v] # None
      PROVE  Kept(v, controllers'[v], edits') /\ (v \notin abandoned' => InOrder(controllers'[v], layouts'[v]))
  <2>1. CASE v = u
      BY <1>1, <2>1 DEF Becomes, SaverTypeOK
  <2>2. CASE v # u
    <3>1. controllers'[v] = controllers[v]
        BY <1>1, <2>2 DEF Becomes, SaverTypeOK
    <3> QED
        BY <1>1, <1>3, <3>1, KeptLater DEF SaverInv, SaverTypeOK, Becomes
  <2> QED
      BY <2>1, <2>2
<1>4. (\A v \in Users : layouts'[v] <= edits') /\ \A w \in astray' : w.user \in abandoned' /\ w.document <= edits'
    BY <1>1 DEF SaverInv, SaverTypeOK, Becomes, Documents
<1> QED
    BY <1>2, <1>3, <1>4 DEF SaverInv

\* A controller that shows what it showed settles or changes nothing; one that shows a
\* later document has an edit; one that shows what is stored has loaded it.
LEMMA PutStores ==
    ASSUME SaverInv, NEW u \in Users, NEW d, Becomes(u, d), UNCHANGED abandoned, NEW n, Kept(u, d, n),
           u \notin abandoned => InOrder(d, layouts[u]),
           \/ d.document = controllers[u].document
           \/ /\ controllers[u].document # None /\ d.document # None
              /\ controllers[u].document < d.document /\ Unsaved(d)
           \/ d.document = layouts[u] /\ ~Unsaved(d)
    PROVE  Stores
<1> DEFINE c == controllers[u]
<1>1. /\ SaverTypeOK /\ d \in Controllers /\ c \in Controllers /\ d # None /\ c # None
      /\ controllers'[u] = d /\ \A v \in Users \ {u} : controllers'[v] = controllers[v]
      /\ UNCHANGED layouts
    BY LayoutSaverAssumption DEF SaverInv, SaverTypeOK, Kept, Becomes
<1>2. /\ d.phase = "ready" <=> d.document # None
      /\ d.saving <=> d.inflight # None
      /\ c.phase = "ready" <=> c.document # None
      /\ layouts[u] \in Documents /\ None \notin Documents
    BY <1>1, LayoutSaverAssumption DEF SaverInv, Kept, SaverTypeOK, Documents
<1>3. \A v \in Users \ {u} : UNCHANGED StoreOf(v)!vars
    BY <1>1 DEF StoreOf!vars
<1>4. CASE u \in abandoned
    BY <1>3, <1>4 DEF Stores, StoreOf!Next
<1>5. ASSUME u \notin abandoned PROVE StoreOf(u)!Next \/ UNCHANGED StoreOf(u)!vars
  <2>1. InOrder(d, layouts[u])
      BY <1>5
  <2>2. d.document # None /\ ~Unsaved(d) => layouts[u] = d.document
      BY <1>1, <1>2, <2>1 DEF InOrder, Unsaved
  <2>3. CASE d.document = c.document /\ d.document # None
      BY <1>1, <1>2, <2>2, <2>3 DEF StoreOf!Next, StoreOf!Settle, StoreOf!Shown
  <2>4. CASE d.document = c.document /\ d.document = None
      BY <1>1, <1>2, <2>4 DEF StoreOf!vars
  <2>5. CASE c.document # None /\ d.document # None /\ c.document < d.document /\ Unsaved(d)
      BY <1>1, <2>5 DEF StoreOf!Next, StoreOf!Edit, StoreOf!Shown
  <2>6. CASE d.document = layouts[u] /\ ~Unsaved(d)
      BY <1>1, <1>2, <2>6 DEF StoreOf!Next, StoreOf!Open
  <2> QED
      BY <2>3, <2>4, <2>5, <2>6
<1> QED
    BY <1>3, <1>4, <1>5 DEF Stores

\* A controller that is disposed of leaves its account's promise where it is, or void.
LEMMA DisposeStep ==
    ASSUME SaverInv, NEW us \in SUBSET Users, Dispose(us), UNCHANGED layouts,
           edits' \in Documents, edits <= edits', family' \in Families \cup {None}, opened' \subseteq Families,
           heard' \in BOOLEAN, mounted' \in Users \cup {None}
    PROVE  SaverInv' /\ Stores
<1> DEFINE left == UNION {Astray(u) : u \in us}
           Writes == [user : Users, document : Documents, session : Families]
<1>1. /\ SaverTypeOK
      /\ controllers' = [u \in Users |-> IF u \in us THEN None ELSE controllers[u]]
      /\ astray' = astray \cup left /\ abandoned' = abandoned \cup {w.user : w \in left}
    BY DEF SaverInv, Dispose
<1>2. ASSUME NEW u \in Users PROVE Astray(u) \in SUBSET Writes /\ \A w \in Astray(u) : w.user = u /\ w.document <= edits
  <2>1. CASE controllers[u] = None
      BY <2>1 DEF Astray
  <2>2. CASE controllers[u] # None
    <3>1. controllers[u] \in Controllers /\ Kept(u, controllers[u], edits)
        BY <1>1, <2>2 DEF SaverInv, SaverTypeOK
    <3> QED
        BY <2>2, <3>1 DEF Astray, Controllers, Kept
  <2> QED
      BY <2>1, <2>2
<1>3. left \in SUBSET Writes /\ \A w \in left : w.user \in us /\ w.document <= edits
    BY <1>2
<1> HIDE DEF left
<1>4. SaverTypeOK'
    BY <1>1, <1>3 DEF SaverTypeOK
<1>5. \A w \in astray' : w.user \in abandoned' /\ w.document <= edits'
  <2>1. \A w \in astray \cup left : w.document \in Documents /\ w.document <= edits /\ w.user \in abandoned'
      BY <1>1, <1>3 DEF SaverInv, SaverTypeOK
  <2> QED
      BY <1>1, <2>1 DEF SaverTypeOK, Documents
<1>6. \A v \in Users : layouts'[v] <= edits'
    BY <1>1 DEF SaverInv, SaverTypeOK, Documents
<1>7. ASSUME NEW v \in Users, controllers'[v] # None
      PROVE  Kept(v, controllers'[v], edits') /\ (v \notin abandoned' => InOrder(controllers'[v], layouts'[v]))
  <2>1. controllers'[v] = controllers[v]
      BY <1>1, <1>7
  <2> QED
      BY <1>1, <1>7, <2>1, KeptLater DEF SaverInv, SaverTypeOK
<1>8. SaverInv'
    BY <1>4, <1>5, <1>6, <1>7 DEF SaverInv
<1>9. ASSUME NEW v \in Users PROVE StoreOf(v)!Next \/ UNCHANGED StoreOf(v)!vars
  <2>1. CASE v \in us
    <3>1. controllers'[v] = None /\ UNCHANGED layouts[v]
        BY <1>1, <2>1
    <3>2. (controllers'[v] # None /\ controllers'[v].phase = "ready" /\ ~Unsaved(controllers'[v])) = FALSE
        BY <3>1
    <3>3. CASE v \in abandoned
        BY <1>1, <3>3 DEF StoreOf!Next
    <3>4. CASE v \notin abandoned /\ v \in abandoned'
      <4>1. (v \in abandoned') = TRUE
          BY <3>4
      <4>2. StoreOf(v)!Close
          BY <3>1, <3>2, <4>1, Zenon DEF StoreOf!Close
      <4> QED
          BY <4>2 DEF StoreOf!Next
    <3>5. CASE v \notin abandoned /\ v \notin abandoned'
      <4>1. (v \in abandoned') = (v \in abandoned)
          BY <3>5
      <4>2. StoreOf(v)!Close
          BY <3>1, <3>2, <4>1, Zenon DEF StoreOf!Close
      <4> QED
          BY <4>2 DEF StoreOf!Next
    <3> QED
        BY <3>3, <3>4, <3>5
  <2>2. CASE v \notin us
    <3>1. controllers'[v] = controllers[v] /\ (v \in abandoned' <=> v \in abandoned)
        BY <1>1, <1>3, <2>2
    <3> QED
        BY <3>1 DEF StoreOf!vars
  <2> QED
      BY <2>1, <2>2
<1> QED
    BY <1>8, <1>9 DEF Stores

LEMMA PutStep ==
    ASSUME SaverInv, NEW u \in Users, NEW d, controllers[u] # None, Put(u, d),
           UNCHANGED <<family, opened, heard, mounted, layouts>>,
           edits' \in Documents, edits <= edits',
           Kept(u, d, edits'), u \notin abandoned => InOrder(d, layouts[u]),
           \/ d.document = controllers[u].document
           \/ /\ controllers[u].document # None /\ d.document # None
              /\ controllers[u].document < d.document /\ Unsaved(d)
           \/ d.document = layouts[u] /\ ~Unsaved(d)
    PROVE  SaverInv' /\ Stores
<1>1. Becomes(u, d) /\ UNCHANGED <<astray, abandoned>>
    BY DEF Becomes, Put
<1> QED
    BY <1>1, PutInv, PutStores

LEMMA DisposeOne ==
    ASSUME SaverInv, NEW u \in Users, Dispose({u}), UNCHANGED <<family, opened, heard, mounted, layouts>>,
           edits' \in Documents, edits <= edits'
    PROVE  SaverInv' /\ Stores
<1>1. SaverTypeOK /\ {u} \in SUBSET Users
    BY DEF SaverInv
<1> QED
    BY <1>1, DisposeStep DEF SaverTypeOK

\* The newest document waits, and goes out when nothing is under way.
LEMMA EnqueueStep ==
    ASSUME SaverInv, NEW u \in Users, NEW d, controllers[u] # None, EnqueueLatest(u, d),
           UNCHANGED <<family, opened, heard, mounted, layouts>>,
           edits' \in Documents, edits <= edits',
           Kept(u, d, edits'), d.pending, ~d.saveError, d.document # None, u \notin abandoned => InOrder(d, layouts[u]),
           \/ d.document = controllers[u].document
           \/ controllers[u].document # None /\ controllers[u].document < d.document
    PROVE  SaverInv' /\ Stores
<1> DEFINE q == [d EXCEPT !.queued = d.document]
<1>1. SaverTypeOK /\ d \in Controllers /\ None \notin Documents
    BY LayoutSaverAssumption DEF SaverInv, Kept, Documents
<1>2. /\ q \in Controllers /\ q.family = d.family /\ q.phase = d.phase /\ q.document = d.document
      /\ q.loading = d.loading /\ q.pending = d.pending /\ q.saving = d.saving
      /\ q.saveError = d.saveError /\ q.timer = d.timer /\ q.queued = d.document /\ q.inflight = d.inflight
      /\ q.applied = d.applied /\ q.session = d.session
    BY <1>1 DEF Controllers
<1>3. CASE SameSession(u, d) /\ Put(u, Pumped(q))
  <2>1. family \in Families /\ d.family = family
      BY <1>1, <1>3, LayoutSaverAssumption DEF SameSession, SessionUser, SaverTypeOK
  <2> HIDE DEF q
  <2>2. Kept(u, q, edits')
      BY <1>1, <1>2 DEF Kept
  <2>3. u \notin abandoned => InOrder(q, layouts[u])
    <3>1. ASSUME u \notin abandoned PROVE layouts[u] \in Documents /\ InOrder(d, layouts[u])
        BY <1>1, <3>1 DEF SaverTypeOK
    <3>2. d.document \in Documents
        BY <1>1 DEF Controllers
    <3> QED
        BY <1>2, <3>1, <3>2 DEF InOrder, Documents
  <2>4. /\ Kept(u, Pumped(q), edits') /\ Pumped(q).document = d.document
        /\ Unsaved(Pumped(q))
        /\ \A saved \in Documents : InOrder(q, saved) => InOrder(Pumped(q), saved)
      BY <1>2, <2>1, <2>2, PumpedKept DEF Unsaved
  <2>5. u \notin abandoned => InOrder(Pumped(q), layouts[u])
      BY <1>1, <2>3, <2>4 DEF SaverTypeOK
  <2> QED
      BY <1>3, <2>4, <2>5, PutStep
<1>4. CASE Dispose({u})
    BY <1>4, DisposeOne
<1> QED
    BY <1>3, <1>4 DEF EnqueueLatest

LEMMA UpdateStep ==
    ASSUME SaverInv, NEW u \in Users, NEW debounce \in BOOLEAN, Update(u, debounce)
    PROVE  SaverInv' /\ Stores
<1> DEFINE c == controllers[u]
           edited == [c EXCEPT !.document = edits + 1, !.pending = TRUE]
           timed(b) == [edited EXCEPT !.timer = b]
<1>1. /\ SaverTypeOK /\ c \in Controllers /\ c # None /\ c.phase = "ready" /\ Kept(u, c, edits)
      /\ c.document # None /\ None \notin Documents
      /\ edits' = edits + 1 /\ edits' \in Documents /\ edits \in Documents
      /\ UNCHANGED <<family, opened, heard, layouts, mounted>>
    BY LayoutSaverAssumption DEF SaverInv, SaverTypeOK, Kept, Update, Documents
<1>2. ASSUME NEW e, e \in {edited, timed(TRUE), timed(FALSE)}
      PROVE  /\ e \in Controllers /\ e.family = c.family /\ e.phase = c.phase /\ e.document = edits + 1
             /\ e.loading = c.loading /\ e.pending /\ e.saving = c.saving
             /\ e.saveError = c.saveError /\ e.queued = c.queued /\ e.inflight = c.inflight
             /\ e.applied = c.applied /\ e.session = c.session
             /\ e = edited => e.timer = c.timer
  <2> PICK f : f = [c EXCEPT !.document = edits + 1]
      OBVIOUS
  <2>1. /\ f \in Controllers /\ f.family = c.family /\ f.phase = c.phase /\ f.document = edits + 1
        /\ f.loading = c.loading /\ f.saving = c.saving /\ f.saveError = c.saveError /\ f.queued = c.queued
        /\ f.inflight = c.inflight /\ f.applied = c.applied /\ f.session = c.session /\ f.timer = c.timer
      BY <1>1 DEF Controllers
  <2> PICK g : g = [f EXCEPT !.pending = TRUE]
      OBVIOUS
  <2>2. edited = g
      OBVIOUS
  <2>3. /\ g \in Controllers /\ g.family = c.family /\ g.phase = c.phase /\ g.document = edits + 1 /\ g.pending
        /\ g.loading = c.loading /\ g.saving = c.saving /\ g.saveError = c.saveError /\ g.queued = c.queued
        /\ g.inflight = c.inflight /\ g.applied = c.applied /\ g.session = c.session /\ g.timer = c.timer
      BY <2>1 DEF Controllers
  <2>4. ASSUME NEW b \in BOOLEAN, e = [g EXCEPT !.timer = b]
        PROVE  /\ e \in Controllers /\ e.family = g.family /\ e.phase = g.phase /\ e.document = g.document
               /\ e.loading = g.loading /\ e.pending = g.pending /\ e.saving = g.saving
               /\ e.saveError = g.saveError /\ e.queued = g.queued /\ e.inflight = g.inflight
               /\ e.applied = g.applied /\ e.session = g.session
    <3>1. e \in Controllers
        BY <2>3, <2>4, TimerSet
    <3>2. /\ e.family = g.family /\ e.phase = g.phase /\ e.document = g.document
          /\ e.queued = g.queued /\ e.inflight = g.inflight /\ e.session = g.session
        BY <2>3, <2>4 DEF Controllers
    <3>3. /\ e.loading = g.loading /\ e.pending = g.pending /\ e.saving = g.saving
          /\ e.saveError = g.saveError /\ e.applied = g.applied
        BY <2>3, <2>4, ZenonT(40) DEF Controllers
    <3> QED
        BY <3>1, <3>2, <3>3
  <2>5. CASE e = g
      BY <2>3, <2>5
  <2>6. CASE \E b \in BOOLEAN : e = [g EXCEPT !.timer = b] /\ e # edited
      BY <2>3, <2>4, <2>6
  <2> QED
      BY <1>2, <2>2, <2>5, <2>6
<1>3. c.document \in Documents /\ c.document <= edits /\ c.inflight \in Documents \cup {None} /\ c.queued \in Documents \cup {None}
    BY <1>1 DEF Controllers, Kept
<1>4. u \notin abandoned => InOrder(c, layouts[u]) /\ layouts[u] \in Documents /\ layouts[u] <= edits
    BY <1>1 DEF SaverInv, SaverTypeOK
<1>5. ASSUME NEW e, e \in {edited, timed(TRUE), timed(FALSE)}, c.saveError => e = edited
      PROVE  /\ Kept(u, e, edits') /\ e.pending /\ e.document # None /\ c.document < e.document
             /\ u \notin abandoned => InOrder(e, layouts[u])
  <2>1. Kept(u, e, edits')
      BY <1>1, <1>2, <1>3, <1>5 DEF Kept, Documents
  <2>2. u \notin abandoned => InOrder(e, layouts[u])
      BY <1>1, <1>2, <1>3, <1>4, <1>5 DEF InOrder, Documents
  <2> QED
      BY <1>1, <1>2, <1>3, <1>5, <2>1, <2>2 DEF Documents
<1> HIDE DEF edited, timed
<1>6. edits <= edits'
    BY <1>1 DEF Documents
<1>7. CASE c.saveError /\ Put(u, edited)
    BY <1>1, <1>5, <1>6, <1>7, PutStep DEF Unsaved
<1>8. CASE ~c.saveError /\ Put(u, timed(TRUE))
    BY <1>1, <1>5, <1>6, <1>8, PutStep DEF Unsaved
<1>9. CASE ~c.saveError /\ EnqueueLatest(u, timed(FALSE))
  <2>1. ~timed(FALSE).saveError
      BY <1>2, <1>9
  <2> QED
      BY <1>1, <1>5, <1>6, <1>9, <2>1, EnqueueStep
<1> QED
    BY <1>7, <1>8, <1>9 DEF Update, edited, timed

LEMMA TimerStep ==
    ASSUME SaverInv, NEW u \in Users, TimerFires(u) \/ RetrySave(u)
    PROVE  SaverInv' /\ Stores
<1> DEFINE c == controllers[u]
<1>1. /\ SaverTypeOK /\ c \in Controllers /\ c # None /\ Kept(u, c, edits) /\ (c.timer \/ c.saveError)
      /\ UNCHANGED <<family, opened, heard, layouts, mounted, edits>>
    BY DEF SaverInv, SaverTypeOK, TimerFires, RetrySave
<1>2. c.pending /\ c.document # None /\ edits \in Documents /\ edits <= edits
    BY <1>1 DEF Kept, Idle, SaverTypeOK, Documents
<1>3. PICK d \in {[c EXCEPT !.timer = FALSE], [c EXCEPT !.saveError = FALSE, !.pending = TRUE]} :
        EnqueueLatest(u, d) /\ ~d.saveError
    BY <1>1 DEF TimerFires, RetrySave, Kept, Controllers
<1>4. /\ ~d.saveError
      /\ d \in Controllers /\ d.family = c.family /\ d.phase = c.phase /\ d.document = c.document
      /\ d.loading = c.loading /\ d.pending /\ d.saving = c.saving
      /\ d.queued = c.queued /\ d.inflight = c.inflight /\ d.applied = c.applied /\ d.session = c.session
  <2>1. CASE d = [c EXCEPT !.timer = FALSE]
    <3>1. d \in Controllers
        BY <1>1, <2>1 DEF Controllers
    <3> QED
        BY <1>1, <1>2, <1>3, <2>1, <3>1 DEF Controllers
  <2>2. CASE d = [c EXCEPT !.saveError = FALSE, !.pending = TRUE]
    <3> PICK e : e = [c EXCEPT !.saveError = FALSE]
        OBVIOUS
    <3>1. /\ e \in Controllers /\ e.family = c.family /\ e.phase = c.phase /\ e.document = c.document
          /\ e.loading = c.loading /\ e.saving = c.saving /\ e.queued = c.queued /\ e.inflight = c.inflight
          /\ e.applied = c.applied /\ e.session = c.session
        BY <1>1 DEF Controllers
    <3>2. d = [e EXCEPT !.pending = TRUE]
        BY <2>2
    <3>3. /\ d \in Controllers /\ d.family = e.family /\ d.phase = e.phase /\ d.document = e.document
          /\ d.loading = e.loading /\ d.pending /\ d.saving = e.saving /\ d.queued = e.queued
          /\ d.inflight = e.inflight /\ d.applied = e.applied /\ d.session = e.session
        BY <3>1, <3>2, ZenonT(40) DEF Controllers
    <3> QED
        BY <1>3, <3>1, <3>3
  <2> QED
      BY <1>3, <2>1, <2>2
<1>5. Kept(u, d, edits)
    BY <1>1, <1>2, <1>4 DEF Kept
<1>6. u \notin abandoned => InOrder(d, layouts[u])
  <2>1. u \notin abandoned => InOrder(c, layouts[u])
      BY <1>1 DEF SaverInv
  <2> QED
      BY <1>4, <2>1 DEF InOrder
<1> QED
    BY <1>1, <1>2, <1>3, <1>4, <1>5, <1>6, EnqueueStep

\* Flags that nothing is promised of: the cleanup, the call of load; and the
\* controller a render makes.
Reflagged(c, d) ==
    \E clean, load \in BOOLEAN :
      /\ d = [c EXCEPT !.cleanup = clean, !.loading = load]
      /\ load => c.phase = "loading"

LEMMA FlagsStep ==
    ASSUME SaverInv, mounted' \in Users \cup {None},
           UNCHANGED <<family, opened, heard, layouts, edits, astray, abandoned>>,
           controllers' \in [Users -> Controllers \cup {None}],
           \A v \in Users :
             \/ controllers'[v] = controllers[v]
             \/ controllers[v] = None /\ SessionUser = v /\ controllers'[v] = NewController
             \/ controllers[v] # None /\ Reflagged(controllers[v], controllers'[v])
    PROVE  SaverInv' /\ Stores
<1>1. SaverTypeOK
    BY DEF SaverInv
<1>2. SaverTypeOK'
    BY <1>1 DEF SaverTypeOK
<1>3. ASSUME NEW v \in Users
      PROVE  /\ controllers'[v] # None => /\ Kept(v, controllers'[v], edits')
                                          /\ v \notin abandoned' => InOrder(controllers'[v], layouts'[v])
             /\ UNCHANGED StoreOf(v)!vars
  <2> DEFINE c == controllers[v]  d == controllers'[v]
  <2>1. CASE d = c
      BY <1>1, <2>1, KeptLater DEF SaverInv, StoreOf!vars
  <2>2. CASE c = None /\ SessionUser = v /\ d = NewController
    <3>1. family \in Families /\ UserOf[family] = v
        BY <1>1, <2>2, LayoutSaverAssumption DEF SessionUser, SaverTypeOK
    <3>2. d # None /\ d \in Controllers
      <4>1. NewController \in Controllers
          BY <3>1 DEF NewController, Controllers
      <4> QED
          BY <2>2, <4>1, LayoutSaverAssumption
    <3>3. /\ d.family = family /\ d.phase = "loading" /\ d.document = None /\ ~d.pending /\ ~d.saving
          /\ ~d.saveError /\ ~d.timer /\ d.queued = None /\ d.inflight = None
      <4>1. LET n == NewController IN
              /\ n.family = family /\ n.phase = "loading" /\ n.document = None /\ ~n.pending /\ ~n.saving
              /\ ~n.saveError /\ ~n.timer /\ n.queued = None /\ n.inflight = None
          BY DEF NewController
      <4> QED
          BY <2>2, <4>1
    <3>4. Kept(v, d, edits') /\ InOrder(d, layouts'[v])
        BY <3>1, <3>2, <3>3 DEF Kept, Idle, InOrder
    <3> QED
        BY <2>2, <3>2, <3>3, <3>4 DEF StoreOf!vars
  <2>3. ASSUME c # None, NEW clean \in BOOLEAN, NEW load \in BOOLEAN, load => c.phase = "loading",
               d = [c EXCEPT !.cleanup = clean, !.loading = load]
        PROVE  /\ Kept(v, d, edits') /\ (v \notin abandoned' => InOrder(d, layouts'[v]))
               /\ UNCHANGED StoreOf(v)!vars
    <3>1. c \in Controllers /\ Kept(v, c, edits) /\ (v \notin abandoned => InOrder(c, layouts[v]))
        BY <1>1, <2>3 DEF SaverInv, SaverTypeOK
    <3>2. /\ d \in Controllers /\ d.family = c.family /\ d.phase = c.phase /\ d.document = c.document
          /\ d.loading = load /\ d.pending = c.pending /\ d.saving = c.saving
          /\ d.saveError = c.saveError /\ d.timer = c.timer /\ d.queued = c.queued /\ d.inflight = c.inflight
          /\ d.applied = c.applied /\ d.session = c.session
        BY <2>3, <3>1 DEF Controllers
    <3>3. Kept(v, d, edits)
        BY <2>3, <3>1, <3>2 DEF Kept, Idle
    <3>4. v \notin abandoned => InOrder(d, layouts[v])
        BY <3>1, <3>2 DEF InOrder
    <3>5. d # None
        BY <3>2, LayoutSaverAssumption
    <3> QED
        BY <2>3, <3>2, <3>3, <3>4, <3>5 DEF StoreOf!vars, Unsaved
  <2> QED
      BY <2>1, <2>2, <2>3 DEF Reflagged
<1>4. (\A u \in Users : layouts'[u] <= edits') /\ \A w \in astray' : w.user \in abandoned' /\ w.document <= edits'
    BY DEF SaverInv
<1> QED
    BY <1>2, <1>3, <1>4 DEF SaverInv, Stores

LEMMA PageStep ==
    ASSUME SaverInv, Render \/ Leave
    PROVE  SaverInv' /\ Stores
<1>1. SaverTypeOK /\ UNCHANGED <<family, opened, heard, layouts, edits>>
    BY DEF SaverInv, Render, Leave
<1>2. CASE Leave
  <2>1. \A v \in Users : \/ controllers'[v] = controllers[v]
                         \/ /\ controllers[v] # None
                            /\ controllers'[v] = [controllers[v] EXCEPT !.cleanup = TRUE]
                            /\ controllers[v] \in Controllers
      BY <1>1, <1>2 DEF Leave, SaverTypeOK
  <2>2. \A c \in Controllers : /\ [c EXCEPT !.cleanup = TRUE] \in Controllers
                               /\ [c EXCEPT !.cleanup = TRUE] = [c EXCEPT !.cleanup = TRUE, !.loading = c.loading]
                               /\ c.loading \in BOOLEAN
      BY DEF Controllers
  <2>3. \A v \in Users : controllers[v] # None => (controllers[v].loading => controllers[v].phase = "loading")
      BY DEF SaverInv, Kept
  <2>4. controllers' \in [Users -> Controllers \cup {None}]
      BY <1>1, <1>2, <2>2 DEF Leave, SaverTypeOK
  <2> QED
      BY <1>1, <1>2, <2>1, <2>2, <2>3, <2>4, FlagsStep DEF Leave, Reflagged
<1>3. CASE Render
  <2> DEFINE u == SessionUser
             c == controllers[u]
             left(v) == IF v = u \/ v # mounted \/ controllers[v] = None THEN controllers[v]
                        ELSE [controllers[v] EXCEPT !.cleanup = TRUE]
             taken == [c EXCEPT !.cleanup = FALSE, !.loading = @ \/ MayLoad(c)]
  <2>1. u \in Users /\ family \in Families /\ mounted' \in Users \cup {None}
      BY <1>1, <1>3, LayoutSaverAssumption DEF Render, SessionUser, SaverTypeOK
  <2>2. CASE Dispose({u})
    <3>1. edits \in Documents /\ edits <= edits /\ {u} \in SUBSET Users /\ opened \subseteq Families /\ heard \in BOOLEAN
        BY <1>1, <2>1 DEF SaverTypeOK, Documents
    <3> QED
        BY <1>1, <2>1, <2>2, <3>1, DisposeStep
  <2>3. CASE /\ controllers' = [v \in Users |-> IF v # u THEN left(v) ELSE IF c = None THEN NewController ELSE taken]
             /\ UNCHANGED <<astray, abandoned>>
    <3>1. \A e \in Controllers : /\ [e EXCEPT !.cleanup = TRUE] \in Controllers
                                 /\ [e EXCEPT !.cleanup = TRUE] = [e EXCEPT !.cleanup = TRUE, !.loading = e.loading]
                                 /\ e.loading \in BOOLEAN
        BY DEF Controllers
    <3>2. \A v \in Users : controllers[v] # None =>
             /\ controllers[v] \in Controllers
             /\ controllers[v].loading => controllers[v].phase = "loading"
        BY <1>1 DEF SaverInv, Kept, SaverTypeOK
    <3>3. c # None => /\ taken = [c EXCEPT !.cleanup = FALSE, !.loading = c.loading \/ MayLoad(c)]
                      /\ taken \in Controllers /\ (c.loading \/ MayLoad(c)) \in BOOLEAN
                      /\ c.loading \/ MayLoad(c) => c.phase = "loading"
        BY <2>1, <3>2 DEF Controllers, MayLoad
    <3>4. NewController \in Controllers
        BY <2>1 DEF NewController, Controllers
    <3> HIDE DEF taken
    <3>5. controllers' \in [Users -> Controllers \cup {None}]
        BY <1>1, <2>3, <3>1, <3>2, <3>3, <3>4
    <3>6. ASSUME NEW v \in Users
          PROVE  \/ controllers'[v] = controllers[v]
                 \/ controllers[v] = None /\ SessionUser = v /\ controllers'[v] = NewController
                 \/ controllers[v] # None /\ Reflagged(controllers[v], controllers'[v])
      <4>1. CASE v # u
        <5>1. CASE controllers'[v] = controllers[v]
            BY <5>1
        <5>2. CASE controllers[v] # None /\ controllers'[v] = [controllers[v] EXCEPT !.cleanup = TRUE]
            BY <3>1, <3>2, <5>2 DEF Reflagged
        <5> QED
            BY <2>3, <4>1, <5>1, <5>2
      <4>2. CASE v = u /\ c = None
          BY <2>3, <4>2
      <4>3. CASE v = u /\ c # None
        <5>1. controllers'[v] = taken
            BY <2>3, <4>3
        <5>2. Reflagged(c, taken)
            BY <3>3, <4>3 DEF Reflagged
        <5> QED
            BY <4>3, <5>1, <5>2
      <4> QED
          BY <4>1, <4>2, <4>3
    <3> QED
        BY <1>1, <2>1, <2>3, <3>5, <3>6, FlagsStep
  <2> QED
      BY <1>3, <2>2, <2>3 DEF Render
<1> QED
    BY <1>2, <1>3

\* A load opens what is stored, or fails.
LEMMA LoadStep ==
    ASSUME SaverInv, NEW u \in Users, NEW ok \in BOOLEAN, LoadEnds(u, ok) \/ RetryLoad(u)
    PROVE  SaverInv' /\ Stores
<1> DEFINE c == controllers[u]
           opens == [c EXCEPT !.phase = "ready", !.document = layouts[u], !.loading = FALSE]
           fails == [c EXCEPT !.phase = "loadError", !.loading = FALSE]
           again == [c EXCEPT !.phase = "loading", !.loading = TRUE]
<1>1. /\ SaverTypeOK /\ c \in Controllers /\ c # None /\ Kept(u, c, edits) /\ c.phase # "ready"
      /\ c.document = None /\ layouts[u] \in Documents /\ layouts[u] <= edits /\ None \notin Documents
      /\ UNCHANGED <<family, opened, heard, layouts, mounted, edits>>
      /\ edits \in Documents /\ edits <= edits
    BY LayoutSaverAssumption DEF SaverInv, SaverTypeOK, Kept, LoadEnds, RetryLoad, Documents
<1>2. Idle(c)
    BY <1>1 DEF Kept
<1>3. ASSUME NEW e, e \in {opens, fails, again}
      PROVE  /\ e \in Controllers /\ e.family = c.family /\ Idle(e)
             /\ e = opens => e.phase = "ready" /\ e.document = layouts[u] /\ ~e.loading
             /\ e = fails => e.phase = "loadError" /\ e.document = None /\ ~e.loading
             /\ e = again => e.phase = "loading" /\ e.document = None
  <2>1. opens \in Controllers /\ opens.family = c.family /\ Idle(opens)
        /\ opens.phase = "ready" /\ opens.document = layouts[u] /\ ~opens.loading
      BY <1>1, <1>2 DEF Controllers, Idle
  <2>2. fails \in Controllers /\ fails.family = c.family /\ Idle(fails)
        /\ fails.phase = "loadError" /\ fails.document = None /\ ~fails.loading
      BY <1>1, <1>2 DEF Controllers, Idle
  <2>3. again \in Controllers /\ again.family = c.family /\ Idle(again)
        /\ again.phase = "loading" /\ again.document = None
      BY <1>1, <1>2 DEF Controllers, Idle
  <2> HIDE DEF opens, fails, again
  <2> QED
      BY <1>3, <2>1, <2>2, <2>3
<1> HIDE DEF opens, fails, again
<1>4. ASSUME NEW e, e \in {opens, fails, again}
      PROVE  /\ Kept(u, e, edits) /\ InOrder(e, layouts[u])
             /\ e.document = c.document \/ (e.document = layouts[u] /\ ~Unsaved(e))
    BY <1>1, <1>2, <1>3, <1>4 DEF Kept, InOrder, Idle, Unsaved, Documents
<1>5. ASSUME NEW e, e \in {opens, fails}, Put(u, Scheduled(u, e)) PROVE SaverInv' /\ Stores
  <2>1. /\ Kept(u, e, edits) /\ InOrder(e, layouts[u])
        /\ e.document = c.document \/ (e.document = layouts[u] /\ ~Unsaved(e))
      BY <1>4, <1>5
  <2>2. /\ Kept(u, Scheduled(u, e), edits) /\ InOrder(Scheduled(u, e), layouts[u])
        /\ Scheduled(u, e).document = e.document
        /\ Scheduled(u, e).pending = e.pending /\ Scheduled(u, e).saving = e.saving
      BY <1>1, <2>1, ScheduledKept
  <2> QED
      BY <1>1, <1>5, <2>1, <2>2, PutStep DEF Unsaved
<1>6. CASE Put(u, again)
    BY <1>1, <1>4, <1>6, PutStep
<1>7. CASE Dispose({u})
    BY <1>1, <1>7, DisposeOne
<1> QED
    BY <1>5, <1>6, <1>7 DEF LoadEnds, RetryLoad, opens, fails, again

\* The server takes the document it is sent.
LEMMA ApplyStep ==
    ASSUME SaverInv, NEW u \in Users, Apply(u)
    PROVE  SaverInv' /\ Stores
<1> DEFINE c == controllers[u]
           d == [c EXCEPT !.applied = TRUE]
<1>1. /\ SaverTypeOK /\ c \in Controllers /\ c # None /\ Kept(u, c, edits) /\ c.inflight # None
      /\ controllers' = [controllers EXCEPT ![u] = d] /\ layouts' = [layouts EXCEPT ![u] = c.inflight]
      /\ UNCHANGED <<family, opened, heard, mounted, edits, astray, abandoned>>
    BY DEF SaverInv, SaverTypeOK, Apply, Put
<1>2. /\ d \in Controllers /\ d.family = c.family /\ d.phase = c.phase /\ d.document = c.document
      /\ d.loading = c.loading /\ d.pending = c.pending /\ d.saving = c.saving
      /\ d.saveError = c.saveError /\ d.timer = c.timer /\ d.queued = c.queued /\ d.inflight = c.inflight
      /\ d.applied = TRUE /\ d.session = c.session
    BY <1>1 DEF Controllers
<1> HIDE DEF d
<1>3. /\ c.inflight \in Documents /\ c.inflight <= edits /\ c.saving /\ c.document # None /\ c.phase = "ready"
      /\ d # None /\ None \notin Documents
    BY <1>1, <1>2, LayoutSaverAssumption DEF Kept, Idle, Controllers, Documents
<1>4. Kept(u, d, edits)
    BY <1>1, <1>2 DEF Kept, Idle
<1>5. /\ controllers'[u] = d /\ layouts'[u] = c.inflight
      /\ \A v \in Users \ {u} : controllers'[v] = controllers[v] /\ layouts'[v] = layouts[v]
    BY <1>1 DEF SaverTypeOK
<1>6. u \notin abandoned => InOrder(d, c.inflight)
  <2>1. u \notin abandoned => InOrder(c, layouts[u])
      BY <1>1 DEF SaverInv
  <2> QED
      BY <1>1, <1>2, <1>3, <2>1 DEF InOrder, Controllers, Documents
<1>7. SaverInv'
  <2>1. SaverTypeOK'
      BY <1>1, <1>2, <1>3 DEF SaverTypeOK
  <2>2. \A v \in Users : layouts'[v] <= edits'
      BY <1>1, <1>3, <1>5 DEF SaverInv
  <2>3. \A w \in astray' : w.user \in abandoned' /\ w.document <= edits'
      BY <1>1 DEF SaverInv
  <2>4. ASSUME NEW v \in Users, controllers'[v] # None
        PROVE  Kept(v, controllers'[v], edits') /\ (v \notin abandoned' => InOrder(controllers'[v], layouts'[v]))
    <3>1. CASE v = u
        BY <1>1, <1>4, <1>5, <1>6, <3>1
    <3>2. CASE v # u
        BY <1>1, <1>5, <2>4, <3>2 DEF SaverInv
    <3> QED
        BY <3>1, <3>2
  <2> QED
      BY <2>1, <2>2, <2>3, <2>4 DEF SaverInv
<1>8. ASSUME NEW v \in Users PROVE StoreOf(v)!Next \/ UNCHANGED StoreOf(v)!vars
  <2>1. CASE v # u
      BY <1>1, <1>5, <2>1 DEF StoreOf!vars
  <2>2. CASE v = u /\ u \in abandoned
      BY <1>1, <2>2 DEF StoreOf!Next
  <2>3. CASE v = u /\ u \notin abandoned
    <3>1. layouts[u] <= c.inflight /\ c.inflight <= c.document /\ c.document \in Documents /\ layouts[u] \in Documents
        BY <1>1, <1>3, <2>3 DEF SaverInv, InOrder, SaverTypeOK, Controllers
    <3>2. c.inflight \in layouts[u] .. c.document
        BY <1>3, <3>1 DEF Documents
    <3>3. /\ (IF controllers'[u] = None THEN None ELSE controllers'[u].document) = c.document
          /\ (IF controllers[u] = None THEN None ELSE controllers[u].document) = c.document
        BY <1>1, <1>2, <1>3, <1>5
    <3>4. /\ (controllers'[u] # None /\ controllers'[u].phase = "ready" /\ ~Unsaved(controllers'[u])) = FALSE
          /\ (controllers[u] # None /\ controllers[u].phase = "ready" /\ ~Unsaved(controllers[u])) = FALSE
        BY <1>2, <1>3, <1>5 DEF Unsaved
    <3>5. layouts'[u] = c.inflight /\ UNCHANGED abandoned
        BY <1>1, <1>5
    <3>6. StoreOf(u)!Write
        BY <1>3, <3>2, <3>3, <3>4, <3>5 DEF StoreOf!Write, StoreOf!Shown
    <3> QED
        BY <2>3, <3>6 DEF StoreOf!Next
  <2> QED
      BY <2>1, <2>2, <2>3
<1> QED
    BY <1>7, <1>8 DEF Stores

\* A write that is done is the last one, or the newest document follows.
LEMMA SucceedsStep ==
    ASSUME SaverInv, NEW u \in Users, SaveSucceeds(u)
    PROVE  SaverInv' /\ Stores
<1> DEFINE c == controllers[u]
           savedLatest == c.inflight = c.document /\ c.queued = None /\ ~c.timer
           done == [c EXCEPT !.inflight = None, !.saving = FALSE, !.pending = ~savedLatest]
<1>1. /\ SaverTypeOK /\ c \in Controllers /\ c # None /\ Kept(u, c, edits) /\ c.inflight # None /\ c.applied
      /\ UNCHANGED <<family, opened, heard, layouts, mounted, edits>>
      /\ edits \in Documents /\ edits <= edits /\ layouts[u] \in Documents
    BY DEF SaverInv, SaverTypeOK, SaveSucceeds, Documents
<1>2. /\ done \in Controllers /\ done.family = c.family /\ done.phase = c.phase /\ done.document = c.document
      /\ done.loading = c.loading /\ done.pending = ~savedLatest /\ done.saving = FALSE
      /\ done.saveError = c.saveError /\ done.timer = c.timer /\ done.queued = c.queued /\ done.inflight = None
      /\ done.applied = c.applied /\ done.session = c.session
    BY <1>1 DEF Controllers
<1>3. c.phase = "ready" /\ ~c.saveError /\ c.document # None
    BY <1>1 DEF Kept, Idle
<1>4. CASE Dispose({u})
    BY <1>1, <1>4, DisposeOne
<1>5. CASE (done.queued = None \/ SameSession(u, c)) /\ Put(u, Scheduled(u, Pumped(done)))
  <2> HIDE DEF done
  <2>1. Kept(u, done, edits)
      BY <1>1, <1>2, <1>3 DEF Kept
  <2>2. u \notin abandoned => InOrder(done, layouts[u])
    <3>1. u \notin abandoned => InOrder(c, layouts[u])
        BY <1>1 DEF SaverInv
    <3> QED
        BY <1>1, <1>2, <3>1 DEF InOrder
  <2>3. done.queued # None => family \in Families /\ done.family = family
      BY <1>1, <1>2, <1>5, LayoutSaverAssumption DEF SameSession, SessionUser, SaverTypeOK
  <2>4. /\ Kept(u, Pumped(done), edits) /\ Pumped(done).document = c.document
        /\ \A saved \in Documents : InOrder(done, saved) => InOrder(Pumped(done), saved)
      BY <1>1, <1>2, <2>1, <2>3, PumpedKept
  <2>5. /\ Kept(u, Scheduled(u, Pumped(done)), edits) /\ Scheduled(u, Pumped(done)).document = c.document
        /\ \A saved \in Documents : InOrder(Pumped(done), saved) => InOrder(Scheduled(u, Pumped(done)), saved)
      BY <1>1, <2>4, ScheduledKept
  <2> QED
      BY <1>1, <1>5, <2>2, <2>4, <2>5, PutStep
<1> QED
    BY <1>4, <1>5 DEF SaveSucceeds

\* A write that fails waits for its retry; given up on its way, it binds nothing any more.
LEMMA FailsStep ==
    ASSUME SaverInv, NEW u \in Users, SaveFails(u)
    PROVE  SaverInv' /\ Stores
<1> DEFINE c == controllers[u]
           dropped == [c EXCEPT !.inflight = None, !.queued = None, !.timer = FALSE, !.saving = FALSE,
                                !.pending = TRUE, !.saveError = TRUE]
           failed == Scheduled(u, dropped)
<1>1. /\ SaverTypeOK /\ c \in Controllers /\ c # None /\ Kept(u, c, edits) /\ c.inflight # None
      /\ UNCHANGED <<family, opened, heard, layouts, mounted, edits>>
      /\ edits \in Documents /\ edits <= edits
    BY DEF SaverInv, SaverTypeOK, SaveFails, Documents
<1>2. /\ dropped \in Controllers /\ dropped.family = c.family /\ dropped.phase = c.phase
      /\ dropped.document = c.document /\ dropped.loading = c.loading /\ dropped.pending = TRUE
      /\ dropped.saving = FALSE /\ dropped.saveError = TRUE /\ dropped.timer = FALSE /\ dropped.queued = None
      /\ dropped.inflight = None
    BY <1>1 DEF Controllers
<1>3. c.phase = "ready" /\ c.document # None
    BY <1>1 DEF Kept, Idle
<1> HIDE DEF dropped
<1>4. Kept(u, dropped, edits)
    BY <1>1, <1>2, <1>3 DEF Kept
<1>5. u \notin abandoned => InOrder(dropped, layouts[u]) /\ layouts[u] \in Documents
  <2>1. u \notin abandoned => InOrder(c, layouts[u]) /\ layouts[u] \in Documents
      BY <1>1 DEF SaverInv, SaverTypeOK
  <2> QED
      BY <1>2, <2>1 DEF InOrder
<1>6. /\ Kept(u, failed, edits) /\ failed.document = c.document /\ failed.pending = TRUE
      /\ u \notin abandoned => InOrder(failed, layouts[u])
    BY <1>1, <1>2, <1>4, <1>5, ScheduledKept
<1> HIDE DEF failed
<1>7. CASE Put(u, failed)
    BY <1>1, <1>6, <1>7, PutStep
<1>8. CASE /\ ~c.applied
           /\ controllers' = [controllers EXCEPT ![u] = failed]
           /\ astray' = astray \cup Astray(u) /\ abandoned' = abandoned \cup {u}
  <2>1. Astray(u) = {[user |-> u, document |-> c.inflight, session |-> c.session]}
      BY <1>1, <1>8 DEF Astray
  <2>2. c.inflight \in Documents /\ c.inflight <= edits /\ c.session \in Families /\ failed \in Controllers
      BY <1>1, <1>6 DEF Controllers, Kept
  <2>3. /\ controllers'[u] = failed /\ failed # None
        /\ \A v \in Users \ {u} : controllers'[v] = controllers[v] /\ (v \in abandoned' <=> v \in abandoned)
      BY <1>1, <1>8, <2>2, LayoutSaverAssumption DEF SaverTypeOK
  <2>4. SaverInv'
    <3>1. SaverTypeOK'
        BY <1>1, <1>8, <2>1, <2>2 DEF SaverTypeOK
    <3>2. \A v \in Users : layouts'[v] <= edits'
        BY <1>1 DEF SaverInv
    <3>3. \A w \in astray' : w.user \in abandoned' /\ w.document <= edits'
        BY <1>1, <1>8, <2>1, <2>2 DEF SaverInv
    <3>4. ASSUME NEW v \in Users, controllers'[v] # None
          PROVE  Kept(v, controllers'[v], edits') /\ (v \notin abandoned' => InOrder(controllers'[v], layouts'[v]))
        BY <1>1, <1>6, <1>8, <2>3, <3>4 DEF SaverInv
    <3> QED
        BY <3>1, <3>2, <3>3, <3>4 DEF SaverInv
  <2>5. ASSUME NEW v \in Users PROVE StoreOf(v)!Next \/ UNCHANGED StoreOf(v)!vars
    <3>1. CASE v # u
        BY <1>1, <2>3, <3>1 DEF StoreOf!vars
    <3>2. CASE v = u
      <4>1. u \in abandoned' /\ UNCHANGED layouts
          BY <1>1, <1>8
      <4>2. /\ (IF controllers'[u] = None THEN None ELSE controllers'[u].document) = c.document
            /\ (IF controllers[u] = None THEN None ELSE controllers[u].document) = c.document
          BY <1>1, <1>6, <2>3
      <4>3. (controllers'[u] # None /\ controllers'[u].phase = "ready" /\ ~Unsaved(controllers'[u])) = FALSE
          BY <1>6, <2>3 DEF Unsaved
      <4>4. StoreOf(u)!Abandon
          BY <4>1, <4>2, <4>3 DEF StoreOf!Abandon
      <4> QED
          BY <3>2, <4>4 DEF StoreOf!Next
    <3> QED
        BY <3>1, <3>2
  <2> QED
      BY <2>4, <2>5 DEF Stores
<1> QED
    BY <1>7, <1>8 DEF SaveFails, dropped, failed

\* What still reaches the server was given up.
LEMMA LateStep ==
    ASSUME SaverInv, NEW w \in astray, LateWrite(w)
    PROVE  SaverInv' /\ Stores
<1>1. /\ SaverTypeOK /\ UNCHANGED <<family, opened, heard, controllers, mounted, edits, abandoned>>
      /\ astray' \subseteq astray
      /\ w.user \in abandoned /\ w.document <= edits /\ w.document \in Documents
      /\ layouts' \in {layouts, [layouts EXCEPT ![w.user] = w.document]}
    BY DEF SaverInv, SaverTypeOK, LateWrite
<1>2. \A v \in Users : layouts'[v] = layouts[v] \/ (v \in abandoned /\ layouts'[v] = w.document)
    BY <1>1 DEF SaverTypeOK
<1>3. SaverTypeOK'
    BY <1>1 DEF SaverTypeOK
<1>4. SaverInv'
  <2>1. \A v \in Users : layouts'[v] <= edits'
      BY <1>1, <1>2 DEF SaverInv
  <2>2. \A x \in astray' : x.user \in abandoned' /\ x.document <= edits'
      BY <1>1 DEF SaverInv
  <2>3. ASSUME NEW v \in Users, controllers'[v] # None
        PROVE  Kept(v, controllers'[v], edits') /\ (v \notin abandoned' => InOrder(controllers'[v], layouts'[v]))
      BY <1>1, <1>2, <2>3 DEF SaverInv
  <2> QED
      BY <1>3, <2>1, <2>2, <2>3 DEF SaverInv
<1>5. ASSUME NEW v \in Users PROVE StoreOf(v)!Next \/ UNCHANGED StoreOf(v)!vars
  <2>1. CASE v \in abandoned
      BY <1>1, <2>1 DEF StoreOf!Next
  <2>2. CASE v \notin abandoned
      BY <1>1, <1>2, <2>2 DEF StoreOf!vars
  <2> QED
      BY <2>1, <2>2
<1> QED
    BY <1>4, <1>5 DEF Stores

\* The cleanup lets a settled controller go, or forgets its own flag.
LEMMA CleanupStep ==
    ASSUME SaverInv, NEW u \in Users, Cleanup(u)
    PROVE  SaverInv' /\ Stores
<1> DEFINE c == controllers[u]
           d == [c EXCEPT !.cleanup = FALSE]
<1>1. /\ SaverTypeOK /\ c \in Controllers /\ c # None /\ Kept(u, c, edits)
      /\ UNCHANGED <<family, opened, heard, layouts, mounted, edits>>
      /\ edits \in Documents /\ edits <= edits
    BY DEF SaverInv, SaverTypeOK, Cleanup, Documents
<1>2. /\ d \in Controllers /\ d.family = c.family /\ d.phase = c.phase /\ d.document = c.document
      /\ d.loading = c.loading /\ d.pending = c.pending /\ d.saving = c.saving
      /\ d.saveError = c.saveError /\ d.timer = c.timer /\ d.queued = c.queued /\ d.inflight = c.inflight
      /\ d.applied = c.applied /\ d.session = c.session
    BY <1>1 DEF Controllers
<1> HIDE DEF d
<1>3. Kept(u, d, edits) /\ (u \notin abandoned => InOrder(d, layouts[u]))
  <2>1. u \notin abandoned => InOrder(c, layouts[u])
      BY <1>1 DEF SaverInv
  <2>2. u \notin abandoned => InOrder(d, layouts[u])
      BY <1>2, <2>1 DEF InOrder
  <2>3. Kept(u, d, edits)
      BY <1>1, <1>2 DEF Kept, Idle
  <2> QED
      BY <2>2, <2>3
<1>4. CASE Dispose({u})
    BY <1>1, <1>4, DisposeOne
<1>5. CASE Put(u, d)
    BY <1>1, <1>2, <1>3, <1>5, PutStep
<1> QED
    BY <1>4, <1>5 DEF Cleanup, d

\* A session opens or ends, here or in another tab, and this tab hears of it.
LEMMA SessionStep ==
    ASSUME SaverInv,
           \/ \E f \in Families \cup {None} : ThisTabSigns(f) \/ OtherTabSigns(f)
           \/ StorageArrives
    PROVE  SaverInv' /\ Stores
<1>1. SaverTypeOK /\ edits \in Documents /\ edits <= edits
    BY DEF SaverInv, SaverTypeOK, Documents
<1>2. ASSUME NEW f \in Families \cup {None}, Opens(f)
      PROVE  family' \in Families \cup {None} /\ opened' \subseteq Families
    BY <1>1, <1>2 DEF Opens, SaverTypeOK
<1>3. ASSUME NEW f \in Families \cup {None}, ThisTabSigns(f) PROVE SaverInv' /\ Stores
    BY <1>1, <1>2, <1>3, DisposeStep DEF ThisTabSigns, SaverTypeOK
<1>4. ASSUME NEW f \in Families \cup {None}, OtherTabSigns(f) PROVE SaverInv' /\ Stores
  <2>1. /\ UNCHANGED <<layouts, controllers, mounted, edits, astray, abandoned>>
        /\ heard' \in BOOLEAN /\ family' \in Families \cup {None} /\ opened' \subseteq Families
      BY <1>2, <1>4 DEF OtherTabSigns
  <2>2. SaverTypeOK'
      BY <1>1, <2>1 DEF SaverTypeOK
  <2>3. SaverInv'
      BY <2>1, <2>2 DEF SaverInv
  <2> QED
      BY <2>1, <2>3 DEF Stores, StoreOf!vars
<1>5. CASE StorageArrives
    BY <1>1, <1>5, DisposeStep DEF StorageArrives, SaverTypeOK
<1> QED
    BY <1>3, <1>4, <1>5

-----------------------------------------------------------------------------
(* The saver's theorems *)

LEMMA SaverInvInit == SaverInit => SaverInv
    BY LayoutSaverAssumption DEF SaverInit, SaverInv, SaverTypeOK, Documents

LEMMA SaverInvStep == SaverInv /\ [SaverNext]_saverVars => SaverInv' /\ Stores
<1>1. ASSUME SaverInv, SaverNext PROVE SaverInv' /\ Stores
  <2>1. ASSUME NEW u \in Users, ControllerStep(u) PROVE SaverInv' /\ Stores
      BY <1>1, <2>1, UpdateStep, TimerStep, LoadStep, ApplyStep, SucceedsStep, FailsStep, CleanupStep DEF ControllerStep
  <2> QED
      BY <1>1, <2>1, PageStep, LateStep, SessionStep DEF SaverNext
<1>2. ASSUME SaverInv, UNCHANGED saverVars PROVE SaverInv' /\ Stores
  <2>1. SaverInv'
      BY <1>2 DEF saverVars, SaverInv, SaverTypeOK
  <2>2. Stores
      BY <1>2 DEF saverVars, Stores, StoreOf!vars
  <2> QED
      BY <2>1, <2>2
<1> QED
    BY <1>1, <1>2

\* In every reachable state the saver's variables have their types and its
\* controllers keep to SaverInv.
THEOREM SaverInvariant == SaverSpec => []SaverInv
    BY SaverInvInit, SaverInvStep, PTL DEF SaverSpec

\* A document goes out under a session of the account it belongs to, the very
\* one its page was opened in (useGraphLayoutDocument).
THEOREM WritesStayInSession == SaverSpec => []WritesKeepTheirSession
<1>1. SaverInv => WritesKeepTheirSession
    BY DEF SaverInv, Kept, WritesKeepTheirSession
<1> QED
    BY <1>1, SaverInvariant, PTL

\* The saver implements the abstract store for every account: its document only
\* moves forward along the edits, and "nothing pending" means stored.
THEOREM SaverRefinement == SaverSpec => ImplementsStore
<1>1. SaverInit => \A u \in Users : StoreOf(u)!Init
    BY DEF SaverInit, StoreOf!Init
<1>2. SaverInv /\ [SaverNext]_saverVars => [\A u \in Users : StoreOf(u)!Next \/ UNCHANGED StoreOf(u)!vars]_saverVars
    BY SaverInvStep DEF Stores
<1> QED
    BY <1>1, <1>2, SaverInvariant, PTL DEF SaverSpec, ImplementsStore
-----------------------------------------------------------------------------
(***************************************************************************)
(* The page and its runner.  A reply of the live worker is the answer to   *)
(* the running job, since a worker that is given another job has answered  *)
(* the one before and a terminated one is never live again; what is        *)
(* reported for the job submitted last leaves nothing running; and the job *)
(* of the page is the one its state asks for.                              *)
(***************************************************************************)
RunnerInv ==
    /\ synchronous \in BOOLEAN /\ spawned \in Nat /\ seq \in Nat
    /\ worker # Nothing => worker \in 1 .. spawned /\ ~synchronous
    /\ running # Nothing => /\ running \in Running /\ worker # Nothing
                            /\ running.id <= seq /\ running.source <= made
    /\ queued # Nothing => /\ queued \in Waiting /\ queued.id = seq /\ queued.source <= made
                           /\ running # Nothing /\ running.id < seq
    /\ last # Nothing => last \in Jobs /\ last <= made
    /\ \A r \in replies : /\ r \in Replies /\ r.from <= spawned
                          /\ r.from = worker => /\ running # Nothing
                                                /\ r.id = running.id /\ r.positions = running.source
    /\ outcome # Nothing => /\ outcome \in Outcomes /\ outcome.source <= made
                            /\ outcome.source = last => running = Nothing /\ queued = Nothing
                            /\ outcome.kind = "ready" => ready # Nothing /\ ready.source = outcome.source
    /\ ready # Nothing => ready \in Results /\ ready.source = ready.positions

PageInv ==
    /\ Now \in State /\ asked \in BOOLEAN /\ made \in 0 .. MaxJobs
    /\ showAllState => asked
    /\ job # Nothing => job \in PageJobs /\ job.no <= made
    /\ Request(job) = Structural(Now)
    /\ job # Nothing /\ ~Empty => last = job.no
    /\ RunnerInv

LEMMA NothingElse ==
    /\ Nothing \notin Nat /\ Nothing \notin Jobs /\ Nothing \notin Folds /\ Nothing \notin Graphs /\ Nothing \notin Waiting
    /\ Nothing \notin Running /\ Nothing \notin Outcomes /\ Nothing \notin Results
    /\ Nothing \notin Requests /\ Nothing \notin PageJobs
    BY GraphPageAssumption DEF Jobs

-----------------------------------------------------------------------------
(* The runner's steps *)

\* What every step of the runner, and every request of the page, leaves of the rest.
Goes ==
    /\ made \in Nat /\ made' \in Nat /\ made <= made'
    /\ seq' \in Nat
    /\ last' # Nothing => last' \in Jobs /\ last' <= made'

\* A job that goes to a worker, which has no answer on its way.
LEMMA PostsStep ==
    ASSUME RunnerInv, Goes, NEW request \in Waiting, request.id <= seq', request.source <= made',
           NEW left, NEW gaveUp \in BOOLEAN, Posts(request, left, gaveUp),
           left # Nothing => left = worker /\ ~gaveUp /\ \A r \in replies' : r.from # worker,
           queued' = Nothing, replies' \subseteq replies, UNCHANGED ready,
           outcome' # Nothing => outcome' = outcome /\ outcome.source # last'
    PROVE  RunnerInv'
<1>1. running' \in Running /\ running'.id = request.id /\ running'.source = request.source /\ running' # Nothing
  <2>1. running' = [id |-> request.id, source |-> request.source, pastGrace |-> FALSE]
      BY DEF Posts
  <2>2. request.id \in Nat /\ request.source \in Jobs
      BY DEF Waiting
  <2>3. running' \in Running /\ running'.id = request.id /\ running'.source = request.source
      BY <2>1, <2>2 DEF Running
  <2> QED
      BY <2>3, NothingElse
<1>2. /\ spawned' \in Nat /\ spawned <= spawned' /\ worker' \in 1 .. spawned' /\ worker' # Nothing
      /\ synchronous' = FALSE
    BY NothingElse DEF Posts, RunnerInv
<1>3. \A r \in replies' : r \in Replies /\ r.from <= spawned /\ r.from \in Nat
    BY DEF RunnerInv, Replies
<1>4. \A r \in replies' : r.from <= spawned' /\ r.from # worker'
    BY <1>2, <1>3 DEF Posts, RunnerInv
<1>5. outcome' # Nothing => /\ outcome' \in Outcomes /\ outcome'.source <= made'
                            /\ outcome'.source # last'
                            /\ outcome'.kind = "ready" => ready' # Nothing /\ ready'.source = outcome'.source
    BY DEF RunnerInv, Goes, Outcomes, Jobs
<1>6. ready' # Nothing => ready' \in Results /\ ready'.source = ready'.positions
    BY DEF RunnerInv
<1> QED
    BY <1>1, <1>2, <1>3, <1>4, <1>5, <1>6 DEF RunnerInv, Goes

\* What a report leaves behind.
LEMMA ReportStep ==
    ASSUME RunnerInv, NEW kind \in {"ready", "error", "timeout"}, NEW source \in Jobs, source <= made',
           Report(kind, source, IF kind = "ready" THEN source ELSE Nothing)
    PROVE  /\ outcome' \in Outcomes /\ outcome'.source <= made'
           /\ outcome'.kind = "ready" => ready' # Nothing /\ ready'.source = outcome'.source
           /\ ready' # Nothing => ready' \in Results /\ ready'.source = ready'.positions
<1>1. outcome' \in Outcomes /\ outcome'.source = source /\ outcome'.kind = kind
    BY DEF Report, Outcomes
<1>2. CASE kind = "ready"
    BY <1>1, <1>2, NothingElse DEF Report, Results
<1>3. CASE kind # "ready"
    BY <1>1, <1>3 DEF Report, RunnerInv
<1> QED
    BY <1>1, <1>2, <1>3

\* A job laid out on the calling thread, when there is no worker to be had.
LEMMA HereStep ==
    ASSUME RunnerInv, Goes, NEW request \in Waiting, request.source <= made', NEW left, RunsHere(request, left),
           queued' = Nothing, replies' \subseteq replies
    PROVE  RunnerInv'
<1>1. request.source \in Jobs
    BY DEF Waiting
<1>2. PICK kind \in {"ready", "error"} : Report(kind, request.source, IF kind = "ready" THEN request.source ELSE Nothing)
    BY DEF RunsHere, RunSynchronously
<1>3. /\ outcome' \in Outcomes /\ outcome'.source <= made'
      /\ outcome'.kind = "ready" => ready' # Nothing /\ ready'.source = outcome'.source
      /\ ready' # Nothing => ready' \in Results /\ ready'.source = ready'.positions
    BY <1>1, <1>2, ReportStep
<1>4. worker' = Nothing /\ running' = Nothing /\ synchronous' = TRUE /\ spawned' = spawned
    BY DEF RunsHere
<1>5. \A r \in replies' : r \in Replies /\ r.from <= spawned' /\ r.from # worker'
    BY <1>4, NothingElse DEF RunnerInv, Replies
<1> QED
    BY <1>3, <1>4, <1>5 DEF RunnerInv, Goes

LEMMA StartStep ==
    ASSUME RunnerInv, Goes, NEW request \in Waiting, request.id <= seq', request.source <= made',
           NEW left, NEW gaveUp \in BOOLEAN, Start(request, left, gaveUp),
           left # Nothing => left = worker /\ ~gaveUp /\ \A r \in replies' : r.from # worker,
           queued' = Nothing, replies' \subseteq replies,
           outcome # Nothing => outcome.source # last'
    PROVE  RunnerInv'
<1>1. CASE Posts(request, left, gaveUp) /\ Silent
    BY <1>1, PostsStep DEF Silent
<1>2. CASE RunsHere(request, left)
    BY <1>2, HereStep
<1> QED
    BY <1>1, <1>2 DEF Start

\* The job that waits takes the place of the running one, or nothing does.
LEMMA QueuedStep ==
    ASSUME RunnerInv, Goes, UNCHANGED <<seq, last>>, running # Nothing \/ queued = Nothing,
           NEW left, NEW gaveUp \in BOOLEAN, StartQueued(left, gaveUp),
           left # Nothing => left = worker /\ ~gaveUp /\ \A r \in replies' : r.from # worker,
           replies' \subseteq replies
    PROVE  RunnerInv'
<1>1. CASE queued # Nothing
  <2>1. queued \in Waiting /\ queued.id <= seq' /\ queued.source <= made' /\ running # Nothing
      BY <1>1 DEF RunnerInv, Goes, Waiting, Jobs
  <2>2. outcome # Nothing => outcome.source # last'
      BY <2>1 DEF RunnerInv
  <2> QED
      BY <1>1, <2>1, <2>2, StartStep DEF StartQueued
<1>2. CASE queued = Nothing
  <2>1. /\ worker' = left /\ running' = Nothing /\ queued' = Nothing /\ synchronous' = gaveUp
        /\ UNCHANGED <<outcome, ready, spawned>>
      BY <1>2 DEF StartQueued, Silent
  <2>2. \A r \in replies' : r \in Replies /\ r.from <= spawned' /\ r.from # worker'
      BY <2>1, NothingElse DEF RunnerInv, Replies
  <2>3. outcome' # Nothing => outcome' \in Outcomes /\ outcome'.source <= made'
      BY <2>1 DEF RunnerInv, Goes, Outcomes, Jobs
  <2> QED
      BY <2>1, <2>2, <2>3 DEF RunnerInv, Goes
<1> QED
    BY <1>1, <1>2

LEMMA SubmitStep ==
    ASSUME RunnerInv, made \in Nat, made < MaxJobs, made' = made + 1, Submit(made + 1)
    PROVE  RunnerInv' /\ last' = made + 1
<1> DEFINE request == [id |-> seq + 1, source |-> made + 1]
<1>1. /\ made + 1 \in Jobs /\ seq \in Nat /\ request \in Waiting
      /\ request.id = seq + 1 /\ request.source = made + 1
    BY GraphPageAssumption DEF RunnerInv, Waiting, Jobs
<1>2. seq' = seq + 1 /\ last' = made + 1 /\ replies' = replies
    BY DEF Submit
<1>3. Goes
    BY <1>1, <1>2 DEF Goes
<1>4. outcome # Nothing => outcome.source # last'
    BY <1>1, <1>2 DEF RunnerInv, Outcomes, Jobs
<1>5. request.id <= seq' /\ request.source <= made' /\ synchronous \in BOOLEAN
    BY <1>1, <1>2 DEF RunnerInv
<1> HIDE DEF request
<1>6. CASE running = Nothing /\ Start(request, worker, synchronous) /\ UNCHANGED queued
  <2>1. queued' = Nothing /\ (worker # Nothing => ~synchronous) /\ \A r \in replies' : r.from # worker
      BY <1>2, <1>6 DEF RunnerInv
  <2> QED
      BY <1>1, <1>2, <1>3, <1>4, <1>5, <1>6, <2>1, StartStep
<1>7. CASE Start(request, Nothing, synchronous) /\ queued' = Nothing
    BY <1>1, <1>2, <1>3, <1>4, <1>5, <1>7, StartStep
<1>8. CASE /\ running # Nothing /\ queued' = request
           /\ Silent /\ UNCHANGED <<worker, spawned, synchronous, running>>
  <2>1. outcome' # Nothing => outcome' \in Outcomes /\ outcome'.source <= made' /\ outcome'.source # last'
      BY <1>1, <1>2, <1>4, <1>8 DEF RunnerInv, Silent, Outcomes, Jobs
  <2>2. running' \in Running /\ running'.id < seq' /\ running'.source <= made'
      BY <1>1, <1>2, <1>8 DEF RunnerInv, Running, Jobs
  <2>3. running'.id <= seq'
      BY <1>1, <1>2, <2>2 DEF Running
  <2> QED
      BY <1>1, <1>2, <1>3, <1>8, <2>1, <2>2, <2>3 DEF RunnerInv, Silent, Goes
<1> QED
    BY <1>2, <1>6, <1>7, <1>8 DEF Submit, request

LEMMA CancelStep ==
    ASSUME RunnerInv, made \in Nat, made' \in Nat, made <= made', Cancel
    PROVE  RunnerInv' /\ last' = last
<1>1. /\ worker' = Nothing /\ running' = Nothing /\ queued' = Nothing /\ outcome' = Nothing /\ ready' = Nothing
      /\ spawned' = spawned /\ synchronous' = synchronous /\ last' = last /\ replies' = replies /\ seq' = seq + 1
    BY DEF Cancel
<1>2. \A r \in replies' : r \in Replies /\ r.from <= spawned' /\ r.from # worker'
    BY <1>1, NothingElse DEF RunnerInv, Replies
<1>3. last' # Nothing => last' \in Jobs /\ last' <= made'
    BY <1>1 DEF RunnerInv, Jobs
<1> QED
    BY <1>1, <1>2, <1>3 DEF RunnerInv

\* Fewer replies, and one more of the worker's: the answer to the running job.
LEMMA ReplyStep ==
    ASSUME RunnerInv, made \in Nat, UNCHANGED made, NEW r \in replies, OnReply(r)
    PROVE  RunnerInv' /\ last' = last
<1>1. replies' = replies \ {r} /\ replies' \subseteq replies /\ seq' = seq /\ last' = last
    BY DEF OnReply
<1>2. Goes
    BY <1>1 DEF Goes, RunnerInv, Jobs
<1>3. CASE UNCHANGED <<worker, spawned, synchronous, running, queued, outcome, ready>>
    BY <1>1, <1>3 DEF RunnerInv
<1>4. ASSUME Expected(r) PROVE \A x \in replies' : x.from # worker
  <2>1. ASSUME NEW x \in replies, x.from = worker PROVE x = r
      BY <1>4, <2>1 DEF RunnerInv, Replies, Expected
  <2> QED
      BY <1>1, <2>1
<1>5. CASE Expected(r) /\ StartQueued(worker, synchronous)
  <2>1. running # Nothing /\ worker # Nothing /\ ~synchronous /\ synchronous \in BOOLEAN
      BY <1>5 DEF Expected, RunnerInv
  <2> QED
      BY <1>1, <1>2, <1>4, <1>5, <2>1, QueuedStep
<1>6. CASE /\ Expected(r) /\ running.id = seq
           /\ \E kind \in {"ready", "error"} : Report(kind, running.source, r.positions)
           /\ running' = Nothing
           /\ UNCHANGED <<worker, spawned, synchronous, queued>>
  <2>1. /\ running \in Running /\ running.source \in Jobs /\ running.source <= made' /\ r.positions = running.source
        /\ queued = Nothing
      BY <1>6 DEF Expected, RunnerInv, Running, Waiting
  <2>2. PICK kind \in {"ready", "error"} : Report(kind, running.source, r.positions)
      BY <1>6
  <2>3. Report(kind, running.source, IF kind = "ready" THEN running.source ELSE Nothing)
      BY <2>1, <2>2 DEF Report
  <2>4. /\ outcome' \in Outcomes /\ outcome'.source <= made'
        /\ outcome'.kind = "ready" => ready' # Nothing /\ ready'.source = outcome'.source
        /\ ready' # Nothing => ready' \in Results /\ ready'.source = ready'.positions
      BY <2>1, <2>3, ReportStep
  <2>5. \A x \in replies' : x \in Replies /\ x.from <= spawned' /\ x.from # worker'
      BY <1>1, <1>4, <1>6 DEF RunnerInv
  <2> QED
      BY <1>1, <1>2, <1>6, <2>1, <2>4, <2>5 DEF RunnerInv, Goes
<1> QED
    BY <1>1, <1>3, <1>5, <1>6 DEF OnReply

LEMMA WorkerStep ==
    ASSUME RunnerInv, made \in Nat, UNCHANGED made, WorkerReplies
    PROVE  RunnerInv' /\ last' = last
<1> DEFINE x == [from |-> worker, id |-> running.id, positions |-> running.source]
<1>1. /\ running \in Running /\ worker \in Nat /\ worker <= spawned
      /\ x \in Replies /\ x.from = worker /\ x.id = running.id /\ x.positions = running.source
    BY DEF WorkerReplies, RunnerInv, Running, Replies
<1>2. /\ replies' = replies \cup {x}
      /\ UNCHANGED <<worker, spawned, synchronous, seq, running, queued, last, outcome, ready>>
      /\ running # Nothing
    BY DEF WorkerReplies
<1> HIDE DEF x
<1>3. \A r \in replies' : /\ r \in Replies /\ r.from <= spawned'
                          /\ r.from = worker' => /\ running' # Nothing
                                                 /\ r.id = running'.id /\ r.positions = running'.source
    BY <1>1, <1>2 DEF RunnerInv
<1> QED
    BY <1>2, <1>3 DEF RunnerInv

\* A worker that fails leaves its newest job to be started again, without it.
LEMMA FaultStep ==
    ASSUME RunnerInv, made \in Nat, UNCHANGED made, OnFault
    PROVE  RunnerInv' /\ last' = last
<1>1. /\ replies' = replies /\ replies' \subseteq replies /\ seq' = seq /\ last' = last
    BY DEF OnFault
<1>2. Goes /\ (running # Nothing \/ queued = Nothing)
    BY <1>1 DEF Goes, RunnerInv, Jobs
<1> DEFINE request == [id |-> running.id, source |-> running.source]
<1>3. CASE queued = Nothing /\ running # Nothing /\ Start(request, Nothing, TRUE) /\ UNCHANGED queued
  <2>1. running \in Running /\ running.id <= seq /\ running.source <= made
      BY <1>3 DEF RunnerInv
  <2>2. request \in Waiting /\ request.id <= seq' /\ request.source <= made'
      BY <1>1, <2>1 DEF Running, Waiting
  <2>3. outcome # Nothing => outcome.source # last'
      BY <1>1, <1>3 DEF RunnerInv
  <2> HIDE DEF request
  <2> QED
      BY <1>1, <1>2, <1>3, <2>2, <2>3, StartStep
<1>4. CASE StartQueued(Nothing, TRUE)
    BY <1>1, <1>2, <1>4, QueuedStep
<1> QED
    BY <1>1, <1>3, <1>4 DEF OnFault

\* Past its grace a job makes room for the one that waits, and at its deadline in any case.
LEMMA TimersStep ==
    ASSUME RunnerInv, made \in Nat, UNCHANGED made, GracePasses \/ Expire
    PROVE  RunnerInv' /\ last' = last
<1>1. /\ replies' = replies /\ replies' \subseteq replies /\ seq' = seq /\ last' = last
      /\ running # Nothing /\ synchronous \in BOOLEAN
    BY DEF GracePasses, Expire, RunnerInv
<1>2. Goes
    BY <1>1 DEF Goes, RunnerInv, Jobs
<1>3. running \in Running /\ running.source \in Jobs /\ running.source <= made
    BY <1>1 DEF RunnerInv, Running
<1>4. CASE StartQueued(Nothing, synchronous)
    BY <1>1, <1>2, <1>4, QueuedStep
<1>5. CASE /\ queued = Nothing /\ running' = [running EXCEPT !.pastGrace = TRUE]
           /\ Silent /\ UNCHANGED <<worker, spawned, synchronous, queued>>
  <2>1. running' \in Running /\ running'.id = running.id /\ running'.source = running.source
      BY <1>3, <1>5 DEF Running
  <2>2. running' # Nothing
      BY <2>1, NothingElse
  <2>3. \A r \in replies' : /\ r \in Replies /\ r.from <= spawned'
                            /\ r.from = worker' => r.id = running'.id /\ r.positions = running'.source
      BY <1>1, <1>5, <2>1 DEF RunnerInv
  <2>4. outcome' # Nothing => /\ outcome' \in Outcomes /\ outcome'.source <= made' /\ outcome'.source # last'
                              /\ outcome'.kind = "ready" => ready' # Nothing /\ ready'.source = outcome'.source
      BY <1>1, <1>5 DEF RunnerInv, Silent
  <2> QED
      BY <1>1, <1>2, <1>5, <2>1, <2>2, <2>3, <2>4 DEF RunnerInv, Silent, Goes
<1>6. CASE /\ queued = Nothing /\ Report("timeout", running.source, Nothing)
           /\ worker' = Nothing /\ running' = Nothing
           /\ UNCHANGED <<spawned, synchronous, queued>>
  <2>1. /\ outcome' \in Outcomes /\ outcome'.source <= made'
        /\ outcome'.kind = "ready" => ready' # Nothing /\ ready'.source = outcome'.source
        /\ ready' # Nothing => ready' \in Results /\ ready'.source = ready'.positions
      BY <1>3, <1>6, ReportStep
  <2>2. \A r \in replies' : r \in Replies /\ r.from <= spawned' /\ r.from # worker'
      BY <1>1, <1>6, NothingElse DEF RunnerInv, Replies
  <2> QED
      BY <1>1, <1>2, <1>6, <2>1, <2>2 DEF RunnerInv, Goes
<1> QED
    BY <1>1, <1>4, <1>5, <1>6 DEF GracePasses, Expire, Supersede

-----------------------------------------------------------------------------
(* The page's steps *)

\* The gate's operators, for any state of the page.
LEMMA GateTypes ==
    ASSUME NEW s \in State
    PROVE  /\ ResetUnderLimit(s) \in State
           /\ ResetUnderLimit(s).graph = s.graph /\ ResetUnderLimit(s).collapsed = s.collapsed
           /\ ResetUnderLimit(s).showAll => OverLimit(ResetUnderLimit(s)) /\ s.showAll
           /\ Folded(s) \in Folds
           /\ Structural(s) \in Requests \cup {Nothing}
<1>1. ResetUnderLimit(s) \in State /\ ResetUnderLimit(s).graph = s.graph /\ ResetUnderLimit(s).collapsed = s.collapsed
    BY DEF ResetUnderLimit, State
<1>2. ResetUnderLimit(s).showAll => OverLimit(ResetUnderLimit(s)) /\ s.showAll
    BY DEF ResetUnderLimit, State
<1>3. Folded(s) \in Folds
    BY NothingElse DEF Folded, Overlay, AutoOpen, State, Folds
<1>4. ShowAll(s) \in BOOLEAN
    BY DEF ShowAll, OverLimit, State
<1>5. Structural(s) \in Requests \cup {Nothing}
    BY <1>3, <1>4 DEF Structural, Requests, State
<1> QED
    BY <1>1, <1>2, <1>3, <1>5

\* A job is made for what the state asks for, and is the newest one submitted.
LEMMA RenderStep ==
    ASSUME PageInv, NEW next \in State, Renders(next)
    PROVE  PageInv'
<1> DEFINE s == ResetUnderLimit(next)
           w == Structural(s)
<1>1. /\ s \in State /\ w \in Requests \cup {Nothing}
      /\ s.showAll => OverLimit(s)
    BY GateTypes
<1>2. /\ graph' = s.graph /\ phase' = s.phase /\ collapsed' = s.collapsed
      /\ overlayState' = s.overlay /\ showAllState' = s.showAll /\ dismissedState' = s.dismissed
      /\ asked' = (OverLimit(s) /\ (asked \/ (s.showAll /\ ~showAllState)))
      /\ IF w = Request(job) THEN UNCHANGED <<job, made, runnerVars>>
         ELSE IF w = Nothing THEN job' = Nothing /\ UNCHANGED made /\ Cancel
         ELSE /\ made < MaxJobs
              /\ made' = made + 1
              /\ job' = [no |-> made + 1, graph |-> w.graph, fold |-> w.fold, full |-> w.full]
              /\ IF w.graph[w.fold] = 0 THEN Cancel ELSE Submit(made + 1)
    BY DEF Renders
<1> HIDE DEF s
<1>3. Now' = s
    BY <1>1, <1>2 DEF Now, State
<1>4. Structural(Now)' = Structural(s)
    BY <1>3 DEF Structural, GraphGate, DrawnNodes, Folded, Overlay, AutoOpen, TopLevelFits, TopLevelHelps, ShowAll, OverLimit
<1> HIDE DEF w
<1>5. Now' \in State /\ asked' \in BOOLEAN /\ (showAllState' => asked')
    BY <1>1, <1>2, <1>3 DEF PageInv, OverLimit
<1>6. made \in 0 .. MaxJobs /\ made \in Nat /\ RunnerInv /\ MaxJobs \in Nat
    BY GraphPageAssumption DEF PageInv
<1>7. CASE w = Request(job) /\ UNCHANGED <<job, made, runnerVars>>
  <2>1. RunnerInv'
      BY <1>6, <1>7 DEF RunnerInv, runnerVars
  <2>2. Request(job)' = Structural(Now)'
      BY <1>4, <1>7 DEF Request, w
  <2>3. (job # Nothing => job \in PageJobs /\ job.no <= made)' /\ (job # Nothing /\ ~Empty => last = job.no)'
      BY <1>7 DEF PageInv, Empty, runnerVars
  <2> QED
      BY <1>5, <1>6, <1>7, <2>1, <2>2, <2>3 DEF PageInv
<1>8. CASE w = Nothing /\ job' = Nothing /\ UNCHANGED made /\ Cancel
  <2>1. RunnerInv'
      BY <1>6, <1>8, CancelStep
  <2>2. Request(job)' = Structural(Now)'
      BY <1>4, <1>8 DEF Request, w
  <2> QED
      BY <1>5, <1>6, <1>8, <2>1, <2>2 DEF PageInv, Empty
<1>9. CASE /\ w # Nothing /\ made < MaxJobs /\ made' = made + 1
           /\ job' = [no |-> made + 1, graph |-> w.graph, fold |-> w.fold, full |-> w.full]
           /\ IF w.graph[w.fold] = 0 THEN Cancel ELSE Submit(made + 1)
  <2>1. w \in Requests /\ made' \in 0 .. MaxJobs /\ made' \in Nat /\ made <= made' /\ made + 1 \in Jobs
      BY <1>1, <1>6, <1>9 DEF Jobs
  <2>2. job' \in PageJobs /\ job' # Nothing /\ job'.no = made' /\ job'.graph = w.graph /\ job'.fold = w.fold /\ job'.full = w.full
      BY <1>9, <2>1, NothingElse DEF Requests, PageJobs
  <2>3. Request(job)' = Structural(Now)'
      BY <1>4, <2>1, <2>2 DEF Request, w, Requests
  <2>4. RunnerInv' /\ (~Empty' => last' = made')
    <3>1. CASE w.graph[w.fold] = 0 /\ Cancel
        BY <1>6, <2>1, <2>2, <3>1, CancelStep DEF Empty
    <3>2. CASE Submit(made + 1)
        BY <1>6, <1>9, <3>2, SubmitStep
    <3> QED
        BY <1>9, <3>1, <3>2
  <2>5. job'.no <= made'
      BY <2>1, <2>2
  <2> QED
      BY <1>5, <2>1, <2>2, <2>3, <2>4, <2>5 DEF PageInv
<1> QED
    BY <1>2, <1>7, <1>8, <1>9

\* The retry of a job that failed: nothing runs, and the worker owes nothing.
LEMMA RetryStep ==
    ASSUME PageInv, Retry
    PROVE  PageInv'
<1> DEFINE request == [id |-> seq + 1, source |-> last]
<1>1. /\ RunnerInv /\ made \in Nat /\ seq' = seq + 1 /\ seq \in Nat
      /\ UNCHANGED <<last, queued, replies>>
      /\ UNCHANGED <<graph, phase, collapsed, overlayState, showAllState, dismissedState, asked, job, made>>
    BY GraphPageAssumption DEF PageInv, RunnerInv, Retry
<1>2. job # Nothing /\ ~Empty /\ outcome # Nothing /\ outcome.source = job.no
    BY DEF Retry, Panel, Status
<1>3. last = job.no /\ last \in Jobs /\ last <= made
    BY <1>1, <1>2, NothingElse DEF PageInv, PageJobs
<1>4. running = Nothing /\ queued = Nothing
    BY <1>1, <1>2, <1>3 DEF RunnerInv
<1>5. request \in Waiting /\ request.id = seq' /\ request.source = last
    BY <1>1, <1>3 DEF Waiting
<1>6. Goes
    BY <1>1, <1>3 DEF Goes
<1>7. /\ queued' = Nothing /\ replies' \subseteq replies /\ synchronous \in BOOLEAN
      /\ worker # Nothing => ~synchronous /\ \A r \in replies' : r.from # worker
      /\ request.id <= seq' /\ request.source <= made'
    BY <1>1, <1>3, <1>4, <1>5 DEF RunnerInv
<1> HIDE DEF request
<1>8. RunnerInv'
  <2>1. CASE Posts(request, worker, synchronous) /\ outcome' = Nothing /\ UNCHANGED ready
      BY <1>1, <1>5, <1>6, <1>7, <2>1, PostsStep
  <2>2. CASE RunsHere(request, worker)
      BY <1>1, <1>5, <1>6, <1>7, <2>2, HereStep
  <2> QED
      BY <2>1, <2>2 DEF Retry, request
<1>9. /\ Now' = Now /\ Structural(Now)' = Structural(Now) /\ Request(job)' = Request(job) /\ Empty' = Empty
    BY <1>1 DEF Now, Request, Empty, Structural, GraphGate, DrawnNodes, Folded, Overlay, AutoOpen, TopLevelFits,
                TopLevelHelps, ShowAll, OverLimit
<1> QED
    BY <1>1, <1>8, <1>9 DEF PageInv

LEMMA RunnerStepKeeps ==
    ASSUME PageInv, RunnerStep,
           UNCHANGED <<graph, phase, collapsed, overlayState, showAllState, dismissedState, asked, job, made>>
    PROVE  PageInv'
<1>1. RunnerInv /\ made \in Nat
    BY GraphPageAssumption DEF PageInv
<1>2. RunnerInv' /\ last' = last
    BY <1>1, WorkerStep, ReplyStep, FaultStep, TimersStep DEF RunnerStep
<1>3. /\ Now' = Now /\ Structural(Now)' = Structural(Now) /\ Request(job)' = Request(job) /\ Empty' = Empty
    BY DEF Now, Request, Empty, Structural, GraphGate, DrawnNodes, Folded, Overlay, AutoOpen, TopLevelFits,
           TopLevelHelps, ShowAll, OverLimit
<1> QED
    BY <1>2, <1>3 DEF PageInv

-----------------------------------------------------------------------------
(* The page's theorems *)

LEMMA PageInvInit == PageInit => PageInv
<1> SUFFICES ASSUME PageInit PROVE PageInv
    OBVIOUS
<1>1. Now \in State
    BY DEF PageInit, Now, State, Folds
<1>2. RunnerInv
    BY NothingElse DEF PageInit, RunnerInit, RunnerInv
<1>3. Request(job) = Structural(Now)
    BY DEF PageInit, Request, Structural, Now
<1>4. 0 \in 0 .. MaxJobs
    BY GraphPageAssumption
<1> QED
    BY <1>1, <1>2, <1>3, <1>4 DEF PageInit, PageInv

LEMMA PageInvStep == PageInv /\ [PageNext]_pageVars => PageInv'
<1> SUFFICES ASSUME PageInv, [PageNext]_pageVars PROVE PageInv'
    OBVIOUS
<1>1. Now \in State
    BY DEF PageInv
<1>2. ASSUME NEW g \in Graphs \cup {Nothing}, Select(g) PROVE PageInv'
  <2>1. [Now EXCEPT !.graph = g] \in State
      BY <1>1 DEF State
  <2> QED
      BY <1>2, <2>1, RenderStep DEF Select
<1>3. ASSUME NEW fold \in Folds, LayoutLoaded(fold) PROVE PageInv'
  <2>1. [Now EXCEPT !.phase = "ready", !.collapsed = fold] \in State
      BY <1>1 DEF State
  <2> QED
      BY <1>3, <2>1, RenderStep DEF LayoutLoaded
<1>4. CASE LayoutFails \/ RetryLayout
  <2>1. [Now EXCEPT !.phase = "loadError"] \in State /\ [Now EXCEPT !.phase = "loading"] \in State
      BY <1>1 DEF State
  <2> QED
      BY <1>4, <2>1, RenderStep DEF LayoutFails, RetryLayout
<1>5. CASE ShowTopLevel \/ ShowEverything \/ ClearOverlay
  <2>1. /\ [Now EXCEPT !.showAll = FALSE, !.overlay = "top"] \in State
        /\ [Now EXCEPT !.overlay = Nothing, !.showAll = TRUE] \in State
        /\ [Now EXCEPT !.overlay = Nothing, !.dismissed = TRUE] \in State
      BY <1>1 DEF State, Folds
  <2> QED
      BY <1>5, <2>1, RenderStep DEF ShowTopLevel, ShowEverything, ClearOverlay
<1>6. ASSUME NEW fold \in Folds, ToggleTo(fold) \/ ExpandAll PROVE PageInv'
  <2>1. /\ [Now EXCEPT !.overlay = fold] \in State /\ [Now EXCEPT !.collapsed = fold] \in State
        /\ [Now EXCEPT !.overlay = Nothing, !.dismissed = TRUE] \in State /\ [Now EXCEPT !.collapsed = "open"] \in State
      BY <1>1 DEF State, Folds
  <2> QED
      BY <1>6, <2>1, RenderStep DEF ToggleTo, ExpandAll
<1>7. CASE UNCHANGED pageVars
  <2>1. /\ Now' = Now /\ Structural(Now)' = Structural(Now) /\ Request(job)' = Request(job) /\ Empty' = Empty
      BY <1>7 DEF pageVars, Now, Request, Empty, Structural, GraphGate, DrawnNodes, Folded, Overlay, AutoOpen,
                  TopLevelFits, TopLevelHelps, ShowAll, OverLimit
  <2>2. RunnerInv'
      BY <1>7 DEF pageVars, runnerVars, PageInv, RunnerInv
  <2> QED
      BY <1>7, <2>1, <2>2 DEF pageVars, runnerVars, PageInv
<1>8. "open" \in Folds
    BY DEF Folds
<1> QED
    BY <1>2, <1>3, <1>4, <1>5, <1>6, <1>7, <1>8, RetryStep, RunnerStepKeeps DEF PageNext

\* In every reachable state the page's variables have their types, the job on
\* the page is the one its state asks for and the runner keeps to RunnerInv.
THEOREM PageInvariant == PageSpec => []PageInv
    BY PageInvInit, PageInvStep, PTL DEF PageSpec

\* The positions on screen belong to the job they are paired with, whatever
\* faults, cancellations and late replies happened (useGraphLayoutWorker).
THEOREM PositionsMatch == PageSpec => []PositionsBelongToTheirJob
<1>1. PageInv => PositionsBelongToTheirJob
  <2> SUFFICES ASSUME PageInv PROVE PositionsBelongToTheirJob
      OBVIOUS
  <2>1. RunnerInv
      BY DEF PageInv
  <2>2. Result # Nothing => Result.source = Result.positions
      BY <2>1 DEF Result, RunnerInv
  <2>3. Status = "ready" => Result.source = job.no
      BY <2>1 DEF Status, Result, RunnerInv
  <2> QED
      BY <2>1, <2>2, <2>3 DEF RunnerInv, PositionsBelongToTheirJob
<1> QED
    BY <1>1, PageInvariant, PTL

\* A graph over the limit is laid out only when "Show everything" was chosen
\* since it was last small (useLargeGraphGate).
THEOREM LongLayoutsAsked == PageSpec => []LongLayoutsAreAskedFor
<1>1. PageInv => LongLayoutsAreAskedFor
  <2> SUFFICES ASSUME PageInv, job # Nothing, job.graph[job.fold] > Limit PROVE asked /\ job.full
      BY DEF LongLayoutsAreAskedFor
  <2>1. Now \in State /\ job \in PageJobs /\ Request(job) = Structural(Now) /\ (showAllState => asked)
      BY DEF PageInv
  <2>2. Request(job) \in Requests /\ Request(job) # Nothing
      BY <2>1, NothingElse DEF Request, PageJobs, Requests
  <2>3. /\ Now.graph # Nothing /\ GraphGate(Now) # "large"
        /\ Structural(Now) = [graph |-> Now.graph, fold |-> Folded(Now), full |-> ShowAll(Now)]
      BY <2>1, <2>2 DEF Structural
  <2>4. job.graph = Now.graph /\ job.fold = Folded(Now) /\ job.full = ShowAll(Now)
      BY <2>1, <2>3 DEF Request
  <2>5. ShowAll(Now)
      BY <2>3, <2>4 DEF GraphGate, DrawnNodes
  <2>6. showAllState
      BY <2>5 DEF ShowAll, Now
  <2> QED
      BY <2>1, <2>4, <2>5, <2>6
<1> QED
    BY <1>1, PageInvariant, PTL
=============================================================================
