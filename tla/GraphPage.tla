------------------------------ MODULE GraphPage ------------------------------
(***************************************************************************)
(* The Graph and the Entity graph page: the selection the filters leave,   *)
(* the fold the user saved, the gate in front of a large graph with its    *)
(* transient choices, and the layout job that follows from them.  A graph  *)
(* is the number of nodes it draws under each fold: nothing collapsed, the *)
(* fold a user has edited, and the top level.                              *)
(* The runner lays a graph out in a web worker: at most one job in the     *)
(* worker, at most one waiting, the newest; a job that overstays its grace *)
(* while a newer one waits is cancelled by terminating the worker, whose   *)
(* reply may already be on its way; a worker that fails is never replaced, *)
(* and the calling thread lays out from then on.                           *)
(***************************************************************************)
EXTENDS Naturals

CONSTANTS
    MaxJobs,     \* bound on the jobs a page makes
    MaxRequests, \* bound on the requests retries may bring the page to
    MaySpawn,    \* whether the browser has workers
    Graphs,      \* the selections: [open, some, top -> the nodes drawn]
    Limit,       \* LARGE_GRAPH_NODES
    Nothing

\* A job stands for its number among the jobs of the page.
Jobs == 1 .. MaxJobs
Folds == {"open", "some", "top"}

\* What the runner and the page hold, or Nothing.
Waiting == [id : Nat, source : Jobs]
Running == [id : Nat, source : Jobs, pastGrace : BOOLEAN]
Replies == [from : Nat, id : Nat, positions : Jobs]
Outcomes == [kind : {"ready", "error", "timeout"}, source : Jobs]
Results == [source : Jobs, positions : Jobs]
Requests == [graph : Graphs, fold : Folds, full : BOOLEAN]
PageJobs == [no : Jobs, graph : Graphs, fold : Folds, full : BOOLEAN]

ASSUME GraphPageAssumption ==
    /\ MaxJobs \in Nat /\ MaxRequests \in Nat /\ MaySpawn \in BOOLEAN /\ Limit \in Nat
    /\ \A g \in Graphs : g \in [Folds -> Nat] /\ g["top"] <= g["some"] /\ g["some"] <= g["open"]
    /\ Nothing \notin Nat \cup Folds \cup Graphs \cup Waiting \cup Running \cup Outcomes \cup Results
                        \cup Requests \cup PageJobs

-----------------------------------------------------------------------------
(* The runner.                                                             *)

VARIABLES
    worker,       \* the number of the live worker, or Nothing
    spawned,      \* workers made so far
    synchronous,  \* no worker can be had
    seq,          \* the id of the newest request
    running,      \* the job in the worker
    queued,       \* the job that waits
    last,         \* the source submitted last
    replies,      \* replies of workers, live or terminated, not delivered yet
    outcome,      \* the state of the hook: how the last reported job ended
    ready         \* the newest successful result

runnerVars == <<worker, spawned, synchronous, seq, running, queued, last, replies, outcome, ready>>

RunnerInit ==
    /\ worker = Nothing /\ spawned = 0 /\ synchronous = FALSE
    /\ seq = 0 /\ running = Nothing /\ queued = Nothing /\ last = Nothing
    /\ replies = {} /\ outcome = Nothing /\ ready = Nothing

Report(kind, source, positions) ==
    /\ outcome' = [kind |-> kind, source |-> source]
    /\ ready' = IF kind = "ready" THEN [source |-> source, positions |-> positions] ELSE ready

Silent == UNCHANGED <<outcome, ready>>

RunSynchronously(request) ==
    Report("ready", request.source, request.source) \/ Report("error", request.source, Nothing)

\* start, given the worker the caller leaves behind and whether the runner has
\* given up workers.  The job goes to the worker, made when there is none ...
Posts(request, left, gaveUp) ==
    /\ left # Nothing \/ (~gaveUp /\ MaySpawn)
    /\ worker' = IF left # Nothing THEN left ELSE spawned + 1
    /\ spawned' = IF left # Nothing THEN spawned ELSE spawned + 1
    /\ running' = [id |-> request.id, source |-> request.source, pastGrace |-> FALSE]
    /\ synchronous' = gaveUp

\* ... or, when the constructor throws or threw, it runs here and now.
RunsHere(request, left) ==
    /\ left = Nothing
    /\ worker' = Nothing /\ running' = Nothing /\ synchronous' = TRUE
    /\ RunSynchronously(request)
    /\ UNCHANGED spawned

Start(request, left, gaveUp) == (Posts(request, left, gaveUp) /\ Silent) \/ RunsHere(request, left)

StartQueued(left, gaveUp) ==
    /\ queued' = Nothing
    /\ IF queued # Nothing THEN Start(queued, left, gaveUp)
       ELSE worker' = left /\ running' = Nothing /\ synchronous' = gaveUp /\ Silent /\ UNCHANGED spawned

Supersede == StartQueued(Nothing, synchronous)

\* submit: the newest waits while another runs; past its grace that one is
\* cancelled for it.
Submit(source) ==
    LET request == [id |-> seq + 1, source |-> source] IN
    /\ seq' = seq + 1
    /\ last' = source
    /\ UNCHANGED replies
    /\ IF running = Nothing THEN Start(request, worker, synchronous) /\ UNCHANGED queued
       ELSE IF running.pastGrace THEN Start(request, Nothing, synchronous) /\ queued' = Nothing
       ELSE queued' = request /\ Silent /\ UNCHANGED <<worker, spawned, synchronous, running>>

\* cancel: the page has nothing to lay out.
Cancel ==
    /\ seq' = seq + 1
    /\ worker' = Nothing /\ running' = Nothing /\ queued' = Nothing
    /\ outcome' = Nothing /\ ready' = Nothing
    /\ UNCHANGED <<spawned, synchronous, last, replies>>
-----------------------------------------------------------------------------
(* The worker, and the two timers of a running job.                        *)

\* A worker computes the request it was sent and replies once; whether the
\* layout failed is only seen when the reply is delivered.
WorkerReplies ==
    /\ running # Nothing
    /\ ~\E r \in replies : r.from = worker /\ r.id = running.id
    /\ replies' = replies \cup {[from |-> worker, id |-> running.id, positions |-> running.source]}
    /\ UNCHANGED <<worker, spawned, synchronous, seq, running, queued, last, outcome, ready>>

\* Mutant: any reply that comes is taken for the running job's.
AnyReply(r) == running # Nothing

Expected(r) == running # Nothing /\ r.from = worker /\ r.id = running.id

\* Only the newest request's result is reported; an older one makes room.
OnReply(r) ==
    /\ r \in replies
    /\ replies' = replies \ {r}
    /\ IF ~Expected(r) THEN UNCHANGED <<worker, spawned, synchronous, running, queued, outcome, ready>>
       ELSE IF running.id # seq THEN StartQueued(worker, synchronous)
       ELSE /\ \E kind \in {"ready", "error"} : Report(kind, running.source, r.positions)
            /\ running' = Nothing
            /\ UNCHANGED <<worker, spawned, synchronous, queued>>
    /\ UNCHANGED <<seq, last>>

\* Mutant: the job that was in the worker is not run again.
OnFaultDrops ==
    /\ worker # Nothing
    /\ StartQueued(Nothing, TRUE)
    /\ UNCHANGED <<seq, last, replies>>

\* A worker fails outside a layout: its script did not load, or it is dead.
OnFault ==
    /\ worker # Nothing
    /\ IF queued = Nothing /\ running # Nothing /\ running.id = seq
         THEN Start([id |-> running.id, source |-> running.source], Nothing, TRUE) /\ UNCHANGED queued
         ELSE StartQueued(Nothing, TRUE)
    /\ UNCHANGED <<seq, last, replies>>

GracePasses ==
    /\ running # Nothing /\ ~running.pastGrace
    /\ IF queued # Nothing THEN Supersede
       ELSE /\ running' = [running EXCEPT !.pastGrace = TRUE]
            /\ Silent /\ UNCHANGED <<worker, spawned, synchronous, queued>>
    /\ UNCHANGED <<seq, last, replies>>

\* The deadline of a job is longer than its grace.
Expire ==
    /\ running # Nothing /\ running.pastGrace
    /\ IF queued # Nothing THEN StartQueued(Nothing, synchronous)
       ELSE /\ Report("timeout", running.source, Nothing)
            /\ worker' = Nothing /\ running' = Nothing
            /\ UNCHANGED <<spawned, synchronous, queued>>
    /\ UNCHANGED <<seq, last, replies>>

RunnerStep == WorkerReplies \/ (\E r \in replies : OnReply(r)) \/ OnFault \/ GracePasses \/ Expire

\* Timers fire: a worker may compute for ever.
RunnerFairness == WF_runnerVars(GracePasses) /\ WF_runnerVars(Expire)
-----------------------------------------------------------------------------
(* The page.                                                               *)

VARIABLES
    graph,           \* the selection on screen, or Nothing: all of it is filtered out
    phase,           \* the layout document: loading, ready, loadError
    collapsed,       \* the saved fold
    overlayState, showAllState, dismissedState,  \* the choices at the gate
    asked,           \* history: "Show everything" was chosen for this selection
    job,             \* the job of the page, or Nothing
    made             \* jobs made so far: each is a new object

pageVars == <<graph, phase, collapsed, overlayState, showAllState, dismissedState, asked, job, made, runnerVars>>

State == [graph : Graphs \cup {Nothing}, phase : {"loading", "ready", "loadError"}, collapsed : Folds,
          overlay : Folds \cup {Nothing}, showAll : BOOLEAN, dismissed : BOOLEAN]

\* The state a render starts from.
Now == [graph |-> graph, phase |-> phase, collapsed |-> collapsed, overlay |-> overlayState,
        showAll |-> showAllState, dismissed |-> dismissedState]

PageInit ==
    /\ graph = Nothing /\ phase = "loading" /\ collapsed = "open"
    /\ overlayState = Nothing /\ showAllState = FALSE /\ dismissedState = FALSE
    /\ asked = FALSE /\ job = Nothing /\ made = 0
    /\ RunnerInit
-----------------------------------------------------------------------------
(* useLargeGraphGate.                                                      *)

OverLimit(s) == s.graph # Nothing /\ s.graph[s.collapsed] > Limit

\* Mutant: the choices survive a selection that fits.
Remembers(s) == s

\* Derived state, reset during the render of a graph that is small again.
ResetUnderLimit(s) ==
    IF OverLimit(s) THEN s ELSE [s EXCEPT !.overlay = Nothing, !.showAll = FALSE, !.dismissed = FALSE]

TopLevelHelps(s) == OverLimit(s) /\ s.graph["top"] < s.graph[s.collapsed]
TopLevelFits(s) == TopLevelHelps(s) /\ s.graph["top"] <= Limit

\* The default overlay is derived, never stored; it waits for the saved fold.
AutoOpen(s) ==
    /\ s.phase # "loading" /\ TopLevelFits(s)
    /\ ~s.showAll /\ ~s.dismissed /\ s.overlay = Nothing

Overlay(s) ==
    IF ~OverLimit(s) \/ s.showAll THEN Nothing
    ELSE IF s.overlay # Nothing THEN s.overlay
    ELSE IF AutoOpen(s) THEN "top" ELSE Nothing

ShowAll(s) == OverLimit(s) /\ s.showAll

Folded(s) == IF Overlay(s) = Nothing THEN s.collapsed ELSE Overlay(s)

DrawnNodes(s) == s.graph[Folded(s)]

GraphGate(s) == IF s.graph # Nothing /\ ~ShowAll(s) /\ DrawnNodes(s) > Limit THEN "large" ELSE "layout"

CanShowTopLevel(s) ==
    TopLevelHelps(s) /\ (Overlay(s) = Nothing \/ (TopLevelFits(s) /\ Overlay(s) # "top"))
-----------------------------------------------------------------------------
(* A render: the job follows from the state, and the effect after it       *)
(* submits a job that is new or cancels what is not wanted any more.       *)

\* The memo the layout request hangs on.
Structural(s) ==
    IF s.graph = Nothing \/ GraphGate(s) = "large" THEN Nothing
    ELSE [graph |-> s.graph, fold |-> Folded(s), full |-> ShowAll(s)]

Request(j) == IF j = Nothing THEN Nothing ELSE [graph |-> j.graph, fold |-> j.fold, full |-> j.full]

Renders(next) ==
    LET s == ResetUnderLimit(next)
        w == Structural(s) IN
    /\ graph' = s.graph /\ phase' = s.phase /\ collapsed' = s.collapsed
    /\ overlayState' = s.overlay /\ showAllState' = s.showAll /\ dismissedState' = s.dismissed
    /\ asked' = (OverLimit(s) /\ (asked \/ (s.showAll /\ ~showAllState)))
    /\ IF w = Request(job) THEN UNCHANGED <<job, made, runnerVars>>
       ELSE IF w = Nothing THEN job' = Nothing /\ UNCHANGED made /\ Cancel
       ELSE /\ made < MaxJobs
            /\ made' = made + 1
            /\ job' = [no |-> made + 1, graph |-> w.graph, fold |-> w.fold, full |-> w.full]
            /\ IF w.graph[w.fold] = 0 THEN Cancel ELSE Submit(made + 1)

\* The filters change and the graph arrives, or every kind is switched off.
Select(g) == g # graph /\ Renders([Now EXCEPT !.graph = g])

LayoutLoaded(fold) == phase # "ready" /\ Renders([Now EXCEPT !.phase = "ready", !.collapsed = fold])
LayoutFails == phase = "loading" /\ Renders([Now EXCEPT !.phase = "loadError"])
RetryLayout == phase = "loadError" /\ Renders([Now EXCEPT !.phase = "loading"])

\* The gate's panel and the badge of the overlay.
ShowTopLevel ==
    GraphGate(Now) = "large" /\ CanShowTopLevel(Now) /\ Renders([Now EXCEPT !.showAll = FALSE, !.overlay = "top"])
ShowEverything == GraphGate(Now) = "large" /\ Renders([Now EXCEPT !.overlay = Nothing, !.showAll = TRUE])
ClearOverlay == Overlay(Now) # Nothing /\ Renders([Now EXCEPT !.overlay = Nothing, !.dismissed = TRUE])

-----------------------------------------------------------------------------
(* What the page shows: useGraphLayoutWorker's result, and the panels.     *)

Empty == job # Nothing /\ job.graph[job.fold] = 0

Status ==
    IF job = Nothing THEN "idle" ELSE IF Empty THEN "ready"
    ELSE IF outcome # Nothing /\ outcome.source = job.no THEN outcome.kind ELSE "pending"

Result == IF job = Nothing THEN Nothing ELSE IF Empty THEN [source |-> job.no, positions |-> job.no] ELSE ready

Panel ==
    IF GraphGate(Now) = "large" THEN "gate"
    ELSE IF Status \in {"timeout", "error"} THEN "failed"
    ELSE IF Status = "pending" /\ Result = Nothing THEN "computing"
    ELSE IF Result = Nothing \/ Empty THEN "empty" ELSE "canvas"

\* A fold toggle of the canvas edits the overlay while there is one, the saved
\* document otherwise, which takes a document that is loaded.
ToggleTo(fold) ==
    /\ Panel = "canvas" /\ Folded(Now) # fold
    /\ \/ Overlay(Now) # Nothing /\ Renders([Now EXCEPT !.overlay = fold])
       \/ Overlay(Now) = Nothing /\ phase = "ready" /\ Renders([Now EXCEPT !.collapsed = fold])

\* "Expand all", offered while what was laid out last has something collapsed,
\* only leaves the overlay; without one it clears the saved fold.
ExpandAll ==
    /\ Result # Nothing
    /\ \/ Overlay(Now) # Nothing /\ Renders([Now EXCEPT !.overlay = Nothing, !.dismissed = TRUE])
       \/ Overlay(Now) = Nothing /\ phase = "ready" /\ collapsed # "open" /\ Renders([Now EXCEPT !.collapsed = "open"])

\* The retry of the failed panel: the job that failed is not running and
\* nothing waits, so the last submitted one starts at once.
Retry ==
    /\ Panel = "failed" /\ seq < MaxRequests
    /\ seq' = seq + 1
    /\ LET request == [id |-> seq + 1, source |-> last] IN
         \/ Posts(request, worker, synchronous) /\ outcome' = Nothing /\ UNCHANGED ready
         \/ RunsHere(request, worker)
    /\ UNCHANGED <<last, queued, replies>>
    /\ UNCHANGED <<graph, phase, collapsed, overlayState, showAllState, dismissedState, asked, job, made>>
-----------------------------------------------------------------------------
PageNext ==
    \/ \E g \in Graphs \cup {Nothing} : Select(g)
    \/ \E fold \in Folds : LayoutLoaded(fold) \/ ToggleTo(fold)
    \/ LayoutFails \/ RetryLayout
    \/ ShowTopLevel \/ ShowEverything \/ ClearOverlay \/ ExpandAll \/ Retry
    \/ /\ RunnerStep
       /\ UNCHANGED <<graph, phase, collapsed, overlayState, showAllState, dismissedState, asked, job, made>>

PageSpec == PageInit /\ [][PageNext]_pageVars /\ RunnerFairness

PageTypeOK ==
    /\ Now \in State /\ asked \in BOOLEAN
    /\ made \in 0 .. MaxJobs
    /\ job # Nothing => job \in PageJobs
    /\ replies \subseteq Replies
-----------------------------------------------------------------------------
\* What is drawn was computed for the fold it is drawn with: the positions on
\* screen belong to the job they are paired with, "ready" is said only of the
\* job of the page, and the runner that has nothing running owes no answer
\* (useGraphLayoutWorker's "positions pair with the exact job").  Workers are
\* terminated while their replies are on the way, and the ids that tell them
\* apart are shared by retries, faults and superseded jobs.
PositionsBelongToTheirJob ==
    /\ Result # Nothing => Result.source = Result.positions
    /\ Status = "ready" => Result.source = job.no
    /\ queued # Nothing => running # Nothing /\ queued.id = seq
    /\ running # Nothing => worker # Nothing /\ ~synchronous

\* "Silently remembering 'everything' would start a long layout the user never
\* asked for": a job over the limit is submitted only while "Show everything"
\* was chosen since the graph was last small, whatever the filters, the fold
\* and the overlay did in between.
LongLayoutsAreAskedFor ==
    job # Nothing /\ job.graph[job.fold] > Limit => asked /\ job.full

\* A page does not wait for its layout for ever: the job is answered, with
\* positions, an error or a timeout the user can retry, or replaced, and there
\* are finitely many.  Faults, superseded jobs and the synchronous fallback may
\* not lose it.
PendingLayoutsAreAnswered == []<>(Status # "pending")
=============================================================================
