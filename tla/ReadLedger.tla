----------------------------- MODULE ReadLedger -----------------------------
(***************************************************************************)
(* infra/concurrency/ReadLedger.kt: the process-wide budget every          *)
(* whole-workspace read is charged to, and the telemetry sampler that      *)
(* reports the highest total of each interval.                             *)
(*                                                                         *)
(* The ledger has no lock: each step below is one access to one atomic     *)
(* variable, and reads and the sampler interleave between any two of them. *)
(* Not modelled: the refusal counter and the lifetime peak, which only     *)
(* ever grow and nothing decides on, and the test counters.                *)
(***************************************************************************)
EXTENDS Integers, FiniteSets

CONSTANTS Reads,      \* reservations, each used by one request at a time
          Capacity,   \* bytes the ledger holds
          MaxBytes    \* bound: the largest estimate or decode charge

\* Finitely many requests are under way; both figures are positive.
LedgerConstants == IsFiniteSet(Reads) /\ Capacity \in Nat \ {0} /\ MaxBytes \in Nat \ {0}

VARIABLES
  inFlight, intervalPeak, sinceSnapshot,   \* the ledger's atomics
  read,      \* each reservation and where its request stands in add()
  sampler,   \* where the sampler stands, and its locals
  reached    \* history: the highest total since the sampler's reading ended

ledgerVars == <<inFlight, intervalPeak, sinceSnapshot, read, sampler, reached>>

Bytes == 1..MaxBytes

ReadStages == {"closed", "open", "load", "swap", "since", "interval", "refused"}
SamplerStages == {"idle", "since", "peak", "taken", "endRead", "endHeld", "endSet", "endCheck"}

Closed == [stage |-> "closed", held |-> 0, prepaid |-> 0, bytes |-> 0, after |-> 0, seen |-> 0]

Bigger(a, b) == IF a > b THEN a ELSE b
Smaller(a, b) == IF a < b THEN a ELSE b

\* The bytes of every open reservation, each by its owner and number.
HeldBytes == UNION {{r} \X (1 .. read[r].held) : r \in Reads}
TotalHeld == Cardinality(HeldBytes)

Reservations ==
  [stage : ReadStages, held : 0..Capacity, prepaid : 0..Capacity, bytes : 0..MaxBytes,
   after : 0..(Capacity + MaxBytes), seen : 0..Capacity]

\* Every variable has its type; a reservation's prepaid pool is part of what it holds.
LedgerTypeOK ==
  /\ inFlight \in 0..Capacity
  /\ intervalPeak \in 0..Capacity
  /\ sinceSnapshot \in 0..Capacity
  /\ read \in [Reads -> Reservations]
  /\ \A r \in Reads : read[r].prepaid <= read[r].held
  /\ sampler \in [stage : SamplerStages, held : 0..Capacity, figure : 0..Capacity, since : 0..Capacity]
  /\ reached \in 0..Capacity

LedgerInit ==
  /\ inFlight = 0
  /\ intervalPeak = 0
  /\ sinceSnapshot = 0
  /\ read = [r \in Reads |-> Closed]
  /\ sampler = [stage |-> "idle", held |-> 0, figure |-> 0, since |-> 0]
  /\ reached = 0

-----------------------------------------------------------------------------
(* Reservations *)

LedgerUnchanged == UNCHANGED <<inFlight, intervalPeak, sinceSnapshot>>

Open(r) ==
  /\ read[r].stage = "closed"
  /\ read' = [read EXCEPT ![r] = [Closed EXCEPT !.stage = "open"]]
  /\ LedgerUnchanged /\ UNCHANGED <<sampler, reached>>

\* Enters add(bytes); `after' is the prepaid pool once it has succeeded.
Add(r, bytes, after) ==
  read' = [read EXCEPT ![r].stage = "load", ![r].bytes = bytes, ![r].after = after]

\* reserve(estimate): the whole estimate is added, and becomes prepaid.
Reserve(r) ==
  /\ read[r].stage = "open"
  /\ \E estimate \in Bytes : Add(r, estimate, read[r].prepaid + estimate)
  /\ LedgerUnchanged /\ UNCHANGED <<sampler, reached>>

\* charge(bytes): drawn from the prepaid pool; only the excess is added.
Charge(r) ==
  /\ read[r].stage = "open"
  /\ \E bytes \in Bytes :
       LET drawn == Smaller(read[r].prepaid, bytes)
           left == read[r].prepaid - drawn
       IN  \/ bytes > drawn /\ Add(r, bytes - drawn, left)
           \/ bytes = drawn /\ read' = [read EXCEPT ![r].prepaid = left]
  /\ LedgerUnchanged /\ UNCHANGED <<sampler, reached>>

\* add(): the total is read; what does not fit is refused with nothing booked.
Load(r) ==
  /\ read[r].stage = "load"
  /\ \/ /\ inFlight + read[r].bytes > Capacity
        /\ read' = [read EXCEPT ![r] = [Closed EXCEPT !.stage = "refused", !.held = read[r].held]]
     \/ /\ inFlight + read[r].bytes <= Capacity
        /\ read' = [read EXCEPT ![r].stage = "swap", ![r].seen = inFlight]
  /\ LedgerUnchanged /\ UNCHANGED <<sampler, reached>>

\* The total r books once its compareAndSet succeeds.
Total(r) == read[r].seen + read[r].bytes

\* compareAndSet: the bytes are held, or the total has moved and is read again.
Swap(r) ==
  /\ read[r].stage = "swap"
  /\ \/ /\ inFlight = read[r].seen
        /\ inFlight' = Total(r)
        /\ read' = [read EXCEPT ![r].stage = "since", ![r].held = @ + read[r].bytes]
        /\ reached' = Bigger(reached, Total(r))
     \/ /\ inFlight # read[r].seen
        /\ read' = [read EXCEPT ![r].stage = "load", ![r].seen = 0]
        /\ UNCHANGED <<inFlight, reached>>
  /\ UNCHANGED <<intervalPeak, sinceSnapshot, sampler>>

NoteSince(r) ==
  /\ read[r].stage = "since"
  /\ sinceSnapshot' = Bigger(sinceSnapshot, Total(r))
  /\ read' = [read EXCEPT ![r].stage = "interval"]
  /\ UNCHANGED <<inFlight, intervalPeak, sampler, reached>>

\* add() returns, and the caller settles its prepaid pool.
NoteInterval(r) ==
  /\ read[r].stage = "interval"
  /\ intervalPeak' = Bigger(intervalPeak, Total(r))
  /\ read' = [read EXCEPT ![r] = [Closed EXCEPT !.stage = "open", !.held = read[r].held,
                                                !.prepaid = read[r].after]]
  /\ UNCHANGED <<inFlight, sinceSnapshot, sampler, reached>>

\* A request closes its reservation when it is done, and when it was refused.
Close(r) ==
  /\ read[r].stage \in {"open", "refused"}
  /\ inFlight' = inFlight - read[r].held
  /\ read' = [read EXCEPT ![r] = Closed]
  /\ UNCHANGED <<intervalPeak, sinceSnapshot, sampler, reached>>

-----------------------------------------------------------------------------
(* The sampler: one coroutine, so its calls do not overlap *)

\* snapshot(): a reading begins with the total held now ...
SnapshotHeld ==
  /\ sampler.stage = "idle"
  /\ sampler' = [sampler EXCEPT !.stage = "since", !.held = inFlight]
  /\ LedgerUnchanged /\ UNCHANGED <<read, reached>>

\* ... which starts the accumulator of the next interval ...
SnapshotSince ==
  /\ sampler.stage = "since"
  /\ sinceSnapshot' = sampler.held
  /\ sampler' = [sampler EXCEPT !.stage = "peak"]
  /\ UNCHANGED <<inFlight, intervalPeak, read, reached>>

\* ... and ends with the peak it reports.
SnapshotPeak ==
  /\ sampler.stage = "peak"
  /\ sampler' = [sampler EXCEPT !.stage = "taken", !.held = 0,
                                     !.figure = Bigger(sampler.held, intervalPeak)]
  /\ reached' = 0
  /\ LedgerUnchanged /\ UNCHANGED read

\* The write of the sample fails: the interval goes on.
NotStored ==
  /\ sampler.stage = "taken"
  /\ sampler' = [sampler EXCEPT !.stage = "idle"]
  /\ LedgerUnchanged /\ UNCHANGED <<read, reached>>

\* The sample is stored: commit() calls endInterval().
Stored ==
  /\ sampler.stage = "taken"
  /\ sampler' = [sampler EXCEPT !.stage = "endRead"]
  /\ LedgerUnchanged /\ UNCHANGED <<read, reached>>

EndRead ==
  /\ sampler.stage = "endRead"
  /\ sampler' = [sampler EXCEPT !.stage = "endHeld", !.since = sinceSnapshot]
  /\ LedgerUnchanged /\ UNCHANGED <<read, reached>>

EndHeld ==
  /\ sampler.stage = "endHeld"
  /\ sampler' = [sampler EXCEPT !.stage = "endSet", !.held = inFlight]
  /\ LedgerUnchanged /\ UNCHANGED <<read, reached>>

EndSet ==
  /\ sampler.stage = "endSet"
  /\ intervalPeak' = Bigger(sampler.since, sampler.held)
  /\ sampler' = [sampler EXCEPT !.stage = "endCheck"]
  /\ UNCHANGED <<inFlight, sinceSnapshot, read, reached>>

\* The loop's locals are dead once its body is over.
Resume(stage) == sampler' = [sampler EXCEPT !.stage = stage, !.held = 0, !.since = 0]

\* Mutant: the loop body runs once.
EndOnce ==
  /\ sampler.stage = "endCheck"
  /\ Resume("idle")
  /\ LedgerUnchanged /\ UNCHANGED <<read, reached>>

\* A reservation that landed meanwhile has moved the accumulator: compute again.
EndCheck ==
  /\ sampler.stage = "endCheck"
  /\ Resume(IF sinceSnapshot = sampler.since THEN "idle" ELSE "endRead")
  /\ LedgerUnchanged /\ UNCHANGED <<read, reached>>

EndInterval == EndRead \/ EndHeld \/ EndSet \/ EndCheck

LedgerNext ==
  \/ \E r \in Reads : \/ Open(r) \/ Reserve(r) \/ Charge(r) \/ Load(r) \/ Swap(r)
                      \/ NoteSince(r) \/ NoteInterval(r) \/ Close(r)
  \/ SnapshotHeld \/ SnapshotSince \/ SnapshotPeak
  \/ NotStored \/ Stored
  \/ EndInterval

LedgerSpec == LedgerInit /\ [][LedgerNext]_ledgerVars

\* The sampler's coroutine, once in endInterval(), keeps running it: the body
\* never suspends.
LedgerFairSpec == LedgerSpec /\ WF_ledgerVars(EndInterval)

-----------------------------------------------------------------------------
(* Properties *)

\* The ledger accounts for exactly what the open reservations hold, however
\* their compare-and-sets and closes interleave: no room leaks, none is
\* booked twice (ReadLedger.kt:149-171, 173-179).
AccountsForReservations == inFlight = TotalHeld

\* Nobody is between its compare-and-set and the end of add(), nor in endInterval().
Quiet ==
  /\ sampler.stage \in {"idle", "taken"}
  /\ \A r \in Reads : read[r].stage \notin {"since", "interval"}

\* A total reached after the sampler's reading, however small, is in the peak
\* of the next interval, whether or not endInterval() runs meanwhile
\* (ReadLedger.kt:82-94).
BurstsReachTheNextInterval == Quiet => intervalPeak >= reached

\* The budget of whole-workspace reads is what the open reservations hold, however
\* their compare-and-sets and closes interleave (ReadLedger.add, close), and a total
\* reached after the sampler's reading is in the peak of the next interval, for all
\* that the two variables it is noted in are reset meanwhile (snapshot, endInterval).
LedgerKeepsCount == AccountsForReservations /\ BurstsReachTheNextInterval

\* endInterval() recomputes only as often as new totals appear: it ends,
\* however busy the ledger is (ReadLedger.kt:90-93).
EndIntervalEnds == []<>(sampler.stage \notin {"endRead", "endHeld", "endSet", "endCheck"})
=============================================================================
