-------------------------- MODULE MCAdministrators --------------------------
(***************************************************************************)
(* Small instances for TLC of two parts of the server that interleave      *)
(* freely within themselves: a behaviour is one of Administrators, whose   *)
(* transactions lock rows one by one, or one of ReadLedger, whose          *)
(* reservations and sampler share atomics; the other part rests.           *)
(***************************************************************************)
EXTENDS Administrators, ReadLedger, TLC

VARIABLE part

mcVars == <<part, vars, ledgerVars>>

\* Reservations are interchangeable.
Symmetry == Permutations(Reads)

\* Accounts nobody writes.
Resting == users = [u \in Users |-> "admin"] /\ lock = [u \in Users |-> None] /\ requests = [r \in Requests |-> Idle]

MCInit ==
  \/ part = "administrators" /\ Init /\ LedgerInit
  \/ part = "ledger" /\ Resting /\ LedgerInit

MCNext ==
  \/ part = "administrators" /\ Next /\ UNCHANGED <<part, ledgerVars>>
  \/ part = "ledger" /\ LedgerNext /\ UNCHANGED <<part, vars>>

\* The fairness of either part; nothing of a resting one is enabled.
MCSpec ==
  /\ MCInit /\ [][MCNext]_mcVars
  /\ \A r \in Requests : SF_vars(Runs(r))
  /\ WF_ledgerVars(EndInterval)

-----------------------------------------------------------------------------
(* Properties *)

\* Every transaction on an account is answered, and endInterval() ends, however busy the
\* rows and the ledger are (UserService; ReadLedger.endInterval).
NothingWaitsForEver == EveryRequestEnds /\ EndIntervalEnds
=============================================================================
