--------------------------- MODULE MCAuthSessions ---------------------------
(***************************************************************************)
(* A small instance of AuthSessions for TLC.  A behaviour changes its      *)
(* account twice within the lifetime of everything, with sign-ins in two   *)
(* steps, or once with mailed grants and a clock that expires them.        *)
(***************************************************************************)
EXTENDS AuthSessions, TLC

VARIABLE mailed

\* Requests, session ids and passwords are interchangeable; identities are not,
\* one of them stands in every empty row.
Symmetry == Permutations(Requests) \cup Permutations(Sids) \cup Permutations(Passwords)

MCInit == Init /\ mailed \in BOOLEAN

Bounded ==
  /\ mailed' = mailed
  /\ mailed => claims' = claims /\ \A u \in Users : users'[u].version < MaxVersion
  /\ ~mailed => grants' = grants /\ now' = now /\ \A r \in Requests : requests'[r].at # "mail"

MCNext ==
  \/ \E r \in Requests : SignsIn(r) /\ Bounded
  \/ \E r \in Requests : Renews(r) /\ Bounded
  \/ \E r \in Requests : LogsOut(r) /\ Bounded
  \/ \E r \in Requests : ChangesPassword(r) /\ Bounded
  \/ AccountChanges /\ Bounded
  \/ Elapses /\ Bounded

MCSpec == MCInit /\ [][MCNext]_<<vars, mailed>>
=============================================================================
