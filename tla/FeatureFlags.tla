----------------------------- MODULE FeatureFlags -----------------------------
(***************************************************************************)
(* The feature flags page: one switch per account, and a bulk change that  *)
(* reads every row behind the filters, asks, writes row after row and      *)
(* offers the rows that failed again.  Every write replaces the account's  *)
(* whole set of disabled features, computed from the row as it was read.   *)
(***************************************************************************)
EXTENDS Naturals, FiniteSets

CONSTANTS Users, Features, Nothing,
          SwitchWrites  \* bound: writes of switches under way at once

VARIABLES flags,     \* per account, the features the server has disabled
          rows,      \* the same, as the page last read them
          feature,   \* the feature selected
          wanted,    \* the state filter: "any", "enabled" or "disabled"
          switch,    \* the row whose switch is disabled, and the writes of switches under way
          preparing, \* the bulk change whose rows are being read
          pending,   \* the rows that await the confirmation
          failed,    \* the rows of the last run that failed
          run,       \* the run under way
          agreed     \* what the last confirmed dialog said: feature, target, accounts

flagVars == <<flags, rows, feature, wanted, switch, preparing, pending, failed, run, agreed>>

Matching(table, f, w) ==
  [u \in {v \in DOMAIN table : w = "any" \/ (w = "disabled") = (f \in table[v])} |-> table[u]]

FlagInit ==
  /\ flags \in [Users -> SUBSET Features]
  /\ feature \in Features
  /\ wanted = "any"
  /\ rows = flags
  /\ switch = [row |-> Nothing, writes |-> [n \in SwitchWrites |-> Nothing]]
  /\ preparing = Nothing /\ pending = Nothing /\ failed = Nothing
  /\ run = Nothing /\ agreed = Nothing

Modal == pending # Nothing

\* The selects stay usable while rows are read, a run is under way or failures are shown.
Select ==
  /\ ~Modal
  /\ \E f \in Features, w \in {"any", "disabled"} :
       <<f, w>> # <<feature, wanted>> /\ feature' = f /\ wanted' = w
  /\ UNCHANGED <<flags, rows, switch, preparing, pending, failed, run, agreed>>

Reread ==
  /\ rows # Matching(flags, feature, wanted)
  /\ rows' = Matching(flags, feature, wanted)
  /\ UNCHANGED <<flags, feature, wanted, switch, preparing, pending, failed, run, agreed>>

\* The set to write for one row: the feature taken out, or put in.
Replaced(disabled, f, enable) == IF enable THEN disabled \ {f} ELSE disabled \cup {f}

\* The page remembers one row as pending: a switch toggled meanwhile takes its place, and
\* the end of any write clears it.
Toggle ==
  /\ ~Modal
  /\ \E u \in DOMAIN rows \ {switch.row}, n \in SwitchWrites :
       /\ switch.writes[n] = Nothing
       /\ switch' = [row |-> u,
                     writes |-> [switch.writes EXCEPT ![n] = [user |-> u, next |-> Replaced(rows[u], feature, feature \in rows[u])]]]
  /\ UNCHANGED <<flags, rows, feature, wanted, preparing, pending, failed, run, agreed>>

\* The write arrives or fails, or only its answer is lost; the rows are read again after one
\* that is known to have saved.
Toggled ==
  /\ \E n \in SwitchWrites, arrives \in BOOLEAN, answered \in BOOLEAN :
       LET write == switch.writes[n] IN
       /\ write # Nothing
       /\ switch' = [row |-> Nothing, writes |-> [switch.writes EXCEPT ![n] = Nothing]]
       /\ flags' = IF arrives THEN [flags EXCEPT ![write.user] = write.next] ELSE flags
       /\ rows' = IF arrives /\ answered THEN Matching(flags', feature, wanted) ELSE rows
  /\ UNCHANGED <<feature, wanted, preparing, pending, failed, run, agreed>>

isAffected(disabled, f, enable) == (f \in disabled) = enable

\* The read, and the choice of rows, are those of the filters at the click.
Prepare ==
  /\ ~Modal /\ preparing = Nothing /\ DOMAIN rows # {}
  /\ \E enable \in BOOLEAN : preparing' = [target |-> enable, feature |-> feature, wanted |-> wanted]
  /\ failed' = Nothing
  /\ UNCHANGED <<flags, rows, feature, wanted, switch, pending, run, agreed>>

Prepared ==
  /\ preparing # Nothing /\ preparing' = Nothing
  /\ LET all == Matching(flags, preparing.feature, preparing.wanted)
         affected == {u \in DOMAIN all : isAffected(all[u], preparing.feature, preparing.target)} IN
     pending' \in {pending} \cup
       (IF affected = {} THEN {} ELSE {[target |-> preparing.target, rows |-> [u \in affected |-> all[u]]]})
  /\ UNCHANGED <<flags, rows, feature, wanted, switch, failed, run, agreed>>

applyRows(target, table, f) ==
  [target |-> target, rows |-> table, feature |-> f, left |-> DOMAIN table, stored |-> {}, lost |-> {}]

\* The button of the dialog is loading while a run is under way.
Confirm ==
  /\ Modal /\ run = Nothing /\ pending' = Nothing
  /\ agreed' = [feature |-> feature, target |-> pending.target, users |-> DOMAIN pending.rows]
  /\ run' = applyRows(pending.target, pending.rows, feature)
  /\ UNCHANGED <<flags, rows, feature, wanted, switch, preparing, failed>>

Cancel ==
  /\ Modal /\ run = Nothing /\ pending' = Nothing
  /\ UNCHANGED <<flags, rows, feature, wanted, switch, preparing, failed, run, agreed>>

\* The rows that failed, with the feature selected now.
Retry ==
  /\ ~Modal /\ failed # Nothing /\ run = Nothing
  /\ run' = applyRows(failed.target, failed.rows, feature)
  /\ UNCHANGED <<flags, rows, feature, wanted, switch, preparing, pending, failed, agreed>>

\* One row: stored and answered, refused, or stored with the answer lost.
ApplyOne ==
  /\ run # Nothing
  /\ \E u \in run.left, arrives \in BOOLEAN, answered \in BOOLEAN :
       /\ flags' = IF arrives THEN [flags EXCEPT ![u] = Replaced(run.rows[u], run.feature, run.target)] ELSE flags
       /\ run' = [run EXCEPT !.left = @ \ {u},
                             !.stored = IF arrives THEN @ \cup {u} ELSE @,
                             !.lost = IF arrives /\ answered THEN @ ELSE @ \cup {u}]
  /\ UNCHANGED <<rows, feature, wanted, switch, preparing, pending, failed, agreed>>

Finish ==
  /\ run # Nothing /\ run.left = {} /\ run' = Nothing
  /\ failed' = IF run.lost = {} THEN Nothing ELSE [target |-> run.target, rows |-> [u \in run.lost |-> run.rows[u]]]
  /\ rows' = Matching(flags, feature, wanted)
  /\ UNCHANGED <<flags, feature, wanted, switch, preparing, pending, agreed>>

FlagNext ==
  \/ Select \/ Reread \/ Toggle \/ Toggled \/ Prepare \/ Prepared \/ Confirm \/ Cancel
  \/ Retry \/ ApplyOne \/ Finish

FlagSpec == FlagInit /\ [][FlagNext]_flagVars

-----------------------------------------------------------------------------
\* A run ends with every row it was given stored, or named in what can be retried; and a
\* run is never replaced by another while rows of it are left.  Its accounts and its target were
\* confirmed (useBulkFeatureUpdate).
RunsAreWhole ==
  /\ run = Nothing /\ run' # Nothing => DOMAIN run'.rows \subseteq agreed'.users /\ run'.target = agreed'.target
  /\ run # Nothing /\ run' # run => run' = Nothing \/ run'.rows = run.rows
  /\ run # Nothing /\ run' = Nothing =>
       \A u \in DOMAIN run.rows : u \in run.stored \/ (failed' # Nothing /\ u \in DOMAIN failed'.rows)
=============================================================================
