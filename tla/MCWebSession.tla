---------------------------- MODULE MCWebSession ----------------------------
(* Two tabs: one makes two calls, which may share a refresh, while either signs in and out. *)
EXTENDS WebSession, TLC
CONSTANTS q1, q2, s1, s2
MCTabs == {"left", "right"}
MCRequests == {q1, q2}
MCTabOf == [r \in MCRequests |-> "left"]
MCFamilies == {s1, s2}
MCAccountOf == [f \in MCFamilies |-> "ann"]
MCFlows == [t \in MCTabs |-> IF t = "left" THEN {"logout", "password", "exchange"} ELSE {"login"}]
Symmetric == Permutations(MCRequests) \cup Permutations(MCFamilies)
=============================================================================
