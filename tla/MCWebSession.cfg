CONSTANTS
    Tabs <- MCTabs
    Requests <- MCRequests
    TabOf <- MCTabOf
    Families <- MCFamilies
    AccountOf <- MCAccountOf
    MaxClears = 1
    Flows <- MCFlows
    q1 = q1
    q2 = q2
    s1 = s1
    s2 = s2
    None = None
SPECIFICATION Spec
INVARIANTS SessionsDoNotMix
PROPERTIES LateAnswersInstallNothing EndsTheOwnSession
CHECK_DEADLOCK FALSE
SYMMETRY Symmetric
