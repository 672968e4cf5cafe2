SPECIFICATION MCSpec
CONSTANTS
  Users = {u1}
  Sids = {s1}
  Claims = {c1}
  Grants = {g1, g2}
  Requests = {r1, r2}
  Passwords = {p1, p2}
  NoPassword = NoPassword
  Sso = Sso
  Possession = Possession
  Identities = {i1, i2}
  None = None
  MaxVersion = 2
  MaxTime = 1
  Lifetime = 1
SYMMETRY Symmetry
CHECK_DEADLOCK FALSE
INVARIANTS
  SessionsMatchTheirAccount
  IdTokenHandedOutOnce
  GrantsReachTheirOwner
PROPERTIES
  EndedSessionsStayEnded
  ChangesProveThePassword
  ChangesEndEverything
