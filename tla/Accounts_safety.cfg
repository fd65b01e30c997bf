SPECIFICATION AccountsSpec
CONSTANTS
  u1 = u1  r1 = r1  r2 = r2  p1 = p1  p2 = p2  d1 = d1  d2 = d2
  Users = {u1}
  Requests = {r1, r2}
  Passwords = {p1, p2}
  Seeders = {d1, d2}
  NoAccount = NoAccount
  Lifetime = 1
  MaxClock = 2
  MaxIssues = 2
SYMMETRY Symmetry
INVARIANTS AccountsTypeOK SingleRedemption RowsOutliveTokens WelcomedCanLogIn NothingDangles OneDefaultPlan
