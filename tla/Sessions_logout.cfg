SPECIFICATION Spec
CONSTANTS
  u1 = u1  r1 = r1  r2 = r2
  Users = {u1}
  Requests = {r1, r2}
  Lifetime = 1
  MaxClock = 1
  MaxIssues = 2
PROPERTY LoggedOutStaysOut
