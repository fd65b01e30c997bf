SPECIFICATION Spec
CONSTANTS
  u1 = u1  s1 = s1  l1 = l1   v1 = v1  v2 = v2  j1 = j1  j2 = j2
  Users = {u1}
  Slugs = {s1}
  LinkIds = {l1}
  Fields = {"maxClicksPerLink", "maxTotalClicks"}
  Limits = {}
  Plan <- OneClick
  Null = Null
  Visits = {v1}
  Jobs = {j1, j2}
  Attempts = 3
  MaxStalls = 1
  MaxErrors = 0
  MaxCrashes = 0
INVARIANT ClickQuotaRespected
