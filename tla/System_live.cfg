SPECIFICATION FairSpec
CONSTANTS
  u1 = u1  s1 = s1  l1 = l1  l2 = l2  v1 = v1  j1 = j1  r1 = r1
  Users = {u1}
  Slugs = {s1}
  LinkIds = {l1, l2}
  Requests = {r1}
  Fields = {"maxLinks", "maxClicksPerLink", "maxTotalClicks"}
  Limits = {}
  Plan <- OneOfEach
  MaxAttempts = 1
  Null = Null
  Visits = {v1}
  Jobs = {j1}
  Attempts = 2
  MaxStalls = 1
  MaxErrors = 0
  MaxCrashes = 1
PROPERTIES ImplementsPipeline ImplementsLinkService DisabledForAReason
PROPERTIES EveryRequestReplies EveryVisitAnswered JobsSettle
