SPECIFICATION Spec
CONSTANTS
  u1 = u1  u2 = u2  s1 = s1  s2 = s2  s3 = s3  l1 = l1  l2 = l2  l3 = l3  r1 = r1  r2 = r2
  Users = {u1}
  Slugs = {s1, s2}
  LinkIds = {l1, l2}
  Requests = {r1, r2}
  Fields = {"maxLinks"}
  Limits = {0}
  Plan <- OneLink
  MaxAttempts = 1
  Null = Null
INVARIANT QuotaRespected
