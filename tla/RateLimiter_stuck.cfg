SPECIFICATION Spec
CONSTANTS
  v1 = v1  v2 = v2  ip1 = ip1   s1 = s1
  Visitors = {v1, v2}
  IpOf <- SameIp
  SlugOf <- SameSlug
  Limit <- TightLimits
  Ttl <- Ttls
  MaxCount = 2
  MaxCrashes = 1
  MaxDrops = 0
INVARIANT CounterGetsTtl
