SPECIFICATION Spec
CONSTANTS
  v1 = v1  v2 = v2  ip1 = ip1   s1 = s1
  Visitors = {v1, v2}
  IpOf <- SameIp
  SlugOf <- SameSlug
  Limit <- Limits
  Ttl <- Ttls
  MaxCount = 3
  MaxCrashes = 1
  MaxDrops = 1
SYMMETRY Symmetry
INVARIANTS TypeOK SlidingBound StuckOnlyByFaults
PROPERTIES ExpiryNotReset IsFixedWindow
