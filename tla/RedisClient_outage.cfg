SPECIFICATION ClientSpec
CONSTANTS
  v1 = v1  v2 = v2  ip1 = ip1   s1 = s1
  Visitors = {v1, v2}
  IpOf <- SameIp
  SlugOf <- SameSlug
  Limit <- TightLimits
  Ttl <- ShortTtls
  MaxCount = 4
  MaxCrashes = 1
  MaxDrops = 1
  MaxRetries = 2
  MaxBreaks = 1
INVARIANT ClientTypeOK
PROPERTIES CallersAnswered OutagesDoNotAddUp WindowsCloseUnlessFaults
