\* Both stores and every fault, with the service built with Redis or without.
SPECIFICATION Spec
CONSTANTS
  Advertisers = {a1}
  NoKey = NoKey
  Grid = 1
  Calls = {c1, c2, c3}
  Amounts <- MCAmounts
  Ops = {"recharge", "spend", "correct"}
  Deployments = {TRUE, FALSE}
  Faults = {"pg", "redis", "reply", "flush", "crash"}
  MaxTries = 2
SYMMETRY CallSymmetry
INVARIANTS
  CacheBacked
  CacheAccounted
  ChargedOnce
  SafeWithoutRedis
