\* Two recharges write the cache in the opposite order of their commits.
SPECIFICATION Spec
CONSTANTS
  Advertisers = {a1}
  NoKey = NoKey
  Grid = 1
  Calls = {c1, c2}
  Amounts = {1}
  Ops = {"recharge", "spend"}
  Deployments = {TRUE}
  Faults = {}
  MaxTries = 1
INVARIANT
  RechargeSyncsCache
