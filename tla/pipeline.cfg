\* Two members, every fault, both stores: journals and money across the service.
SPECIFICATION PipelineSpec
CONSTANTS
  Instances = {i1, i2}
  None = None
  Advertiser = Advertiser
  Publisher = Publisher
  Grid = 2
  Rate <- MCRate
  Faults = {"stores", "rebalance", "evict", "crash"}
  Prices <- MCPrices
  Recharges <- MCRecharges
  CacheFaults = {"redis", "reply", "flush"}
  MaxTries = 2
  NoKey = NoKey
  MaxEvents = 2
  MaxSessions = 2
SYMMETRY MembersSymmetric
INVARIANTS
  JournalsReconcile
  PayoutsCovered
