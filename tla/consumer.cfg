\* Two members, every fault: what is credited, charged and passed over.
SPECIFICATION FairSpec
CONSTANTS
  Instances = {i1, i2}
  None = None
  Grid = 2
  Rate <- DefaultRate
  Faults = {"stores", "rebalance", "evict", "crash"}
  Prices <- MCPrices
  MaxEvents = 2
  MaxSessions = 2
INVARIANTS
  CreditsFollowCharges
  NothingSkipped
PROPERTIES
  EventsConsumed
  ImplementsFeed
