\* A session that ends marks events it did not bill.
SPECIFICATION Spec
CONSTANTS
  Instances = {i1, i2}
  None = None
  Grid = 2
  Rate <- DefaultRate
  Faults = {"rebalance"}
  Prices = {4}
  MaxEvents = 2
  MaxSessions = 2
INVARIANT
  GracefulExit
