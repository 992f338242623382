\* A spend charged to Redis never reaches the journal.
SPECIFICATION FairSpec
CONSTANTS
  Advertisers = {a1}
  NoKey = NoKey
  Grid = 1
  Calls = {c1, c2}
  Amounts = {1}
  Ops = {"recharge", "spend"}
  Deployments = {TRUE}
  Faults = {}
  MaxTries = 1
PROPERTY
  SpendRecorded
