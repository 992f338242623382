\* The balance is spent once in Redis and once more in PostgreSQL.
SPECIFICATION Spec
CONSTANTS
  Advertisers = {a1}
  NoKey = NoKey
  Grid = 1
  Calls = {c1, c2, c3}
  Amounts = {1}
  Ops = {"recharge", "spend"}
  Deployments = {TRUE}
  Faults = {}
  MaxTries = 1
INVARIANT
  NeverOvercharged
