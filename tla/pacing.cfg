\* Three calls on one campaign, a day of two hours and the first hour of the next.
\* Calls are interchangeable: no property names one, and none is temporal beyond a step.
SPECIFICATION Spec
CONSTANTS
  Calls = {c1, c2, c3}
  Campaigns = {k1}
  Shards = {s1}
  ShardOf <- MCShardOf
  Recalcs <- MCRecalcs
  Amounts = {0, 2}
  Observations <- MCObservations
  Base <- MCBase
  LastDay = 0
  LastHour = 1
  MaxClock = 2
  NoCall = NoCall
INVARIANTS
  UpdatesApplied
  AnswersJustified
  PlanSpendsTheBudget
  LearningConverges
  LocksGivenBack
PROPERTIES
  FactorRisesInTheDay
SYMMETRY CallSymmetry
