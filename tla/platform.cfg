\* Every rate up to one on prices to fifteen units; settlements of four keys, some repeated.
SPECIFICATION Spec
CONSTANTS
  Grid = 4
  MaxGross = 60
  MaxDen = 12
  MaxUpserts = 3
  Null = Null
  Missing = Missing
  Keys <- MCKeys
  Figures = {5, 8}
  Rates <- MCRates
INVARIANTS
  SplitIsExact
  SummaryIsCurrent
PROPERTY
  RepeatsHarmless
CHECK_DEADLOCK FALSE
