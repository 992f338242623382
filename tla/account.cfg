\* Three concurrent transactions on one row, amounts finer than a unit.
SPECIFICATION FairSpec
CONSTANTS
  Advertisers = {a1}
  Calls = {c1, c2, c3}
  NoCall = NoCall
  Amounts <- MCAmounts
  Grid = 2
INVARIANTS
  TypeOK
  NeverOverdrawn
  Conservation
  JournalChain
  OutcomeIsTruth
  NoLostUpdate
PROPERTIES
  LedgerSpec
  CallsReturn
