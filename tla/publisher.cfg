\* Transactions, settlements and reviews on one publisher, amounts finer than a unit.
SPECIFICATION FairSpec
CONSTANTS
  Publishers = {p1}
  Reviewers = {r1, r2}
  Null = Null
  Calls = {c1, c2, c3}
  Amounts <- MCAmounts
  MaxOpenConns = 2
  Grid = 2
INVARIANTS
  TypeOK
  RevenueConserved
  NeverOverwithdrawn
  WithdrawnIsRequested
  NoLostUpdate
  WithdrawOutcomeIsTruth
  ApprovedOnce
PROPERTIES
  PubLedgerSpec
  PublisherCallsReturn
