CONSTANTS
  r1 = r1
  r2 = r2
  r3 = r3
  r4 = r4
  alice = alice
  bob = bob
  Null = Null
  Req = {r1, r2, r3, r4}
  Users = {alice, bob}
  Years <- MCYears
  Periods <- MCPeriods
  YearOf <- MCYearOf
  LastPeriod <- MCLastPeriod
  Accounts <- MCAccounts
  Headers <- MCHeaders
  Edited = {"1-1000"}
  ProfitLoss <- MCProfitLoss
  Equity = "3-9000"
  Retained = "3-2000"
  UserOf <- MCUserOf
  SegregationOfDutiesEnabled = FALSE
  Templates <- CloseTemplates
  Plan <- ClosePlan
SPECIFICATION FairSpec
INVARIANTS NoWaitCycle ClosingEntryStands
PROPERTIES PostsIntoOpenPeriods LockedYearStaysLocked ImplementsBooks EveryRequestEnds
