CONSTANTS
  i1 = i1
  i2 = i2
  p1 = p1
  p2 = p2
  r1 = r1
  r2 = r2
  r3 = r3
  r4 = r4
  alice = alice
  Null = Null
  Req = {i1, p1, r1, r2, r3, r4}
  Users = {alice}
  Years = {2026}
  Periods = {"2026-01"}
  YearOf <- MCYearOf
  Accounts <- MCAccounts
  Headers = {}
  ProfitLoss = {"offset"}
  Equity = "equity"
  UserOf <- MCUserOf
  SegregationOfDutiesEnabled = FALSE
  Templates = {}
  Nature = "PURCHASE"
  Control = "control"
  Offset = "offset"
  Cash = "cash"
  LineLists <- MCLineLists
  TaxCodes <- MCTaxCodes
  Rates = {12}
  AllocLists <- MCAllocLists
  History <- OnePosted
  HistoryAmount = 2
  Drafted <- OneDraft
  Plan <- DraftPlan
SPECIFICATION DSpec
PROPERTY PostedDocumentsImmutable
