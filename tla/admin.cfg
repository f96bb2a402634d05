CONSTANTS
  r1 = r1
  r2 = r2
  r3 = r3
  r4 = r4
  ann = ann
  ben = ben
  t0 = t0
  e1 = e1
  e2 = e2
  e3 = e3
  Null = Null
  Req = {r1, r2, r3, r4}
  Seeded = {ann, ben}
  Emails = {e1, e2, e3}
  EmailOf <- MCEmailOf
  Changes <- MCChanges
  Issued <- MCIssued
  Inputs <- MCInputs
  Editable = {"1-1200", "2-1100", "P1"}
  StartMonths = {4, 12}
  FiscalYears = {2026, 2027}
  Now = 24312
  Scenes <- MCScenes
SPECIFICATION OfficeSpec
INVARIANTS TypeOK AdminRemains OneActivePerFamily SeededWhole KeysUnique ReferencesFit CalendarAgrees
PROPERTIES DeletedIsFinal TokensOnlyAge
