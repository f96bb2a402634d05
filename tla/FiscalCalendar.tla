--------------------------- MODULE FiscalCalendar ---------------------------
(***************************************************************************)
(* Company settings, the arithmetic of fiscal years and the generation of   *)
(* accounting periods: CompanyService, fiscal-year.ts and                   *)
(* PeriodsService.generatePeriods.  A month is a number: twelve times its   *)
(* calendar year, plus 0 for January to 11 for December.                    *)
(***************************************************************************)
EXTENDS Requests

CONSTANTS
  StartMonths,   \* the first months an administrator may choose, 1 to 12
  FiscalYears,   \* the fiscal years that may be generated
  Now            \* the month in which instances boot

ASSUME CalendarAssumption ==
  StartMonths \subseteq 1 .. 12 /\ FiscalYears \subseteq Nat \ {0} /\ Now \in Nat

VARIABLES
  settings,   \* company_settings.fiscal_year_start_month; 0 before the row exists
  periods,    \* accounting_periods, each with the start month it was laid out for
  fy,         \* the fiscal year a request generates
  start       \* the start month it has read

calendarVars == <<settings, periods, fy, start>>

CalendarInit ==
  /\ settings = 0
  /\ periods = {}
  /\ fy = [r \in Req |-> 0]
  /\ start = [r \in Req |-> 0]

\* Mutant of FiscalYearForDate: the start month still belongs to the year before.
FiscalYearOffByOne(month, s) ==
  IF (month % 12) + 1 > s THEN month \div 12 ELSE (month \div 12) - 1

\* fiscalYearForDate
FiscalYearForDate(month, s) ==
  IF (month % 12) + 1 >= s THEN month \div 12 ELSE (month \div 12) - 1

\* fiscalYearStartDate and fiscalYearEndDate
FiscalYearStart(y, s) == 12 * y + (s - 1)
FiscalYearEnd(y, s) == IF s = 1 THEN 12 * y + 11 ELSE 12 * (y + 1) + (s - 2)

\* The twelve rows of a year, in sequence.
PeriodRows(y, s) ==
  {[fiscalYear |-> y, sequence |-> i + 1, startMonth |-> s,
    month |-> 12 * (y + ((s - 1 + i) \div 12)) + ((s - 1 + i) % 12)] : i \in 0 .. 11}

PeriodsOf(y) == {p \in periods : p.fiscalYear = y}

-----------------------------------------------------------------------------
(* Settings. *)

\* seedIfEmpty: read, then insert; the singleton index refuses a second row.
FindCompany(r, next) ==
  /\ pc[r] = "findCompany"
  /\ Continues(r, IF settings = 0 THEN "createCompany" ELSE next)
  /\ UNCHANGED calendarVars

CreateCompany(r, next) ==
  /\ pc[r] = "createCompany"
  /\ settings' = IF settings = 0 THEN 1 ELSE settings
  /\ Continues(r, next)
  /\ UNCHANGED <<periods, fy, start>>

\* update: the start month may be changed at any time.
UpdateCompany(r) ==
  \E s \in StartMonths :
    /\ settings # 0
    /\ Starts(r, "updateCompany", "done")
    /\ settings' = s
    /\ UNCHANGED <<periods, fy, start>>

-----------------------------------------------------------------------------
(* Periods. *)

\* The endpoint that generates a year.
BeginGenerate(r) ==
  \E y \in FiscalYears :
    /\ settings # 0
    /\ Starts(r, "generate", "listPeriods")
    /\ fy' = [fy EXCEPT ![r] = y]
    /\ UNCHANGED <<settings, periods, start>>

\* onModuleInit generates the year of the current date.
CurrentYear(r) ==
  /\ pc[r] = "currentYear"
  /\ fy' = [fy EXCEPT ![r] = FiscalYearForDate(Now, settings)]
  /\ Continues(r, "listPeriods")
  /\ UNCHANGED <<settings, periods, start>>

\* generatePeriods: nothing to do when the year is complete ...
ListPeriods(r) ==
  /\ pc[r] = "listPeriods"
  /\ Continues(r, IF Cardinality(PeriodsOf(fy[r])) = 12 THEN "done" ELSE "readStart")
  /\ UNCHANGED calendarVars

\* ... otherwise the start month is read ...
ReadStart(r) ==
  /\ pc[r] = "readStart"
  /\ start' = [start EXCEPT ![r] = settings]
  /\ Continues(r, "createPeriods")
  /\ UNCHANGED <<settings, periods, fy>>

\* ... and one statement inserts the twelve rows, skipping those whose fiscal
\* year and sequence exist by then.
CreatePeriods(r) ==
  /\ pc[r] = "createPeriods"
  /\ periods' = periods \cup
       {p \in PeriodRows(fy[r], start[r]) :
          \A q \in PeriodsOf(fy[r]) : q.sequence # p.sequence}
  /\ Continues(r, "done")
  /\ UNCHANGED <<settings, fy, start>>

BeginCalendar(r) == UpdateCompany(r) \/ BeginGenerate(r)
CalendarStep(r) == CurrentYear(r) \/ ListPeriods(r) \/ ReadStart(r) \/ CreatePeriods(r)

-----------------------------------------------------------------------------
(* Properties. *)

\* generatePeriods is "idempotent": a fiscal year has no period or twelve, in the
\* order of the months, however many requests generate it while the start month
\* is being changed.
YearsAreWhole ==
  \A y \in {p.fiscalYear : p \in periods} :
    /\ Cardinality(PeriodsOf(y)) = 12
    /\ \A p, q \in PeriodsOf(y) : q.month - p.month = q.sequence - p.sequence

\* generatePeriods, fiscalYearForDate and fiscalYearBounds: years are whole, and
\* while every one was laid out for the configured start month, the three readings
\* of the calendar agree: a month of a year's bounds is in exactly one period, and
\* the year it is numbered in is the fiscal year of that period.
CalendarAgrees ==
  /\ YearsAreWhole
  /\ (\A p \in periods : p.startMonth = settings) =>
       \A y \in {p.fiscalYear : p \in periods} :
         \A month \in FiscalYearStart(y, settings) .. FiscalYearEnd(y, settings) :
           /\ Cardinality({p \in periods : p.month = month}) = 1
           /\ \A p \in periods : p.month = month => p.fiscalYear = y
           /\ FiscalYearForDate(month, settings) = y
=============================================================================
