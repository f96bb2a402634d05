------------------------------- MODULE Reports ------------------------------
(***************************************************************************)
(* The financial reports over the general ledger.  What trial balance,      *)
(* balance sheet and income statement assert rests on one query: operators. *)
(* Cash flow and general ledger combine three queries that run outside any  *)
(* transaction while requests go on posting; each query is a step of its    *)
(* own, and the set of entries it could see is kept beside its result.      *)
(*                                                                          *)
(* Accounts are codes of the seeded chart; a range of dates runs from the   *)
(* first day of a period to the last day of another.                        *)
(***************************************************************************)
EXTENDS GeneralLedger, Chart

CONSTANTS
  PeriodNo,     \* PeriodNo[p]: the position of period p in time
  Readers,      \* the requests that may be a report instead
  Ranges,       \* the ranges <<from, to>> that dateRange lets through
  Listed,       \* the accounts a general ledger may be asked for
  GL_MAX_LINES  \* the most lines a general ledger lists

ASSUME ReportsAssumption ==
  /\ Accounts \subseteq {a.code : a \in CHART_OF_ACCOUNTS}
  /\ ProfitLoss = {a \in Accounts : SeedAccount(a).type \in {"REVENUE", "EXPENSE"}}
  /\ Headers = {a \in Accounts : ~SeedAccount(a).postable}
  /\ PeriodNo \in [Periods -> Nat]
  /\ \A p, q \in Periods : PeriodNo[p] = PeriodNo[q] => p = q
  /\ Readers \subseteq Req
  /\ Ranges \subseteq Periods \X Periods
  /\ \A g \in Ranges : PeriodNo[g[1]] <= PeriodNo[g[2]]
  /\ Listed \subseteq Accounts
  /\ GL_MAX_LINES \in Nat

VARIABLE rep    \* the report in progress: what its queries returned and saw

Row == [a \in Accounts |-> SeedAccount(a)]
With(field, value) == {a \in Accounts : Row[a][field] = value}

-----------------------------------------------------------------------------
(* BalancesService, and the statements that one query decides. *)

Dated(e) == PeriodNo[journal[e].date]
AsOf(p) == {e \in Posted : Dated(e) <= PeriodNo[p]}
Before(p) == {e \in Posted : Dated(e) < PeriodNo[p]}
Between(p, q) == {e \in Posted : PeriodNo[p] <= Dated(e) /\ Dated(e) <= PeriodNo[q]}

BalancesAsOf(p) == GroupedBalances(AsOf(p))

\* signedNet and naturalSide of debit minus credit v: they differ for a contra
\* account, whose normal balance is opposite its type.
SignedNet(a, v) == IF Row[a].normal = "DEBIT" THEN v ELSE -v
NaturalSide(a, v) == IF Row[a].type \in {"ASSET", "EXPENSE"} THEN v ELSE -v

\* A section of a statement: the natural side of each of its accounts.
Section(rows, S) == SumOver([a \in S |-> NaturalSide(a, rows[a])], S)

\* trialBalance: total debits minus total credits.
TrialBalance(p) == Total(BalancesAsOf(p), Accounts)

\* The first period of the fiscal year of p.
YearStart(p) ==
  CHOOSE q \in Periods :
    YearOf[q] = YearOf[p] /\ \A s \in Periods : YearOf[s] = YearOf[p] => PeriodNo[q] <= PeriodNo[s]

\* Earnings are credit minus debit over profit and loss.
Earnings(rows) == -Total(rows, ProfitLoss)
CurrentYearEarnings(p) == Earnings(GroupedBalances(Between(YearStart(p), p)))

\* Mutant of BalanceSheet: equity carries the earnings of the current year only.
CurrentEarningsOnly(p) ==
  LET rows == BalancesAsOf(p) IN
    [assets      |-> Section(rows, With("type", "ASSET")),
     liabilities |-> Section(rows, With("type", "LIABILITY")),
     equity      |-> Section(rows, With("type", "EQUITY")) + CurrentYearEarnings(p)]

\* BalanceSheetService.generate: equity carries all earnings that no closing
\* entry has moved, whatever year they are from.
BalanceSheet(p) ==
  LET rows == BalancesAsOf(p) IN
    [assets      |-> Section(rows, With("type", "ASSET")),
     liabilities |-> Section(rows, With("type", "LIABILITY")),
     equity      |-> Section(rows, With("type", "EQUITY")) + Earnings(rows)]

\* IncomeStatementService.generate: the account of income tax is taken out first
\* and the others go by their subtype.
NetIncome(p, q) ==
  LET rows == GroupedBalances(Between(p, q))
      Of(subtype) == Section(rows, (With("subtype", subtype) \cap ProfitLoss)
                                     \ With("role", "TAX_EXPENSE"))
      grossProfit == Of("REVENUE") - Of("COGS")
      operatingProfit == grossProfit - Of("OPERATING_EXPENSE")
      profitBeforeTax == operatingProfit + Of("OTHER_INCOME") - Of("OTHER_EXPENSE")
  IN profitBeforeTax - Section(rows, With("role", "TAX_EXPENSE") \cap ProfitLoss)

-----------------------------------------------------------------------------
(* The reports of several queries. *)

NoReport == [step |-> 0, kind |-> "none", from |-> Null, to |-> Null,
             account |-> Null, got |-> <<>>, saw |-> <<>>, truncated |-> FALSE]

RInit == Init /\ rep = NoReport

\* One more query of the report: its result, and the entries it ran over.
Got(value) ==
  rep' = [rep EXCEPT !.step = @ + 1, !.got = Append(@, value), !.saw = Append(@, Posted)]

\* A request turns out to be a report; it never enters the ledger's own steps.
StartReport(r) ==
  \E g \in Ranges, a \in Listed \cup {Null} :
    /\ pc[r] = "start" /\ r \in Readers
    /\ rep.kind = "none"
    /\ Goto(r, "done")
    /\ rep' = [NoReport EXCEPT !.step = 1, !.from = g[1], !.to = g[2], !.account = a,
                               !.kind = IF a = Null THEN "cashFlow" ELSE "generalLedger"]
    /\ UNCHANGED <<db, ctx, held>>

CashEffect(rows, S) == -Total(rows, S)
CashBalance(rows) == Total(rows, With("role", "CASH"))

\* CashFlowService.generate: net income, and every other account but cash in the
\* section of its category; a category that is not set goes to OPERATING.
Bucket(a) ==
  IF Row[a].category \in {"INVESTING", "FINANCING"} THEN Row[a].category ELSE "OPERATING"
NetChange(rows) ==
  LET other == Accounts \ (With("role", "CASH") \cup ProfitLoss)
      section(b) == CashEffect(rows, {a \in other : Bucket(a) = b})
      operating == CashEffect(rows, ProfitLoss \ With("role", "CASH")) + section("OPERATING")
  IN operating + section("INVESTING") + section("FINANCING")

\* Mutant of OpeningCash: the day before is taken for the first day.
OpeningCashSameDay(p) == CashBalance(BalancesAsOf(p))
OpeningCash(p) == CashBalance(GroupedBalances(Before(p)))

CashFlowQuery ==
  /\ rep.kind = "cashFlow"
  /\ \/ rep.step = 1 /\ Got(NetChange(GroupedBalances(Between(rep.from, rep.to))))
     \/ rep.step = 2 /\ Got(OpeningCash(rep.from))
     \/ rep.step = 3 /\ Got(CashBalance(BalancesAsOf(rep.to)))

\* accountBalance: no join with accounts, so a deleted account still has one.
AccountBalance(a, S) == SignedNet(a, SumOver([e \in S |-> lines[e][a]], S))

\* The lines of the account in the order of date and entry number, up to the
\* limit.
Precedes(e, f) ==
  \/ Dated(e) < Dated(f)
  \/ Dated(e) = Dated(f) /\ journal[e].number < journal[f].number
LinesOf(a, S) == {e \in S : a \in Used(lines[e])}
Included(S) == {f \in S : Cardinality({e \in S : Precedes(e, f)}) < GL_MAX_LINES}

\* Mutant of GeneralLedgerLines: the first period is left out of the range.
LinesAfterFrom(a) ==
  LET S == LinesOf(a, AsOf(rep.to) \ AsOf(rep.from)) IN
    /\ rep' = [rep EXCEPT !.step = @ + 1, !.truncated = Cardinality(S) > GL_MAX_LINES,
                          !.got = Append(@, AccountBalance(a, Included(S))),
                          !.saw = Append(@, Posted)]

GeneralLedgerLines(a) ==
  LET S == LinesOf(a, Between(rep.from, rep.to)) IN
    /\ rep' = [rep EXCEPT !.step = @ + 1, !.truncated = Cardinality(S) > GL_MAX_LINES,
                          !.got = Append(@, AccountBalance(a, Included(S))),
                          !.saw = Append(@, Posted)]

\* GeneralLedgerService.generate: opening balance, lines, closing balance; both
\* balances look the account up first and fail when it has been deleted.
GeneralLedgerQuery ==
  /\ rep.kind = "generalLedger"
  /\ IF rep.step \in {1, 3} /\ acct[rep.account] = "deleted"
       THEN rep' = [rep EXCEPT !.step = 5]
       ELSE \/ rep.step = 1 /\ Got(AccountBalance(rep.account, Before(rep.from)))
            \/ rep.step = 2 /\ GeneralLedgerLines(rep.account)
            \/ rep.step = 3 /\ Got(AccountBalance(rep.account, AsOf(rep.to)))

Query == (CashFlowQuery \/ GeneralLedgerQuery) /\ UNCHANGED vars

RNext == (Next /\ UNCHANGED rep) \/ (\E r \in Req : StartReport(r)) \/ Query

RSpec == RInit /\ [][RNext]_<<vars, rep>>

-----------------------------------------------------------------------------
(* Properties. *)

\* No posted line is on a deleted account; TrialBalanceNetsToZero shows that a
\* deletion may race a post, and then a statement misses the line.
NothingLost == \A e \in Posted : \A a \in Used(lines[e]) : acct[a] # "deleted"

\* docs/superpowers/plans/2026-06-11-accounting-api-phase-2-ledger-core.md:
\* "Trial balance always nets to zero".  It leaves out deleted accounts, and
\* softDelete counts the posted lines of an account before it deletes it.
TrialBalanceNetsToZero == \A p \in Periods : TrialBalance(p) = 0

\* The statements agree in every state, with years closed, reopened or never
\* closed: the balance sheet balances on every date, and its current-year earnings
\* are the net income of the income statement.
StatementsAgree ==
  NothingLost =>
    \A p \in Periods :
      /\ LET sheet == BalanceSheet(p) IN sheet.assets = sheet.liabilities + sheet.equity
      /\ CurrentYearEarnings(p) = NetIncome(YearStart(p), p)

\* The entries that the last query of a report saw and an earlier one should have
\* seen too: query b for what is dated before the range, query i for what is in it.
Late(b, i) ==
  {e \in rep.saw[3] \cap AsOf(rep.to) :
     e \notin (IF e \in Before(rep.from) THEN rep.saw[b] ELSE rep.saw[i])}

\* CashFlowService: its three queries run outside a transaction.  A cash flow
\* statement reconciles exactly when what was committed between its queries moved
\* no cash, and it is otherwise out by that amount.
CashFlowExplained ==
  (rep.kind = "cashFlow" /\ rep.step = 4 /\ NothingLost) =>
    rep.got[3] - rep.got[2] - rep.got[1]
      = SumOver([e \in Late(2, 1) |-> CashBalance(lines[e])], Late(2, 1))

\* GeneralLedgerService: unless the list was cut at its limit, the opening balance
\* and the lines listed add up to the closing balance, but for the entries
\* committed between its queries.
LedgerExplained ==
  (rep.kind = "generalLedger" /\ rep.step = 4 /\ ~rep.truncated) =>
    rep.got[3] - rep.got[2] - rep.got[1] = AccountBalance(rep.account, Late(1, 2))
=============================================================================
