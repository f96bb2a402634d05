--------------------------- MODULE Reports_proofs ---------------------------
(***************************************************************************)
(* Proofs about the financial reports, for any chart taken from the seeded  *)
(* one and any number of requests, periods and entries.  The statements of  *)
(* one query agree because every entry balances: a sum over accounts of     *)
(* sums over entries is a sum over entries of sums over accounts.  The      *)
(* reports of several queries are explained because what an earlier query   *)
(* saw is still there, unchanged, when a later one runs.                    *)
(***************************************************************************)
EXTENDS Reports, Journal_proofs

-----------------------------------------------------------------------------
(* Sums over entries and accounts. *)

\* What the entries of S have on account a, and what they have on the accounts R.
Booked(S, a) == SumOver([e \in S |-> lines[e][a]], S)
BookedOn(S, R) == SumOver([e \in S |-> SumOver(lines[e], R)], S)

\* One more entry adds its line.
LEMMA BookedOneMore ==
  ASSUME lines \in [Req -> Lines], NEW S \in SUBSET Req, IsFiniteSet(S), NEW x \in S,
         NEW a \in Accounts
  PROVE  /\ Booked(S, a) \in Int
         /\ Booked(S, a) = lines[x][a] + Booked(S \ {x}, a)
<1> DEFINE v == [e \in S |-> lines[e][a]]
           w == [e \in S \ {x} |-> lines[e][a]]
<1>1. \A e \in S : v[e] \in Int
  BY DEF Lines
<1>2. \A e \in S \ {x} : v[e] = w[e]
  OBVIOUS
<1>3. v[x] = lines[x][a] /\ IsFiniteSet(S \ {x})
  BY FS_Subset
<1>4. Booked(S, a) = SumOver(v, S) /\ Booked(S \ {x}, a) = SumOver(w, S \ {x})
  BY DEF Booked
<1> HIDE DEF v, w
<1>5. SumOver(v, S) = v[x] + SumOver(v, S \ {x})
  BY <1>1, SumTake
<1>6. SumOver(v, S \ {x}) = SumOver(w, S \ {x})
  BY <1>2, <1>3, SumSame
<1> QED BY <1>1, <1>3, <1>4, <1>5, <1>6, SumType

LEMMA BookedOnOneMore ==
  ASSUME lines \in [Req -> Lines], NEW S \in SUBSET Req, IsFiniteSet(S), NEW x \in S,
         NEW R \in SUBSET Accounts
  PROVE  /\ BookedOn(S, R) \in Int /\ SumOver(lines[x], R) \in Int
         /\ BookedOn(S, R) = SumOver(lines[x], R) + BookedOn(S \ {x}, R)
<1> DEFINE v == [e \in S |-> SumOver(lines[e], R)]
           w == [e \in S \ {x} |-> SumOver(lines[e], R)]
<1>0. IsFiniteSet(R)
  BY LedgerAssumption, FS_Subset
<1>1. \A e \in S : v[e] \in Int
  <2>1. ASSUME NEW e \in S PROVE SumOver(lines[e], R) \in Int
    BY <1>0, SumType DEF Lines
  <2> QED BY <2>1
<1>2. \A e \in S \ {x} : v[e] = w[e]
  OBVIOUS
<1>3. v[x] = SumOver(lines[x], R) /\ IsFiniteSet(S \ {x})
  BY FS_Subset
<1>4. BookedOn(S, R) = SumOver(v, S) /\ BookedOn(S \ {x}, R) = SumOver(w, S \ {x})
  BY DEF BookedOn
<1> HIDE DEF v, w
<1>5. SumOver(v, S) = v[x] + SumOver(v, S \ {x})
  BY <1>1, SumTake
<1>6. SumOver(v, S \ {x}) = SumOver(w, S \ {x})
  BY <1>2, <1>3, SumSame
<1> QED BY <1>1, <1>3, <1>4, <1>5, <1>6, SumType

LEMMA BookedType ==
  ASSUME lines \in [Req -> Lines], NEW S \in SUBSET Req, IsFiniteSet(S)
  PROVE  /\ \A a \in Accounts : Booked(S, a) \in Int
         /\ \A R \in SUBSET Accounts : BookedOn(S, R) \in Int
<1>1. CASE S = {}
  <2>1. (\A a \in Accounts : Booked(S, a) = 0) /\ (\A R \in SUBSET Accounts : BookedOn(S, R) = 0)
    BY <1>1, SumEmpty DEF Booked, BookedOn
  <2> QED BY <2>1
<1>2. CASE S # {}
  BY <1>2, BookedOneMore, BookedOnOneMore
<1> QED BY <1>1, <1>2

\* The sum over accounts of what the entries have on each is the sum over entries
\* of what each has on the accounts.
LEMMA SumsExchange ==
  ASSUME lines \in [Req -> Lines], NEW S \in SUBSET Req, IsFiniteSet(S),
         NEW R \in SUBSET Accounts
  PROVE  SumOver([a \in Accounts |-> Booked(S, a)], R) = BookedOn(S, R)
<1> DEFINE rows(s) == [a \in Accounts |-> Booked(s, a)]
           T == {s \in SUBSET S : SumOver(rows(s), R) # BookedOn(s, R)}
<1>0. IsFiniteSet(R)
  BY LedgerAssumption, FS_Subset
<1>00. SUFFICES T = {}
  OBVIOUS
<1> SUFFICES ASSUME T # {} PROVE FALSE
  OBVIOUS
<1>1. PICK m \in T : \A u \in T : u \subseteq m => u = m
  <2>1. T \in SUBSET (SUBSET S)
    OBVIOUS
  <2> HIDE DEF T
  <2> QED BY <2>1, SmallestSubset
<1>2. m \in SUBSET S /\ m \in SUBSET Req /\ IsFiniteSet(m) /\ SumOver(rows(m), R) # BookedOn(m, R)
  BY <1>1, FS_Subset
<1>3. m # {}
  <2>1. SUFFICES ASSUME m = {} PROVE FALSE
    OBVIOUS
  <2>2. (\A a \in R : rows(m)[a] = 0) /\ BookedOn(m, R) = 0
    BY <2>1, SumEmpty DEF Booked, BookedOn
  <2> HIDE DEF rows
  <2>3. SumOver(rows(m), R) = 0
    BY <1>0, <2>2, SumZero
  <2> HIDE DEF T
  <2> QED BY <1>2, <2>2, <2>3
<1>4. PICK x : x \in m
  BY <1>3
<1> DEFINE n == m \ {x}
<1>5. n \in SUBSET S /\ n \in SUBSET Req /\ IsFiniteSet(n) /\ n # m
  BY <1>2, <1>4, FS_Subset
<1>6. SumOver(rows(n), R) = BookedOn(n, R)
  BY <1>1, <1>5
<1>7. \A a \in R : rows(m)[a] \in Int /\ rows(n)[a] \in Int /\ lines[x][a] \in Int
                     /\ rows(m)[a] = lines[x][a] + rows(n)[a]
  <2>1. \A a \in R : Booked(m, a) = lines[x][a] + Booked(n, a) /\ Booked(m, a) \in Int
    BY <1>2, <1>4, BookedOneMore
  <2>2. \A a \in R : Booked(n, a) \in Int
    BY <1>5, BookedType
  <2>3. \A a \in R : lines[x][a] \in Int
    BY <1>2, <1>4 DEF Lines
  <2> QED BY <2>1, <2>2, <2>3
<1> HIDE DEF rows, T, n
<1>8. SumOver(rows(m), R) = SumOver(lines[x], R) + SumOver(rows(n), R)
  BY <1>0, <1>7, SumPlus
<1>9. BookedOn(m, R) = SumOver(lines[x], R) + BookedOn(n, R)
  BY <1>2, <1>4, BookedOnOneMore DEF n
<1> QED BY <1>2, <1>6, <1>8, <1>9

\* Balanced entries have nothing on all accounts together.
LEMMA BalancedSum ==
  ASSUME lines \in [Req -> Lines], NEW S \in SUBSET Req, IsFiniteSet(S),
         \A e \in S : AssertBalanced(lines[e])
  PROVE  BookedOn(S, Accounts) = 0
<1> DEFINE v == [e \in S |-> SumOver(lines[e], Accounts)]
<1>1. \A e \in S : v[e] = 0
  BY TotalIsSum DEF AssertBalanced
<1>2. BookedOn(S, Accounts) = SumOver(v, S)
  BY DEF BookedOn
<1> HIDE DEF v
<1> QED BY <1>1, <1>2, SumZero

-----------------------------------------------------------------------------
(* What a query over the balances returns. *)

\* groupedBalances leaves out nothing when no posted line is on a deleted account.
LEMMA RowsBooked ==
  ASSUME NothingLost, lines \in [Req -> Lines], NEW S \in SUBSET Posted, IsFiniteSet(S)
  PROVE  GroupedBalances(S) = [a \in Accounts |-> Booked(S, a)]
<1>1. ASSUME NEW a \in Accounts, acct[a] = "deleted" PROVE Booked(S, a) = 0
  <2> DEFINE v == [e \in S |-> lines[e][a]]
  <2>1. \A e \in S : v[e] = 0
    BY <1>1 DEF NothingLost, Used
  <2> HIDE DEF v
  <2>2. SumOver(v, S) = 0
    BY <2>1, SumZero
  <2> QED BY <2>2 DEF Booked, v
<1>2. \A a \in Accounts : GroupedBalances(S)[a] = Booked(S, a)
  BY <1>1 DEF GroupedBalances, Booked
<1>3. GroupedBalances(S) = [a \in Accounts |-> GroupedBalances(S)[a]]
  BY DEF GroupedBalances
<1> QED BY <1>2, <1>3

\* What a statement adds up over some accounts is what the entries have on them.
LEMMA RowsAddUp ==
  ASSUME NothingLost, lines \in [Req -> Lines], NEW S \in SUBSET Posted, IsFiniteSet(S)
  PROVE  /\ \A a \in Accounts : GroupedBalances(S)[a] \in Int
         /\ \A R \in SUBSET Accounts : Total(GroupedBalances(S), R) = BookedOn(S, R)
<1>0. S \in SUBSET Req
  BY DEF Posted
<1>1. GroupedBalances(S) = [a \in Accounts |-> Booked(S, a)]
  BY RowsBooked
<1>2. \A R \in SUBSET Accounts : Total(GroupedBalances(S), R) = BookedOn(S, R)
  BY <1>0, <1>1, SumsExchange, TotalIsSum
<1> QED BY <1>0, <1>1, <1>2, BookedType

-----------------------------------------------------------------------------
(* The seeded chart. *)

PL_SUBTYPES == {"REVENUE", "OTHER_INCOME", "COGS", "OPERATING_EXPENSE", "OTHER_EXPENSE"}

\* The types of the chart, and what belongs to profit and loss.
LEMMA ChartTypes ==
  ASSUME NEW c \in CHART_OF_ACCOUNTS
  PROVE  /\ c.type \in {"ASSET", "LIABILITY", "EQUITY", "REVENUE", "EXPENSE"}
         /\ c.type = "REVENUE" => c.subtype \in {"REVENUE", "OTHER_INCOME"}
         /\ c.type = "EXPENSE" => c.subtype \in {"COGS", "OPERATING_EXPENSE", "OTHER_EXPENSE"}
         /\ c.role = "TAX_EXPENSE" => c.type = "EXPENSE"
         /\ c.role = "CASH" => c.type = "ASSET"
<1>1. CASE c \in Assets
  BY <1>1 DEF Assets, Header, Leaf
<1>2. CASE c \in Liabilities
  BY <1>2 DEF Liabilities, Header, Leaf
<1>3. CASE c \in Equities
  BY <1>3 DEF Equities, Header, Leaf
<1>4. CASE c \in Revenues
  BY <1>4 DEF Revenues, Header, Leaf
<1>5. CASE c \in Expenses
  BY <1>5 DEF Expenses, Header, Leaf
<1> QED BY <1>1, <1>2, <1>3, <1>4, <1>5 DEF CHART_OF_ACCOUNTS

\* The same of the accounts in use.
LEMMA AccountTypes ==
  ASSUME NEW a \in Accounts
  PROVE  /\ Row[a].type \in {"ASSET", "LIABILITY", "EQUITY", "REVENUE", "EXPENSE"}
         /\ Row[a].type = "REVENUE" => Row[a].subtype \in {"REVENUE", "OTHER_INCOME"}
         /\ Row[a].type = "EXPENSE" => Row[a].subtype \in {"COGS", "OPERATING_EXPENSE", "OTHER_EXPENSE"}
         /\ Row[a].role = "TAX_EXPENSE" => Row[a].type = "EXPENSE"
         /\ Row[a].role = "CASH" => Row[a].type = "ASSET"
         /\ a \in ProfitLoss <=> Row[a].type \in {"REVENUE", "EXPENSE"}
<1>1. PICK c \in CHART_OF_ACCOUNTS : c.code = a
  BY ReportsAssumption
<1>2. SeedAccount(a) \in CHART_OF_ACCOUNTS
  BY <1>1 DEF SeedAccount
<1>3. Row[a] = SeedAccount(a)
  BY DEF Row
<1>4. a \in ProfitLoss <=> SeedAccount(a).type \in {"REVENUE", "EXPENSE"}
  BY ReportsAssumption
<1> QED BY <1>2, <1>3, <1>4, ChartTypes

-----------------------------------------------------------------------------
(* The statements of one query. *)

\* A section adds up the balances of its accounts, or their opposites.
LEMMA DebitSection ==
  ASSUME NEW rows, \A a \in Accounts : rows[a] \in Int, NEW S \in SUBSET Accounts,
         \A a \in S : Row[a].type \in {"ASSET", "EXPENSE"}
  PROVE  Section(rows, S) = SumOver(rows, S) /\ SumOver(rows, S) \in Int
<1> DEFINE v == [a \in S |-> NaturalSide(a, rows[a])]
<1>1. \A a \in S : v[a] = rows[a]
  BY DEF NaturalSide
<1>2. Section(rows, S) = SumOver(v, S) /\ IsFiniteSet(S)
  BY LedgerAssumption, FS_Subset DEF Section
<1> HIDE DEF v
<1> QED BY <1>1, <1>2, SumSame, SumType

LEMMA CreditSection ==
  ASSUME NEW rows, \A a \in Accounts : rows[a] \in Int, NEW S \in SUBSET Accounts,
         \A a \in S : Row[a].type \notin {"ASSET", "EXPENSE"}
  PROVE  Section(rows, S) = -SumOver(rows, S) /\ SumOver(rows, S) \in Int
<1> DEFINE v == [a \in S |-> NaturalSide(a, rows[a])]
<1>1. \A a \in S : rows[a] \in Int /\ v[a] = -rows[a]
  BY DEF NaturalSide
<1>2. Section(rows, S) = SumOver(v, S) /\ IsFiniteSet(S)
  BY LedgerAssumption, FS_Subset DEF Section
<1> HIDE DEF v
<1> QED BY <1>1, <1>2, SumNegated, SumType

\* BalanceSheetService: assets are liabilities and equity when the balances of all
\* accounts add up to nothing.
LEMMA SheetBalances ==
  ASSUME NEW rows, \A a \in Accounts : rows[a] \in Int, SumOver(rows, Accounts) = 0
  PROVE  Section(rows, With("type", "ASSET"))
           = Section(rows, With("type", "LIABILITY"))
               + (Section(rows, With("type", "EQUITY")) + Earnings(rows))
<1> DEFINE A == With("type", "ASSET")
           L == With("type", "LIABILITY")
           Q == With("type", "EQUITY")
           R == Accounts \ A
           R2 == R \ L
<1>0. IsFiniteSet(Accounts) /\ IsFiniteSet(R) /\ IsFiniteSet(R2) /\ R \in SUBSET Accounts
      /\ R2 \in SUBSET Accounts
  BY LedgerAssumption, FS_Subset
<1>1. /\ A \in SUBSET Accounts /\ \A a \in A : Row[a].type = "ASSET"
      /\ L \in SUBSET Accounts /\ \A a \in L : Row[a].type = "LIABILITY"
      /\ Q \in SUBSET Accounts /\ \A a \in Q : Row[a].type = "EQUITY"
      /\ L \in SUBSET R /\ Q \in SUBSET R2
  BY DEF With
<1>2. ProfitLoss = R2 \ Q
  BY AccountTypes, LedgerAssumption DEF With
<1> HIDE DEF A, L, Q, R, R2
<1>3. Section(rows, A) = SumOver(rows, A) /\ SumOver(rows, A) \in Int
  BY <1>1, DebitSection
<1>4. /\ Section(rows, L) = -SumOver(rows, L) /\ SumOver(rows, L) \in Int
      /\ Section(rows, Q) = -SumOver(rows, Q) /\ SumOver(rows, Q) \in Int
  BY <1>1, CreditSection
<1>5. SumOver(rows, Accounts) = SumOver(rows, A) + SumOver(rows, R)
  BY <1>0, <1>1, SumSplit DEF R
<1>6. SumOver(rows, R) = SumOver(rows, L) + SumOver(rows, R2)
  BY <1>0, <1>1, SumSplit DEF R2
<1>7. SumOver(rows, R2) = SumOver(rows, Q) + SumOver(rows, ProfitLoss)
  BY <1>0, <1>1, <1>2, SumSplit
<1>8. Earnings(rows) = -SumOver(rows, ProfitLoss)
  BY TotalIsSum DEF Earnings
<1>9. SumOver(rows, ProfitLoss) \in Int
  <2>1. IsFiniteSet(ProfitLoss)
    BY LedgerAssumption, FS_Subset
  <2> QED BY <2>1, LedgerAssumption, SumType
<1>10. Section(rows, A) = Section(rows, L) + (Section(rows, Q) + Earnings(rows))
  BY <1>3, <1>4, <1>5, <1>6, <1>7, <1>8, <1>9
<1> QED BY <1>10 DEF A, L, Q

\* The income statement of given balances.
Income(rows) ==
  LET Of(subtype) == Section(rows, (With("subtype", subtype) \cap ProfitLoss)
                                     \ With("role", "TAX_EXPENSE"))
  IN (((Of("REVENUE") - Of("COGS")) - Of("OPERATING_EXPENSE"))
        + (Of("OTHER_INCOME") - Of("OTHER_EXPENSE"))) - Section(rows, With("role", "TAX_EXPENSE") \cap ProfitLoss)

\* IncomeStatementService: its sections, taken out one by one, are all of profit
\* and loss.
LEMMA IncomeAddsUp ==
  ASSUME NEW rows, \A a \in Accounts : rows[a] \in Int
  PROVE  Earnings(rows) = Income(rows)
<1> DEFINE W(subtype) == (With("subtype", subtype) \cap ProfitLoss) \ With("role", "TAX_EXPENSE")
           X == With("role", "TAX_EXPENSE") \cap ProfitLoss
           R1 == ProfitLoss \ X
           R2 == R1 \ W("REVENUE")
           R3 == R2 \ W("COGS")
           R4 == R3 \ W("OPERATING_EXPENSE")
           R5 == R4 \ W("OTHER_INCOME")
           S(T) == SumOver(rows, T)
<1>0. /\ ProfitLoss \in SUBSET Accounts /\ R1 \in SUBSET Accounts /\ R2 \in SUBSET Accounts
      /\ R3 \in SUBSET Accounts /\ R4 \in SUBSET Accounts /\ R5 \in SUBSET Accounts
  BY LedgerAssumption
<1>f. /\ IsFiniteSet(ProfitLoss) /\ IsFiniteSet(R1) /\ IsFiniteSet(R2) /\ IsFiniteSet(R3)
      /\ IsFiniteSet(R4) /\ IsFiniteSet(R5)
  <2> HIDE DEF R1, R2, R3, R4, R5
  <2> QED BY <1>0, LedgerAssumption, FS_Subset
<1>1. /\ X \in SUBSET ProfitLoss /\ X \in SUBSET Accounts
      /\ W("REVENUE") \in SUBSET R1 /\ W("REVENUE") \in SUBSET Accounts
      /\ W("COGS") \in SUBSET R2 /\ W("COGS") \in SUBSET Accounts
      /\ W("OPERATING_EXPENSE") \in SUBSET R3 /\ W("OPERATING_EXPENSE") \in SUBSET Accounts
      /\ W("OTHER_INCOME") \in SUBSET R4 /\ W("OTHER_INCOME") \in SUBSET Accounts
      /\ W("OTHER_EXPENSE") \in SUBSET R5 /\ W("OTHER_EXPENSE") \in SUBSET Accounts
  BY <1>0 DEF With
<1>2. R5 = W("OTHER_EXPENSE")
  <2>1. ASSUME NEW a \in R5 PROVE a \in W("OTHER_EXPENSE")
    <3>1. a \in ProfitLoss /\ a \in Accounts /\ a \notin With("role", "TAX_EXPENSE")
      BY <1>0, <2>1
    <3>2. /\ Row[a].subtype # "REVENUE" /\ Row[a].subtype # "COGS"
          /\ Row[a].subtype # "OPERATING_EXPENSE" /\ Row[a].subtype # "OTHER_INCOME"
      BY <2>1, <3>1 DEF With
    <3>3. Row[a].subtype = "OTHER_EXPENSE"
      BY <3>1, <3>2, AccountTypes
    <3> QED BY <3>1, <3>3 DEF With
  <2> QED BY <1>1, <2>1
<1>3. /\ \A a \in X : Row[a].type = "EXPENSE"
      /\ \A a \in W("COGS") : Row[a].type = "EXPENSE"
      /\ \A a \in W("OPERATING_EXPENSE") : Row[a].type = "EXPENSE"
      /\ \A a \in W("OTHER_EXPENSE") : Row[a].type = "EXPENSE"
      /\ \A a \in W("REVENUE") : Row[a].type = "REVENUE"
      /\ \A a \in W("OTHER_INCOME") : Row[a].type = "REVENUE"
  BY <1>0, AccountTypes DEF With
<1> HIDE DEF W, X
<1>4. /\ Section(rows, X) = S(X) /\ S(X) \in Int
      /\ Section(rows, W("COGS")) = S(W("COGS")) /\ S(W("COGS")) \in Int
      /\ Section(rows, W("OPERATING_EXPENSE")) = S(W("OPERATING_EXPENSE"))
      /\ S(W("OPERATING_EXPENSE")) \in Int
      /\ Section(rows, W("OTHER_EXPENSE")) = S(W("OTHER_EXPENSE")) /\ S(W("OTHER_EXPENSE")) \in Int
  BY <1>1, <1>3, DebitSection
<1>5. /\ Section(rows, W("REVENUE")) = -S(W("REVENUE")) /\ S(W("REVENUE")) \in Int
      /\ Section(rows, W("OTHER_INCOME")) = -S(W("OTHER_INCOME")) /\ S(W("OTHER_INCOME")) \in Int
  BY <1>1, <1>3, CreditSection
<1>6. S(ProfitLoss) = S(X) + S(R1)
  BY <1>0, <1>f, <1>1, SumSplit
<1>7. S(R1) = S(W("REVENUE")) + S(R2)
  <2> HIDE DEF R1
  <2> QED BY <1>0, <1>f, <1>1, SumSplit
<1>8. S(R2) = S(W("COGS")) + S(R3)
  <2> HIDE DEF R2
  <2> QED BY <1>0, <1>f, <1>1, SumSplit
<1>9. S(R3) = S(W("OPERATING_EXPENSE")) + S(R4)
  <2> HIDE DEF R3
  <2> QED BY <1>0, <1>f, <1>1, SumSplit
<1>10. S(R4) = S(W("OTHER_INCOME")) + S(R5)
  <2> HIDE DEF R4
  <2> QED BY <1>0, <1>f, <1>1, SumSplit
<1>11. Earnings(rows) = -S(ProfitLoss)
  BY TotalIsSum DEF Earnings
<1> HIDE DEF S, R1, R2, R3, R4, R5
<1>12. Earnings(rows) =
         (((Section(rows, W("REVENUE")) - Section(rows, W("COGS")))
              - Section(rows, W("OPERATING_EXPENSE")))
            + (Section(rows, W("OTHER_INCOME")) - Section(rows, W("OTHER_EXPENSE"))))
           - Section(rows, X)
  BY <1>2, <1>4, <1>5, <1>6, <1>7, <1>8, <1>9, <1>10, <1>11
<1> QED BY <1>12 DEF W, X, Income

\* In one state: the statements agree when every posted entry balances.
LEMMA AgreeNow ==
  ASSUME DoubleEntry, IsFiniteSet(Posted)
  PROVE  StatementsAgree
<1> SUFFICES ASSUME NothingLost, NEW p \in Periods
             PROVE  /\ BalanceSheet(p).assets = BalanceSheet(p).liabilities + BalanceSheet(p).equity
                    /\ CurrentYearEarnings(p) = NetIncome(YearStart(p), p)
  BY DEF StatementsAgree
<1>0. lines \in [Req -> Lines] /\ \A e \in Posted : AssertBalanced(lines[e])
  BY DEF DoubleEntry
<1>1. BalanceSheet(p).assets = BalanceSheet(p).liabilities + BalanceSheet(p).equity
  <2> DEFINE S == AsOf(p)
             rows == GroupedBalances(S)
  <2>1. S \in SUBSET Posted /\ S \in SUBSET Req /\ IsFiniteSet(S)
    BY FS_Subset DEF AsOf, Posted
  <2> HIDE DEF S
  <2>2. (\A a \in Accounts : rows[a] \in Int) /\ SumOver(rows, Accounts) = BookedOn(S, Accounts)
    BY <1>0, <2>1, RowsAddUp, TotalIsSum
  <2>3. SumOver(rows, Accounts) = 0
    BY <1>0, <2>1, <2>2, BalancedSum
  <2>4. /\ BalanceSheet(p).assets = Section(rows, With("type", "ASSET"))
        /\ BalanceSheet(p).liabilities = Section(rows, With("type", "LIABILITY"))
        /\ BalanceSheet(p).equity = Section(rows, With("type", "EQUITY")) + Earnings(rows)
    BY DEF BalanceSheet, BalancesAsOf, S
  <2> HIDE DEF rows
  <2> QED BY <2>2, <2>3, <2>4, SheetBalances
<1>2. CurrentYearEarnings(p) = NetIncome(YearStart(p), p)
  <2> DEFINE S == Between(YearStart(p), p)
             rows == GroupedBalances(S)
  <2>1. S \in SUBSET Posted /\ IsFiniteSet(S)
    BY FS_Subset DEF Between
  <2> HIDE DEF S
  <2>2. \A a \in Accounts : rows[a] \in Int
    BY <1>0, <2>1, RowsAddUp
  <2>3. CurrentYearEarnings(p) = Earnings(rows)
    BY DEF CurrentYearEarnings, S
  <2>4. Earnings(rows) = NetIncome(YearStart(p), p)
    <3>1. NetIncome(YearStart(p), p) = Income(GroupedBalances(Between(YearStart(p), p)))
      BY DEF NetIncome, Income
    <3>2. rows = GroupedBalances(Between(YearStart(p), p))
      BY DEF S
    <3> HIDE DEF rows
    <3> QED BY <2>2, <3>1, <3>2, IncomeAddsUp
  <2> QED BY <2>3, <2>4
<1> QED BY <1>1, <1>2

-----------------------------------------------------------------------------
(* What a report has got so far.                                              *)

\* The entries of W before, in and up to the end of the range of the report.
Earlier(W) == {e \in W : Dated(e) < PeriodNo[rep.from]}
InRange(W) == {e \in W : PeriodNo[rep.from] <= Dated(e) /\ Dated(e) <= PeriodNo[rep.to]}
UpTo(W) == {e \in W : Dated(e) <= PeriodNo[rep.to]}

\* What the entries of W moved in cash.
CashMoved(W) == BookedOn(W, With("role", "CASH"))

ReportShape ==
  /\ rep \in [step : 0 .. 5, kind : {"none", "cashFlow", "generalLedger"},
              from : Periods \cup {Null}, to : Periods \cup {Null},
              account : Accounts \cup {Null}, got : Seq(Int), saw : Seq(SUBSET Req),
              truncated : BOOLEAN]
  /\ rep.kind # "none" =>
       /\ rep.from \in Periods /\ rep.to \in Periods
       /\ PeriodNo[rep.from] <= PeriodNo[rep.to]
       /\ rep.step \in 1 .. 5
  /\ rep.kind = "generalLedger" => rep.account \in Accounts
  /\ rep.kind # "none" /\ rep.step < 5 => Len(rep.got) = rep.step - 1 /\ Len(rep.saw) = rep.step - 1

\* Each query saw what the earlier ones had seen, and all of it is still there.
SawGrows ==
  /\ \A i \in DOMAIN rep.saw : rep.saw[i] \subseteq Posted
  /\ \A i, j \in DOMAIN rep.saw : i <= j => rep.saw[i] \subseteq rep.saw[j]

\* What the queries of a cash flow statement returned, unless the join with
\* accounts has lost a line.
CashFlowSoFar ==
  rep.kind = "cashFlow" /\ rep.step < 5 /\ NothingLost =>
    /\ rep.step > 1 => rep.got[1] = CashMoved(InRange(rep.saw[1]))
    /\ rep.step > 2 => rep.got[2] = CashMoved(Earlier(rep.saw[2]))
    /\ rep.step > 3 => rep.got[3] = CashMoved(UpTo(rep.saw[3]))

\* What the queries of a general ledger returned, unless the list was cut.
LedgerSoFar ==
  rep.kind = "generalLedger" /\ rep.step < 5 =>
    /\ rep.step > 1 => rep.got[1] = AccountBalance(rep.account, Earlier(rep.saw[1]))
    /\ rep.step > 2 /\ ~rep.truncated =>
         rep.got[2] = AccountBalance(rep.account, InRange(rep.saw[2]))
    /\ rep.step > 3 => rep.got[3] = AccountBalance(rep.account, UpTo(rep.saw[3]))

RepInv == ReportShape /\ SawGrows /\ CashFlowSoFar /\ LedgerSoFar

-----------------------------------------------------------------------------
(* What the steps of the ledger leave alone. *)

\* What is posted stays, with its lines, its date and its number, and it stays
\* finite.
LEMMA PostedStays ==
  ASSUME Inv, NEW r \in Req, Move(r)
  PROVE  /\ Posted \subseteq Posted'
         /\ \A e \in Posted : lines'[e] = lines[e] /\ journal'[e].date = journal[e].date
         /\ IsFiniteSet(Posted) => IsFiniteSet(Posted')
<1>1. CASE Quiet
  BY <1>1 DEF Quiet
<1>2. ASSUME NEW e \in Req, Enters(r, e),
             EntersNew(r, e) \/ EntersDraft(r, e) \/ EntersReversal(r, e)
      PROVE  /\ Posted \subseteq Posted'
             /\ \A f \in Posted : lines'[f] = lines[f] /\ journal'[f].date = journal[f].date
             /\ IsFiniteSet(Posted) => IsFiniteSet(Posted')
  <2>1. Posted' = Posted \cup {e}
    BY <1>2 DEF Enters
  <2>2. IsFiniteSet(Posted) => IsFiniteSet(Posted')
    BY <2>1, FS_AddElement
  <2>3. CASE EntersNew(r, e) \/ EntersDraft(r, e)
    BY <2>1, <2>2, <2>3 DEF EntersNew, EntersDraft
  <2>4. CASE EntersReversal(r, e)
    <3> DEFINE o == tgt[r]
    <3>1. /\ o \in Posted /\ journal[o] \in EntryRow
          /\ journal'[o] = [journal[o] EXCEPT !.status = "REVERSED"]
          /\ \A f \in Posted : lines'[f] = lines[f]
          /\ \A f \in Posted \ {o} : journal'[f] = journal[f]
      BY <2>4 DEF EntersReversal, Inv, TypeOK, Posted
    <3> HIDE DEF o
    <3>2. journal'[o].date = journal[o].date
      BY <3>1 DEF EntryRow
    <3> QED BY <2>1, <2>2, <3>1, <3>2
  <2> QED BY <1>2, <2>3, <2>4
<1> QED BY <1>1, <1>2, StepEffect

\* A line on a deleted account stays lost: the account never comes back.
LEMMA LostStaysLost ==
  ASSUME Inv, NEW r \in Req, Move(r), NothingLost'
  PROVE  NothingLost
<1> SUFFICES ASSUME NEW e \in Posted, NEW a \in Used(lines[e]) PROVE acct[a] # "deleted"
  BY DEF NothingLost
<1>1. e \in Posted' /\ lines'[e] = lines[e] /\ a \in Accounts
  BY PostedStays DEF Used
<1>2. a \in Used(lines'[e])
  BY <1>1 DEF Used
<1>3. acct'[a] # "deleted"
  BY <1>1, <1>2 DEF NothingLost, Used
<1> QED BY <1>1, <1>3, WhoEdits DEF Inv

\* A report in which nothing happens still has what it had.
LEMMA ReportStays ==
  ASSUME RepInv, UNCHANGED rep, Posted \subseteq Posted', NothingLost' => NothingLost,
         \A e \in Posted : lines'[e] = lines[e] /\ journal'[e].date = journal[e].date
  PROVE  RepInv'
<1>1. ASSUME NEW W, W \subseteq Posted
      PROVE  /\ {e \in W : PeriodNo[journal'[e].date] < PeriodNo[rep.from]} = Earlier(W)
             /\ {e \in W : PeriodNo[rep.from] <= PeriodNo[journal'[e].date]
                             /\ PeriodNo[journal'[e].date] <= PeriodNo[rep.to]} = InRange(W)
             /\ {e \in W : PeriodNo[journal'[e].date] <= PeriodNo[rep.to]} = UpTo(W)
  BY <1>1 DEF Earlier, InRange, UpTo, Dated
<1>2. ASSUME NEW W, W \subseteq Posted, NEW R
      PROVE  SumOver([e \in W |-> SumOver(lines'[e], R)], W) = BookedOn(W, R)
  <2>1. [e \in W |-> SumOver(lines'[e], R)] = [e \in W |-> SumOver(lines[e], R)]
    BY <1>2
  <2> QED BY <2>1 DEF BookedOn
<1>3. ASSUME NEW W, W \subseteq Posted, NEW a
      PROVE  SignedNet(a, SumOver([e \in W |-> lines'[e][a]], W)) = AccountBalance(a, W)
  <2>1. [e \in W |-> lines'[e][a]] = [e \in W |-> lines[e][a]]
    BY <1>3
  <2> QED BY <2>1 DEF AccountBalance
<1>4. \A W : Earlier(W) \subseteq W /\ InRange(W) \subseteq W /\ UpTo(W) \subseteq W
  BY DEF Earlier, InRange, UpTo
<1>5. ASSUME NEW i \in DOMAIN rep.saw
      PROVE  /\ Earlier(rep.saw[i])' = Earlier(rep.saw[i])
             /\ InRange(rep.saw[i])' = InRange(rep.saw[i])
             /\ UpTo(rep.saw[i])' = UpTo(rep.saw[i])
             /\ Earlier(rep.saw[i]) \subseteq Posted /\ InRange(rep.saw[i]) \subseteq Posted
             /\ UpTo(rep.saw[i]) \subseteq Posted
  <2>1. rep.saw[i] \subseteq Posted
    BY DEF RepInv, SawGrows
  <2>2. /\ Earlier(rep.saw[i])' = {e \in rep.saw[i] : PeriodNo[journal'[e].date] < PeriodNo[rep.from]}
        /\ InRange(rep.saw[i])' = {e \in rep.saw[i] : PeriodNo[rep.from] <= PeriodNo[journal'[e].date]
                             /\ PeriodNo[journal'[e].date] <= PeriodNo[rep.to]}
        /\ UpTo(rep.saw[i])' = {e \in rep.saw[i] : PeriodNo[journal'[e].date] <= PeriodNo[rep.to]}
    BY DEF Earlier, InRange, UpTo, Dated
  <2> QED BY <1>1, <1>4, <2>1, <2>2
<1>6. ASSUME NEW i \in DOMAIN rep.saw
      PROVE  /\ CashMoved(Earlier(rep.saw[i]))' = CashMoved(Earlier(rep.saw[i]))
             /\ CashMoved(InRange(rep.saw[i]))' = CashMoved(InRange(rep.saw[i]))
             /\ CashMoved(UpTo(rep.saw[i]))' = CashMoved(UpTo(rep.saw[i]))
             /\ AccountBalance(rep.account, Earlier(rep.saw[i]))'
                  = AccountBalance(rep.account, Earlier(rep.saw[i]))
             /\ AccountBalance(rep.account, InRange(rep.saw[i]))'
                  = AccountBalance(rep.account, InRange(rep.saw[i]))
             /\ AccountBalance(rep.account, UpTo(rep.saw[i]))'
                  = AccountBalance(rep.account, UpTo(rep.saw[i]))
  BY <1>2, <1>3, <1>5 DEF CashMoved, BookedOn, AccountBalance
<1>7. ReportShape' /\ SawGrows'
  BY DEF RepInv, ReportShape, SawGrows
<1>8. /\ rep.kind # "none" /\ rep.step < 5 /\ rep.step > 1 => 1 \in DOMAIN rep.saw
      /\ rep.kind # "none" /\ rep.step < 5 /\ rep.step > 2 => 2 \in DOMAIN rep.saw
      /\ rep.kind # "none" /\ rep.step < 5 /\ rep.step > 3 => 3 \in DOMAIN rep.saw
  BY DEF RepInv, ReportShape
<1>9. CashFlowSoFar'
  BY <1>6, <1>8 DEF RepInv, CashFlowSoFar
<1>10. LedgerSoFar'
  BY <1>6, <1>8 DEF RepInv, LedgerSoFar
<1> QED BY <1>7, <1>9, <1>10 DEF RepInv

-----------------------------------------------------------------------------
(* The queries.                                                               *)

\* The report rp with one more result v, got from the entries P.
OneMore(rp, v, P, cut) ==
  [step |-> rp.step + 1, kind |-> rp.kind, from |-> rp.from, to |-> rp.to,
   account |-> rp.account, got |-> Append(rp.got, v), saw |-> Append(rp.saw, P),
   truncated |-> cut]

\* The step of the lines, which may be cut.
GotLines(v, cut) ==
  rep' = [rep EXCEPT !.step = @ + 1, !.truncated = cut,
                     !.got = Append(@, v), !.saw = Append(@, Posted)]

LEMMA GotAppends ==
  ASSUME ReportShape, NEW v, Got(v)
  PROVE  rep' = OneMore(rep, v, Posted, rep.truncated)
BY DEF ReportShape, Got, OneMore

LEMMA GotLinesAppends ==
  ASSUME ReportShape, NEW v, NEW cut, GotLines(v, cut)
  PROVE  rep' = OneMore(rep, v, Posted, cut)
BY DEF ReportShape, GotLines, OneMore

\* What a query adds to the report.
LEMMA QueryKeeps ==
  ASSUME ReportShape, SawGrows, rep.kind # "none", rep.step < 4, NEW v \in Int, NEW cut \in BOOLEAN,
         rep' = OneMore(rep, v, Posted, cut), Posted' = Posted
  PROVE  /\ ReportShape' /\ SawGrows'
         /\ rep'.step = rep.step + 1 /\ rep'.kind = rep.kind /\ rep'.account = rep.account
         /\ rep'.from = rep.from /\ rep'.to = rep.to /\ rep'.truncated = cut
         /\ rep'.got[rep.step] = v /\ rep'.saw[rep.step] = Posted
         /\ \A i \in 1 .. rep.step - 1 : rep'.got[i] = rep.got[i] /\ rep'.saw[i] = rep.saw[i]
<1> DEFINE n == rep.step
           got == rep.got
           saw == rep.saw
<1>1. /\ n \in 1 .. 3 /\ got \in Seq(Int) /\ saw \in Seq(SUBSET Req)
      /\ Len(got) = n - 1 /\ Len(saw) = n - 1 /\ Posted \in SUBSET Req
      /\ (n - 1) + 1 = n
  BY DEF ReportShape, Posted
<1>2. /\ rep'.step = n + 1 /\ rep'.kind = rep.kind /\ rep'.account = rep.account
      /\ rep'.from = rep.from /\ rep'.to = rep.to /\ rep'.truncated = cut
      /\ rep'.got = Append(got, v) /\ rep'.saw = Append(saw, Posted)
  BY DEF OneMore
<1> HIDE DEF n, got, saw
<1>3. /\ Append(got, v) \in Seq(Int) /\ Len(Append(got, v)) = n /\ Append(got, v)[n] = v
      /\ \A i \in 1 .. n - 1 : Append(got, v)[i] = got[i]
  BY <1>1
<1>4. /\ Append(saw, Posted) \in Seq(SUBSET Req) /\ Len(Append(saw, Posted)) = n
      /\ Append(saw, Posted)[n] = Posted
      /\ \A i \in 1 .. n - 1 : Append(saw, Posted)[i] = saw[i]
      /\ DOMAIN Append(saw, Posted) = 1 .. n /\ DOMAIN saw = 1 .. n - 1
  BY <1>1
<1>5. rep' \in [step : 0 .. 5, kind : {"none", "cashFlow", "generalLedger"},
                from : Periods \cup {Null}, to : Periods \cup {Null},
                account : Accounts \cup {Null}, got : Seq(Int), saw : Seq(SUBSET Req),
                truncated : BOOLEAN]
  <2>1. n + 1 \in 0 .. 5
    BY <1>1
  <2>2. rep.kind \in {"none", "cashFlow", "generalLedger"} /\ rep.from \in Periods \cup {Null}
        /\ rep.to \in Periods \cup {Null} /\ rep.account \in Accounts \cup {Null}
    BY DEF ReportShape
  <2> QED BY <1>3, <1>4, <2>1, <2>2 DEF OneMore, n, got, saw
<1>6. ReportShape'
  BY <1>1, <1>2, <1>3, <1>4, <1>5 DEF ReportShape
<1>7. SawGrows'
  <2>1. ASSUME NEW i \in 1 .. n PROVE Append(saw, Posted)[i] \subseteq Posted
    <3>1. CASE i = n
      BY <1>4, <3>1
    <3>2. CASE i # n
      <4>1. i \in 1 .. n - 1
        BY <1>1, <3>2
      <4> QED BY <1>4, <4>1 DEF SawGrows, saw
    <3> QED BY <3>1, <3>2
  <2>2. ASSUME NEW i \in 1 .. n, NEW j \in 1 .. n, i <= j
        PROVE  Append(saw, Posted)[i] \subseteq Append(saw, Posted)[j]
    <3>1. CASE j = n
      BY <1>4, <2>1, <3>1
    <3>2. CASE j # n
      <4>1. i \in 1 .. n - 1 /\ j \in 1 .. n - 1
        BY <1>1, <2>2, <3>2
      <4>2. saw[i] \subseteq saw[j]
        BY <1>4, <2>2, <4>1 DEF SawGrows, saw
      <4> QED BY <1>4, <4>1, <4>2
    <3> QED BY <3>1, <3>2
  <2> QED BY <1>2, <1>4, <2>1, <2>2 DEF SawGrows
<1> QED BY <1>2, <1>3, <1>4, <1>6, <1>7 DEF n, got, saw

\* The net change of cash is what all other accounts moved, turned round: what the
\* entries moved in cash, since they balance.
LEMMA NetChangeIsCash ==
  ASSUME NEW rows, \A a \in Accounts : rows[a] \in Int
  PROVE  /\ NetChange(rows) \in Int
         /\ SumOver(rows, Accounts) = 0 => NetChange(rows) = SumOver(rows, With("role", "CASH"))
<1> DEFINE C == With("role", "CASH")
           R == Accounts \ C
           P == ProfitLoss \ C
           other == Accounts \ (C \cup ProfitLoss)
           N(b) == {a \in other : Bucket(a) = b}
           R2 == other \ N("OPERATING")
           S(T) == SumOver(rows, T)
<1>0. /\ C \in SUBSET Accounts /\ R \in SUBSET Accounts /\ P \in SUBSET R /\ P \in SUBSET Accounts
      /\ R \ P = other /\ other \in SUBSET Accounts /\ R2 \in SUBSET Accounts
      /\ N("OPERATING") \in SUBSET other /\ N("INVESTING") \in SUBSET R2
      /\ R2 \ N("INVESTING") = N("FINANCING")
      /\ N("OPERATING") \in SUBSET Accounts /\ N("INVESTING") \in SUBSET Accounts
      /\ N("FINANCING") \in SUBSET Accounts
  <2>1. \A a \in other : Bucket(a) \in {"OPERATING", "INVESTING", "FINANCING"}
    BY DEF Bucket
  <2> QED BY <2>1, LedgerAssumption DEF With
<1>1. \A T \in SUBSET Accounts : IsFiniteSet(T) /\ S(T) \in Int
  <2>1. ASSUME NEW T \in SUBSET Accounts PROVE IsFiniteSet(T) /\ S(T) \in Int
    <3>1. IsFiniteSet(T)
      BY LedgerAssumption, FS_Subset
    <3> QED BY <3>1, SumType
  <2> QED BY <2>1
<1>2. NetChange(rows) = ((-S(P) + -S(N("OPERATING"))) + -S(N("INVESTING"))) + -S(N("FINANCING"))
  BY TotalIsSum DEF NetChange, CashEffect
<1> HIDE DEF C, R, P, other, N, R2, S
<1>3. S(Accounts) = S(C) + S(R)
  <2>1. IsFiniteSet(Accounts) /\ C \in SUBSET Accounts
    BY <1>0, LedgerAssumption
  <2>2. SumOver(rows, Accounts) = SumOver(rows, C) + SumOver(rows, Accounts \ C)
    BY <2>1, SumSplit
  <2> QED BY <2>2 DEF S, R
<1>4. S(R) = S(P) + S(other)
  BY <1>0, <1>1, SumSplit DEF S
<1>5. S(other) = S(N("OPERATING")) + S(R2)
  BY <1>0, <1>1, SumSplit DEF S, R2
<1>6. S(R2) = S(N("INVESTING")) + S(N("FINANCING"))
  BY <1>0, <1>1, SumSplit DEF S
<1>7. /\ S(C) \in Int /\ S(R) \in Int /\ S(P) \in Int /\ S(other) \in Int /\ S(R2) \in Int
      /\ S(N("OPERATING")) \in Int /\ S(N("INVESTING")) \in Int /\ S(N("FINANCING")) \in Int
  BY <1>0, <1>1
<1>8. NetChange(rows) \in Int /\ (S(Accounts) = 0 => NetChange(rows) = S(C))
  BY <1>2, <1>3, <1>4, <1>5, <1>6, <1>7
<1> QED BY <1>8 DEF S, C

\* A query over the balances returns an amount for every account, and the
\* amounts on cash and the net change are the cash the entries moved.
LEMMA BalanceQueries ==
  ASSUME DoubleEntry, IsFiniteSet(Posted), NEW S \in SUBSET Posted
  PROVE  /\ NetChange(GroupedBalances(S)) \in Int /\ CashBalance(GroupedBalances(S)) \in Int
         /\ NothingLost => /\ NetChange(GroupedBalances(S)) = CashMoved(S)
                           /\ CashBalance(GroupedBalances(S)) = CashMoved(S)
<1> DEFINE rows == GroupedBalances(S)
           C == With("role", "CASH")
<1>0. /\ lines \in [Req -> Lines] /\ (\A e \in S : AssertBalanced(lines[e]))
      /\ IsFiniteSet(S) /\ S \in SUBSET Req /\ C \in SUBSET Accounts
  BY FS_Subset DEF DoubleEntry, Posted, With
<1>1. \A a \in Accounts : rows[a] \in Int
  <2>1. \A a \in Accounts : Booked(S, a) \in Int
    BY <1>0, BookedType
  <2> QED BY <2>1 DEF GroupedBalances, Booked
<1>2. CashBalance(rows) = SumOver(rows, C)
  BY TotalIsSum DEF CashBalance
<1>3. SumOver(rows, C) \in Int
  <2>1. IsFiniteSet(C)
    BY <1>0, LedgerAssumption, FS_Subset
  <2> HIDE DEF rows
  <2> QED BY <1>0, <1>1, <2>1, SumType
<1>4. ASSUME NothingLost PROVE SumOver(rows, Accounts) = 0 /\ SumOver(rows, C) = CashMoved(S)
  <2>1. \A R \in SUBSET Accounts : SumOver(rows, R) = BookedOn(S, R)
    BY <1>0, <1>4, RowsAddUp, TotalIsSum
  <2>2. BookedOn(S, Accounts) = 0
    BY <1>0, BalancedSum
  <2> HIDE DEF rows
  <2> QED BY <1>0, <2>1, <2>2 DEF CashMoved
<1> HIDE DEF rows
<1>5. NetChange(rows) \in Int /\ (SumOver(rows, Accounts) = 0 => NetChange(rows) = SumOver(rows, C))
  BY <1>1, NetChangeIsCash
<1> QED BY <1>2, <1>3, <1>4, <1>5 DEF rows

\* Only what is on an account counts for its balance, and a list that was not cut
\* has all of it: fewer entries precede one of them than there are.
LEMMA ListedBalance ==
  ASSUME Inv, lines \in [Req -> Lines], NEW S \in SUBSET Posted, IsFiniteSet(S),
         NEW a \in Accounts
  PROVE  /\ AccountBalance(a, S) \in Int
         /\ AccountBalance(a, Included(LinesOf(a, S))) \in Int
         /\ ~ Cardinality(LinesOf(a, S)) > GL_MAX_LINES =>
              AccountBalance(a, Included(LinesOf(a, S))) = AccountBalance(a, S)
<1> DEFINE L == LinesOf(a, S)
<1>0. S \in SUBSET Req /\ L \in SUBSET S /\ IsFiniteSet(L) /\ Included(L) \in SUBSET L
      /\ IsFiniteSet(Included(L))
  <2>1. L \in SUBSET S
    BY DEF LinesOf
  <2> HIDE DEF L
  <2> QED BY <2>1, FS_Subset DEF Included, Posted
<1>1. \A T \in SUBSET S : AccountBalance(a, T) \in Int
  <2>1. ASSUME NEW T \in SUBSET S PROVE AccountBalance(a, T) \in Int
    <3>1. T \in SUBSET Req /\ IsFiniteSet(T)
      BY <1>0, FS_Subset
    <3>2. Booked(T, a) \in Int
      BY <3>1, BookedType
    <3> QED BY <3>2 DEF AccountBalance, Booked, SignedNet
  <2> QED BY <2>1
<1>2. ASSUME ~ Cardinality(L) > GL_MAX_LINES PROVE Included(L) = L
  <2> SUFFICES ASSUME NEW f \in L PROVE Cardinality({e \in L : Precedes(e, f)}) < GL_MAX_LINES
    BY DEF Included
  <2>1. Dated(f) \in Nat /\ journal[f].number \in Nat
    <3>1. journal[f].date \in Periods /\ journal[f] \in EntryRow
      BY <1>0 DEF Inv, IInv, TypeOK, RowOK, Posted
    <3> QED BY <3>1, ReportsAssumption DEF Dated, EntryRow
  <2>2. ~Precedes(f, f)
    BY <2>1 DEF Precedes
  <2> DEFINE P == {e \in L : Precedes(e, f)}
  <2>3. P \in SUBSET (L \ {f})
    BY <2>2
  <2> HIDE DEF P, L
  <2>4. /\ IsFiniteSet(L \ {f}) /\ Cardinality(L \ {f}) = Cardinality(L) - 1
        /\ Cardinality(L) \in Nat
    BY <1>0, FS_RemoveElement, FS_CardinalityType
  <2>5. Cardinality(P) <= Cardinality(L \ {f}) /\ Cardinality(P) \in Nat
    BY <2>3, <2>4, FS_Subset, FS_CardinalityType
  <2>6. Cardinality(P) < GL_MAX_LINES
    BY <1>2, <2>4, <2>5, ReportsAssumption
  <2> QED BY <2>6 DEF P
<1>3. AccountBalance(a, L) = AccountBalance(a, S)
  <2> DEFINE v == [e \in S |-> lines[e][a]]
             w == [e \in L |-> lines[e][a]]
  <2>1. (\A e \in S : v[e] \in Int) /\ (\A e \in S \ L : v[e] = 0) /\ \A e \in L : v[e] = w[e]
    BY <1>0 DEF Lines, LinesOf, Used
  <2>2. /\ AccountBalance(a, S) = SignedNet(a, SumOver(v, S))
        /\ AccountBalance(a, L) = SignedNet(a, SumOver(w, L))
    BY DEF AccountBalance
  <2> HIDE DEF v, w, L
  <2>3. SumOver(v, S) = SumOver(v, L)
    BY <1>0, <2>1, SumSupport
  <2>4. SumOver(v, L) = SumOver(w, L)
    BY <1>0, <2>1, SumSame
  <2> QED BY <2>2, <2>3, <2>4
<1> HIDE DEF L
<1>4. AccountBalance(a, Included(L)) \in Int /\ AccountBalance(a, S) \in Int
  BY <1>0, <1>1
<1> QED BY <1>2, <1>3, <1>4 DEF L

\* Queries move the report only.
LEMMA QuerySets ==
  ASSUME UNCHANGED <<journal, lines>>, rep'.from = rep.from, rep'.to = rep.to,
         rep'.account = rep.account, NEW i, NEW W, rep'.saw[i] = W
  PROVE  /\ CashMoved(Earlier(rep.saw[i]))' = CashMoved(Earlier(W))
         /\ CashMoved(InRange(rep.saw[i]))' = CashMoved(InRange(W))
         /\ CashMoved(UpTo(rep.saw[i]))' = CashMoved(UpTo(W))
         /\ AccountBalance(rep.account, Earlier(rep.saw[i]))' = AccountBalance(rep.account, Earlier(W))
         /\ AccountBalance(rep.account, InRange(rep.saw[i]))' = AccountBalance(rep.account, InRange(W))
         /\ AccountBalance(rep.account, UpTo(rep.saw[i]))' = AccountBalance(rep.account, UpTo(W))
<1>1. /\ Earlier(rep.saw[i])' = Earlier(W)
      /\ InRange(rep.saw[i])' = InRange(W)
      /\ UpTo(rep.saw[i])' = UpTo(W)
  BY DEF Earlier, InRange, UpTo, Dated
<1> QED BY <1>1 DEF CashMoved, BookedOn, AccountBalance

\* What the entries posted now are, as a query sees them.
LEMMA SeenNow ==
  /\ Before(rep.from) = Earlier(Posted)
  /\ Between(rep.from, rep.to) = InRange(Posted)
  /\ AsOf(rep.to) = UpTo(Posted)
BY DEF Before, Between, AsOf, Earlier, InRange, UpTo

\* CashFlowService.generate keeps what its report says.
LEMMA CashFlowKeeps ==
  ASSUME DoubleEntry, IsFiniteSet(Posted), RepInv, CashFlowQuery, UNCHANGED vars
  PROVE  RepInv'
<1>0. /\ rep.kind = "cashFlow" /\ rep.step \in 1 .. 3 /\ ReportShape /\ SawGrows
      /\ UNCHANGED <<journal, lines, acct>> /\ rep.truncated \in BOOLEAN
  BY DEF CashFlowQuery, RepInv, ReportShape, vars, db
<1>1. Posted' = Posted /\ NothingLost' = NothingLost
  BY <1>0 DEF Posted, NothingLost, Used
<1> DEFINE V(v) == NothingLost => /\ rep.step = 1 => v = CashMoved(InRange(Posted))
                                  /\ rep.step = 2 => v = CashMoved(Earlier(Posted))
                                  /\ rep.step = 3 => v = CashMoved(UpTo(Posted))
<1>2. ASSUME NEW v \in Int, Got(v), V(v)
      PROVE  RepInv'
  <2>1. rep' = OneMore(rep, v, Posted, rep.truncated)
    BY <1>0, <1>2, GotAppends
  <2>2. /\ ReportShape' /\ SawGrows'
        /\ rep'.step = rep.step + 1 /\ rep'.kind = rep.kind /\ rep'.account = rep.account
        /\ rep'.from = rep.from /\ rep'.to = rep.to
        /\ rep'.got[rep.step] = v /\ rep'.saw[rep.step] = Posted
        /\ \A i \in 1 .. rep.step - 1 : rep'.got[i] = rep.got[i] /\ rep'.saw[i] = rep.saw[i]
    BY <1>0, <1>1, <2>1, QueryKeeps
  <2>3. /\ CashMoved(InRange(rep.saw[1]))' =
             IF rep.step = 1 THEN CashMoved(InRange(Posted)) ELSE CashMoved(InRange(rep.saw[1]))
        /\ rep.step > 1 =>
             CashMoved(Earlier(rep.saw[2]))' =
               IF rep.step = 2 THEN CashMoved(Earlier(Posted)) ELSE CashMoved(Earlier(rep.saw[2]))
        /\ rep.step > 2 => CashMoved(UpTo(rep.saw[3]))' = CashMoved(UpTo(Posted))
    <3>1. rep'.saw[1] = IF rep.step = 1 THEN Posted ELSE rep.saw[1]
      BY <1>0, <2>2
    <3>2. rep.step > 1 => rep'.saw[2] = IF rep.step = 2 THEN Posted ELSE rep.saw[2]
      BY <1>0, <2>2
    <3>3. rep.step > 2 => rep'.saw[3] = Posted
      BY <1>0, <2>2
    <3> QED BY <1>0, <2>2, <3>1, <3>2, <3>3, QuerySets
  <2>4. /\ rep'.got[1] = IF rep.step = 1 THEN v ELSE rep.got[1]
        /\ rep.step > 1 => rep'.got[2] = IF rep.step = 2 THEN v ELSE rep.got[2]
        /\ rep.step > 2 => rep'.got[3] = v
    BY <1>0, <2>2
  <2>5. CashFlowSoFar'
    BY <1>0, <1>1, <1>2, <2>2, <2>3, <2>4 DEF RepInv, CashFlowSoFar
  <2>6. LedgerSoFar'
    BY <1>0, <2>2 DEF LedgerSoFar
  <2> QED BY <2>2, <2>5, <2>6 DEF RepInv
<1> HIDE DEF V
<1>3. \A W \in SUBSET Posted :
        /\ NetChange(GroupedBalances(W)) \in Int /\ CashBalance(GroupedBalances(W)) \in Int
        /\ NothingLost => /\ NetChange(GroupedBalances(W)) = CashMoved(W)
                          /\ CashBalance(GroupedBalances(W)) = CashMoved(W)
  BY BalanceQueries
<1>4. InRange(Posted) \in SUBSET Posted /\ Earlier(Posted) \in SUBSET Posted /\ UpTo(Posted) \in SUBSET Posted
  BY DEF InRange, Earlier, UpTo
<1>5. CASE rep.step = 1 /\ Got(NetChange(GroupedBalances(Between(rep.from, rep.to))))
  BY <1>2, <1>3, <1>4, <1>5, SeenNow DEF V
<1>6. CASE rep.step = 2 /\ Got(OpeningCash(rep.from))
  BY <1>2, <1>3, <1>4, <1>6, SeenNow DEF V, OpeningCash
<1>7. CASE rep.step = 3 /\ Got(CashBalance(BalancesAsOf(rep.to)))
  BY <1>2, <1>3, <1>4, <1>7, SeenNow DEF V, BalancesAsOf
<1> QED BY <1>5, <1>6, <1>7 DEF CashFlowQuery

\* GeneralLedgerService.generate keeps what its report says.
LEMMA LedgerKeeps ==
  ASSUME Inv, DoubleEntry, IsFiniteSet(Posted), RepInv, GeneralLedgerQuery, UNCHANGED vars
  PROVE  RepInv'
<1> DEFINE a == rep.account
<1>0. /\ rep.kind = "generalLedger" /\ ReportShape /\ SawGrows /\ a \in Accounts
      /\ UNCHANGED <<journal, lines, acct>> /\ rep.truncated \in BOOLEAN
  BY DEF GeneralLedgerQuery, RepInv, ReportShape, vars, db
<1>1. Posted' = Posted
  BY <1>0 DEF Posted
<1> DEFINE V(v, cut) == /\ rep.step = 1 => v = AccountBalance(a, Earlier(Posted))
                        /\ rep.step = 2 /\ ~cut => v = AccountBalance(a, InRange(Posted))
                        /\ rep.step = 3 => v = AccountBalance(a, UpTo(Posted))
                        /\ rep.step = 3 => cut = rep.truncated
<1>2. ASSUME NEW v \in Int, NEW cut \in BOOLEAN, rep.step \in 1 .. 3,
             rep' = OneMore(rep, v, Posted, cut), V(v, cut)
      PROVE  RepInv'
  <2>2. /\ ReportShape' /\ SawGrows'
        /\ rep'.step = rep.step + 1 /\ rep'.kind = rep.kind /\ rep'.account = rep.account
        /\ rep'.from = rep.from /\ rep'.to = rep.to /\ rep'.truncated = cut
        /\ rep'.got[rep.step] = v /\ rep'.saw[rep.step] = Posted
        /\ \A i \in 1 .. rep.step - 1 : rep'.got[i] = rep.got[i] /\ rep'.saw[i] = rep.saw[i]
    BY <1>0, <1>1, <1>2, QueryKeeps
  <2>3. /\ AccountBalance(rep.account, Earlier(rep.saw[1]))' =
             IF rep.step = 1 THEN AccountBalance(a, Earlier(Posted))
             ELSE AccountBalance(a, Earlier(rep.saw[1]))
        /\ rep.step > 1 =>
             AccountBalance(rep.account, InRange(rep.saw[2]))' =
               IF rep.step = 2 THEN AccountBalance(a, InRange(Posted))
               ELSE AccountBalance(a, InRange(rep.saw[2]))
        /\ rep.step > 2 =>
             AccountBalance(rep.account, UpTo(rep.saw[3]))' = AccountBalance(a, UpTo(Posted))
    <3>1. rep'.saw[1] = IF rep.step = 1 THEN Posted ELSE rep.saw[1]
      BY <1>2, <2>2
    <3>2. rep.step > 1 => rep'.saw[2] = IF rep.step = 2 THEN Posted ELSE rep.saw[2]
      BY <1>2, <2>2
    <3>3. rep.step > 2 => rep'.saw[3] = Posted
      BY <1>2, <2>2
    <3> QED BY <1>0, <2>2, <3>1, <3>2, <3>3, QuerySets
  <2>4. /\ rep'.got[1] = IF rep.step = 1 THEN v ELSE rep.got[1]
        /\ rep.step > 1 => rep'.got[2] = IF rep.step = 2 THEN v ELSE rep.got[2]
        /\ rep.step > 2 => rep'.got[3] = v
    BY <1>2, <2>2
  <2>5. LedgerSoFar'
    BY <1>0, <1>2, <2>2, <2>3, <2>4 DEF RepInv, LedgerSoFar
  <2>6. CashFlowSoFar'
    BY <1>0, <2>2 DEF CashFlowSoFar
  <2> QED BY <2>2, <2>5, <2>6 DEF RepInv
<1> HIDE DEF V
<1>3. ASSUME NEW W \in SUBSET Posted
      PROVE  /\ AccountBalance(a, W) \in Int
             /\ AccountBalance(a, Included(LinesOf(a, W))) \in Int
             /\ ~ Cardinality(LinesOf(a, W)) > GL_MAX_LINES =>
                  AccountBalance(a, Included(LinesOf(a, W))) = AccountBalance(a, W)
  <2>1. IsFiniteSet(W) /\ lines \in [Req -> Lines]
    BY FS_Subset DEF DoubleEntry
  <2> QED BY <1>0, <2>1, ListedBalance
<1>4. InRange(Posted) \in SUBSET Posted /\ Earlier(Posted) \in SUBSET Posted /\ UpTo(Posted) \in SUBSET Posted
  BY DEF InRange, Earlier, UpTo
<1>5. CASE rep' = [rep EXCEPT !.step = 5]
  <2>1. /\ rep'.step = 5 /\ rep'.kind = rep.kind /\ rep'.saw = rep.saw /\ rep'.from = rep.from
        /\ rep'.to = rep.to /\ rep'.account = rep.account
    BY <1>0, <1>5 DEF ReportShape
  <2>2. ReportShape'
    BY <1>0, <1>5, <2>1 DEF ReportShape
  <2>3. SawGrows'
    BY <1>0, <1>1, <2>1 DEF SawGrows
  <2>4. CashFlowSoFar' /\ LedgerSoFar'
    BY <2>1 DEF CashFlowSoFar, LedgerSoFar
  <2> QED BY <2>2, <2>3, <2>4 DEF RepInv
<1>6. CASE rep.step = 1 /\ Got(AccountBalance(a, Before(rep.from)))
  <2>1. rep' = OneMore(rep, AccountBalance(a, Earlier(Posted)), Posted, rep.truncated)
    BY <1>0, <1>6, GotAppends, SeenNow
  <2>2. V(AccountBalance(a, Earlier(Posted)), rep.truncated)
    BY <1>6 DEF V
  <2>3. AccountBalance(a, Earlier(Posted)) \in Int
    BY <1>3, <1>4
  <2> QED BY <1>0, <1>2, <1>6, <2>1, <2>2, <2>3
<1>7. CASE rep.step = 2 /\ GeneralLedgerLines(a)
  <2> DEFINE S == LinesOf(a, InRange(Posted))
             cut == Cardinality(S) > GL_MAX_LINES
             v == AccountBalance(a, Included(S))
  <2>1. GotLines(v, cut)
    BY <1>7, SeenNow DEF GeneralLedgerLines, GotLines
  <2>2. v \in Int /\ V(v, cut)
    BY <1>3, <1>4, <1>7 DEF V
  <2>3. cut \in BOOLEAN
    OBVIOUS
  <2> HIDE DEF v, cut, S
  <2>4. rep' = OneMore(rep, v, Posted, cut)
    BY <1>0, <2>1, GotLinesAppends
  <2> QED BY <1>2, <1>7, <2>2, <2>3, <2>4
<1>8. CASE rep.step = 3 /\ Got(AccountBalance(a, AsOf(rep.to)))
  <2>1. rep' = OneMore(rep, AccountBalance(a, UpTo(Posted)), Posted, rep.truncated)
    BY <1>0, <1>8, GotAppends, SeenNow
  <2>2. V(AccountBalance(a, UpTo(Posted)), rep.truncated)
    BY <1>8 DEF V
  <2>3. AccountBalance(a, UpTo(Posted)) \in Int
    BY <1>3, <1>4
  <2> QED BY <1>0, <1>2, <1>8, <2>1, <2>2, <2>3
<1> QED BY <1>5, <1>6, <1>7, <1>8 DEF GeneralLedgerQuery

-----------------------------------------------------------------------------
(* The inductive invariant of the ledger with its reports.                    *)

ReportsInv == Inv /\ JournalInv /\ IsFiniteSet(Posted) /\ RepInv

\* A request that turns out to be a report leaves the ledger as it is.
LEMMA StartKeepsLedger ==
  ASSUME Inv, JournalInv, NEW r \in Req, StartReport(r)
  PROVE  Inv' /\ JournalInv'
<1>0. TypeOK /\ ClosingRecordOK /\ Goto(r, "done") /\ UNCHANGED <<db, ctx, held>>
  BY DEF Inv, IInv, StartReport
<1>1. pc' \in [Req -> Labels] /\ pc'[r] = "done" /\ \A q \in Req \ {r} : pc'[q] = pc[q]
  BY <1>0 DEF TypeOK, Goto, Labels
<1>2. TypeOK' /\ ClosingRecordOK'
  BY <1>0, <1>1 DEF TypeOK, ClosingRecordOK, db, ctx
<1>3. Protected(r)
  BY <1>0 DEF Protected, IsDraft, LockedYear, db
<1>4. Inv'
  BY <1>0, <1>2, <1>3, JournalSameInv DEF db
<1>5. ASSUME NEW q \in Req PROVE Checked(q)'
  <2>1. CASE q = r
    BY <1>1, <2>1 DEF Checked, InFlight
  <2>2. CASE q # r
    BY <1>0, <1>1, <2>2 DEF JournalInv, Checked, InFlight, db, ctx
  <2> QED BY <2>1, <2>2
<1>6. DoubleEntry' /\ SegregationOfDuties'
  BY <1>0 DEF JournalInv, DoubleEntry, SegregationOfDuties, Posted, db, ctx
<1> QED BY <1>4, <1>5, <1>6 DEF JournalInv

\* A report starts with nothing.
Started(g, a) ==
  rep' = [NoReport EXCEPT !.step = 1, !.from = g[1], !.to = g[2], !.account = a,
                          !.kind = IF a = Null THEN "cashFlow" ELSE "generalLedger"]

LEMMA StartBegins ==
  ASSUME RepInv, NEW r \in Req, StartReport(r)
  PROVE  RepInv'
<1>1. PICK g \in Ranges, a \in Listed \cup {Null} : Started(g, a)
  BY Zenon DEF StartReport, Started
<1>2. /\ g[1] \in Periods /\ g[2] \in Periods /\ PeriodNo[g[1]] <= PeriodNo[g[2]]
      /\ a \in Accounts \cup {Null} /\ (a # Null => a \in Accounts)
  BY ReportsAssumption
<1>3. /\ rep'.step = 1 /\ rep'.from = g[1] /\ rep'.to = g[2] /\ rep'.account = a
      /\ rep'.kind = IF a = Null THEN "cashFlow" ELSE "generalLedger"
      /\ rep'.got = <<>> /\ rep'.saw = <<>>
  BY <1>1 DEF Started, NoReport
<1>4. ReportShape'
  <2>1. rep' = [step |-> 1, kind |-> IF a = Null THEN "cashFlow" ELSE "generalLedger",
                from |-> g[1], to |-> g[2], account |-> a, got |-> <<>>, saw |-> <<>>,
                truncated |-> FALSE]
    BY <1>1 DEF Started, NoReport
  <2>2. rep' \in [step : 0 .. 5, kind : {"none", "cashFlow", "generalLedger"},
                  from : Periods \cup {Null}, to : Periods \cup {Null},
                  account : Accounts \cup {Null}, got : Seq(Int), saw : Seq(SUBSET Req),
                  truncated : BOOLEAN]
    BY <1>2, <2>1
  <2> QED BY <1>2, <1>3, <2>2 DEF ReportShape
<1>5. SawGrows'
  BY <1>3 DEF SawGrows
<1>6. CashFlowSoFar' /\ LedgerSoFar'
  BY <1>3 DEF CashFlowSoFar, LedgerSoFar
<1> QED BY <1>4, <1>5, <1>6 DEF RepInv

LEMMA ReportsInit ==
  ASSUME RInit
  PROVE  ReportsInv
<1>0. Init /\ rep = NoReport
  BY DEF RInit
<1>1. Inv /\ JournalInv /\ IsFiniteSet(Posted)
  BY <1>0, InitInv, JournalInit, FS_EmptySet
<1>2. ReportShape
  BY <1>0 DEF ReportShape, NoReport
<1>3. SawGrows /\ CashFlowSoFar /\ LedgerSoFar
  BY <1>0 DEF SawGrows, CashFlowSoFar, LedgerSoFar, NoReport
<1> QED BY <1>1, <1>2, <1>3 DEF ReportsInv, RepInv

LEMMA ReportsNext ==
  ASSUME ReportsInv, [RNext]_<<vars, rep>>
  PROVE  ReportsInv'
<1>0. Inv /\ JournalInv /\ DoubleEntry /\ IsFiniteSet(Posted) /\ RepInv
  BY DEF ReportsInv, JournalInv
<1>1. ASSUME UNCHANGED vars
      PROVE  /\ Inv' /\ JournalInv' /\ IsFiniteSet(Posted')
             /\ Posted' = Posted /\ NothingLost' = NothingLost
             /\ UNCHANGED <<journal, lines>>
  <2>1. UNCHANGED <<journal, lines, acct>> /\ [Next]_vars
    BY <1>1 DEF vars, db
  <2>2. Posted' = Posted /\ NothingLost' = NothingLost
    BY <2>1 DEF Posted, NothingLost, Used
  <2> QED BY <1>0, <2>1, <2>2, NextInv, JournalNext
<1>2. ASSUME NEW r \in Req, Move(r), UNCHANGED rep PROVE ReportsInv'
  <2>1. [Next]_vars
    BY <1>2 DEF Next, Move
  <2>2. Inv' /\ JournalInv'
    BY <1>0, <2>1, NextInv, JournalNext
  <2>3. /\ Posted \subseteq Posted' /\ IsFiniteSet(Posted')
        /\ \A e \in Posted : lines'[e] = lines[e] /\ journal'[e].date = journal[e].date
    BY <1>0, <1>2, PostedStays
  <2>4. NothingLost' => NothingLost
    BY <1>0, <1>2, LostStaysLost
  <2>5. RepInv'
    BY <1>0, <1>2, <2>3, <2>4, ReportStays
  <2> QED BY <2>2, <2>3, <2>5 DEF ReportsInv
<1>3. CASE UNCHANGED <<vars, rep>>
  <2>1. UNCHANGED vars /\ UNCHANGED rep
    BY <1>3
  <2>2. RepInv'
    BY <1>0, <1>1, <2>1, ReportStays
  <2> QED BY <1>1, <2>1, <2>2 DEF ReportsInv
<1>4. ASSUME NEW r \in Req, StartReport(r) PROVE ReportsInv'
  <2>1. Posted' = Posted
    BY <1>4 DEF StartReport, Posted, db
  <2> QED BY <1>0, <1>4, <2>1, StartKeepsLedger, StartBegins DEF ReportsInv
<1>5. CASE Query
  <2>1. RepInv'
    BY <1>0, <1>5, CashFlowKeeps, LedgerKeeps DEF Query
  <2> QED BY <1>1, <1>5, <2>1 DEF Query, ReportsInv
<1>6. CASE Next /\ UNCHANGED rep
  <2>1. UNCHANGED vars => UNCHANGED <<vars, rep>>
    BY <1>6
  <2> QED BY <1>2, <1>3, <1>6, <2>1 DEF Next, Move, Idle
<1> QED BY <1>3, <1>4, <1>5, <1>6 DEF RNext

-----------------------------------------------------------------------------
(* What the reports of several queries show.                                  *)

\* What the entries have is what some of them have and what the others have.
LEMMA BookedSplit ==
  ASSUME lines \in [Req -> Lines], NEW S \in SUBSET Req, IsFiniteSet(S), NEW T \in SUBSET S,
         NEW a \in Accounts
  PROVE  Booked(S, a) = Booked(T, a) + Booked(S \ T, a)
<1> DEFINE v == [e \in S |-> lines[e][a]]
           w == [e \in T |-> lines[e][a]]
           u == [e \in S \ T |-> lines[e][a]]
<1>1. /\ \A e \in S : v[e] \in Int
      /\ \A e \in T : v[e] = w[e]
      /\ \A e \in S \ T : v[e] = u[e]
  BY DEF Lines
<1>2. IsFiniteSet(T) /\ IsFiniteSet(S \ T)
  BY FS_Subset
<1>3. Booked(S, a) = SumOver(v, S) /\ Booked(T, a) = SumOver(w, T) /\ Booked(S \ T, a) = SumOver(u, S \ T)
  BY DEF Booked
<1> HIDE DEF v, w, u
<1>4. SumOver(v, S) = SumOver(v, T) + SumOver(v, S \ T)
  BY <1>1, SumSplit
<1>5. SumOver(v, T) = SumOver(w, T) /\ SumOver(v, S \ T) = SumOver(u, S \ T)
  BY <1>1, <1>2, SumSame
<1> QED BY <1>3, <1>4, <1>5

LEMMA BookedOnSplit ==
  ASSUME lines \in [Req -> Lines], NEW S \in SUBSET Req, IsFiniteSet(S), NEW T \in SUBSET S,
         NEW R \in SUBSET Accounts
  PROVE  BookedOn(S, R) = BookedOn(T, R) + BookedOn(S \ T, R)
<1> DEFINE v == [e \in S |-> SumOver(lines[e], R)]
           w == [e \in T |-> SumOver(lines[e], R)]
           u == [e \in S \ T |-> SumOver(lines[e], R)]
<1>1. /\ \A e \in S : v[e] \in Int
      /\ \A e \in T : v[e] = w[e]
      /\ \A e \in S \ T : v[e] = u[e]
  <2>1. ASSUME NEW e \in S PROVE SumOver(lines[e], R) \in Int
    BY BookedOnOneMore
  <2> QED BY <2>1
<1>2. IsFiniteSet(T) /\ IsFiniteSet(S \ T)
  BY FS_Subset
<1>3. /\ BookedOn(S, R) = SumOver(v, S) /\ BookedOn(T, R) = SumOver(w, T)
      /\ BookedOn(S \ T, R) = SumOver(u, S \ T)
  BY DEF BookedOn
<1> HIDE DEF v, w, u
<1>4. SumOver(v, S) = SumOver(v, T) + SumOver(v, S \ T)
  BY <1>1, SumSplit
<1>5. SumOver(v, T) = SumOver(w, T) /\ SumOver(v, S \ T) = SumOver(u, S \ T)
  BY <1>1, <1>2, SumSame
<1> QED BY <1>3, <1>4, <1>5

\* What the last query saw up to the end of the range is what query b saw before
\* it, what query i saw in it, and what came late.
LEMMA RangeParts ==
  ASSUME Inv, RepInv, rep.kind # "none", rep.step = 4, NEW b \in 1 .. 2, NEW i \in 1 .. 2
  PROVE  /\ UpTo(rep.saw[3]) \in SUBSET Posted
         /\ Earlier(rep.saw[b]) \in SUBSET UpTo(rep.saw[3])
         /\ InRange(rep.saw[i]) \in SUBSET (UpTo(rep.saw[3]) \ Earlier(rep.saw[b]))
         /\ Late(b, i) = (UpTo(rep.saw[3]) \ Earlier(rep.saw[b])) \ InRange(rep.saw[i])
<1>1. /\ rep.from \in Periods /\ rep.to \in Periods /\ PeriodNo[rep.from] <= PeriodNo[rep.to]
      /\ DOMAIN rep.saw = 1 .. 3
  BY DEF RepInv, ReportShape
<1>2. rep.saw[b] \subseteq rep.saw[3] /\ rep.saw[i] \subseteq rep.saw[3] /\ rep.saw[3] \subseteq Posted
  BY <1>1 DEF RepInv, SawGrows
<1>3. \A e \in Posted : Dated(e) \in Int
  <2>1. ASSUME NEW e \in Posted PROVE journal[e].date \in Periods
    BY DEF Inv, IInv, RowOK, Posted
  <2> QED BY <2>1, ReportsAssumption DEF Dated
<1>4. PeriodNo[rep.from] \in Int /\ PeriodNo[rep.to] \in Int
  BY <1>1, ReportsAssumption
<1>5. /\ UpTo(rep.saw[3]) \in SUBSET Posted
      /\ Earlier(rep.saw[b]) \in SUBSET UpTo(rep.saw[3])
      /\ InRange(rep.saw[i]) \in SUBSET (UpTo(rep.saw[3]) \ Earlier(rep.saw[b]))
  BY <1>1, <1>2, <1>3, <1>4 DEF Earlier, InRange, UpTo
<1>6. ASSUME NEW e
      PROVE  e \in Late(b, i) <=> e \in (UpTo(rep.saw[3]) \ Earlier(rep.saw[b])) \ InRange(rep.saw[i])
  <2>1. CASE e \in Posted
    BY <1>2, <1>3, <1>4, <2>1 DEF Late, Before, AsOf, Earlier, InRange, UpTo
  <2>2. CASE e \notin Posted
    BY <1>2, <2>2 DEF Late, UpTo
  <2> QED BY <2>1, <2>2
<1> QED BY <1>5, <1>6

\* In one state: a cash flow statement reconciles but for the cash that was moved
\* between its queries.
LEMMA CashFlowNow ==
  ASSUME ReportsInv
  PROVE  CashFlowExplained
<1> SUFFICES ASSUME rep.kind = "cashFlow", rep.step = 4, NothingLost
             PROVE  rep.got[3] - rep.got[2] - rep.got[1]
                      = SumOver([e \in Late(2, 1) |-> CashBalance(lines[e])], Late(2, 1))
  BY DEF CashFlowExplained
<1> DEFINE U == UpTo(rep.saw[3])
           E == Earlier(rep.saw[2])
           I == InRange(rep.saw[1])
           C == With("role", "CASH")
<1>0. Inv /\ RepInv /\ lines \in [Req -> Lines] /\ IsFiniteSet(Posted) /\ C \in SUBSET Accounts
  BY DEF ReportsInv, JournalInv, DoubleEntry, With
<1>1. rep.got[1] = BookedOn(I, C) /\ rep.got[2] = BookedOn(E, C) /\ rep.got[3] = BookedOn(U, C)
  BY <1>0 DEF RepInv, CashFlowSoFar, CashMoved
<1>2. /\ U \in SUBSET Posted /\ E \in SUBSET U /\ I \in SUBSET (U \ E)
      /\ Late(2, 1) = (U \ E) \ I
  BY <1>0, RangeParts
<1>3. SumOver([e \in Late(2, 1) |-> CashBalance(lines[e])], Late(2, 1)) = BookedOn(Late(2, 1), C)
  BY TotalIsSum DEF CashBalance, BookedOn
<1> HIDE DEF U, E, I, C
<1>4. /\ U \in SUBSET Req /\ IsFiniteSet(U) /\ IsFiniteSet(U \ E) /\ U \ E \in SUBSET Req
      /\ E \in SUBSET Req /\ I \in SUBSET Req /\ IsFiniteSet(E) /\ IsFiniteSet(I)
      /\ (U \ E) \ I \in SUBSET Req /\ IsFiniteSet((U \ E) \ I)
  BY <1>0, <1>2, FS_Subset DEF Posted
<1>5. BookedOn(U, C) = BookedOn(E, C) + BookedOn(U \ E, C)
  BY <1>0, <1>2, <1>4, BookedOnSplit
<1>6. BookedOn(U \ E, C) = BookedOn(I, C) + BookedOn((U \ E) \ I, C)
  BY <1>0, <1>2, <1>4, BookedOnSplit
<1>7. BookedOn(E, C) \in Int /\ BookedOn(I, C) \in Int /\ BookedOn((U \ E) \ I, C) \in Int
  BY <1>0, <1>4, BookedType
<1>8. rep.got[3] - rep.got[2] - rep.got[1] = BookedOn((U \ E) \ I, C)
  BY <1>1, <1>5, <1>6, <1>7
<1> QED BY Zenon, <1>2, <1>3, <1>8

\* In one state: what a general ledger opened with and listed is what it closed
\* with, but for what was posted on the account between its queries.
LEMMA LedgerNow ==
  ASSUME ReportsInv
  PROVE  LedgerExplained
<1> SUFFICES ASSUME rep.kind = "generalLedger", rep.step = 4, ~rep.truncated
             PROVE  rep.got[3] - rep.got[2] - rep.got[1] = AccountBalance(rep.account, Late(1, 2))
  BY DEF LedgerExplained
<1> DEFINE U == UpTo(rep.saw[3])
           E == Earlier(rep.saw[1])
           I == InRange(rep.saw[2])
           a == rep.account
<1>0. Inv /\ RepInv /\ lines \in [Req -> Lines] /\ IsFiniteSet(Posted) /\ a \in Accounts
  BY DEF ReportsInv, JournalInv, DoubleEntry, RepInv, ReportShape
<1>1. /\ rep.got[1] = SignedNet(a, Booked(E, a)) /\ rep.got[2] = SignedNet(a, Booked(I, a))
      /\ rep.got[3] = SignedNet(a, Booked(U, a))
  BY <1>0 DEF RepInv, LedgerSoFar, AccountBalance, Booked
<1>2. /\ U \in SUBSET Posted /\ E \in SUBSET U /\ I \in SUBSET (U \ E)
      /\ Late(1, 2) = (U \ E) \ I
  BY <1>0, RangeParts
<1>3. AccountBalance(a, Late(1, 2)) = SignedNet(a, Booked(Late(1, 2), a))
  BY DEF AccountBalance, Booked
<1> HIDE DEF U, E, I, a
<1>4. /\ U \in SUBSET Req /\ IsFiniteSet(U) /\ IsFiniteSet(U \ E) /\ U \ E \in SUBSET Req
      /\ E \in SUBSET Req /\ I \in SUBSET Req /\ IsFiniteSet(E) /\ IsFiniteSet(I)
      /\ (U \ E) \ I \in SUBSET Req /\ IsFiniteSet((U \ E) \ I)
  BY <1>0, <1>2, FS_Subset DEF Posted
<1>5. Booked(U, a) = Booked(E, a) + Booked(U \ E, a)
  BY <1>0, <1>2, <1>4, BookedSplit
<1>6. Booked(U \ E, a) = Booked(I, a) + Booked((U \ E) \ I, a)
  BY <1>0, <1>2, <1>4, BookedSplit
<1>7. Booked(E, a) \in Int /\ Booked(I, a) \in Int /\ Booked((U \ E) \ I, a) \in Int
  BY <1>0, <1>4, BookedType
<1>8. rep.got[3] - rep.got[2] - rep.got[1] = SignedNet(a, Booked((U \ E) \ I, a))
  BY <1>1, <1>5, <1>6, <1>7 DEF SignedNet
<1> QED BY <1>2, <1>3, <1>8 DEF a

-----------------------------------------------------------------------------
(* The theorems. *)

\* A ledger that reports are made from keeps its invariant, and each report what
\* its queries returned and saw.
THEOREM ReportsInductive == RSpec => []ReportsInv
BY ReportsInit, ReportsNext, PTL DEF RSpec

\* Double entry, gapless numbering and segregation of duties hold of a ledger with
\* reports as they do without: a report writes nothing.
THEOREM ReportsWriteNothing ==
  RSpec => [](TypeOK /\ GaplessNumbering /\ DoubleEntry /\ SegregationOfDuties)
<1>1. ReportsInv => TypeOK /\ GaplessNumbering /\ DoubleEntry /\ SegregationOfDuties
  BY DEF ReportsInv, Inv, IInv, JournalInv
<1> QED BY <1>1, ReportsInductive, PTL

\* BalanceSheetService and IncomeStatementService: the balance sheet balances on
\* every date and shows the earnings of the income statement, for any entries and
\* whichever years are closed, as long as no posted line is on a deleted account.
THEOREM StatementsAlwaysAgree == RSpec => []StatementsAgree
<1>1. ReportsInv => StatementsAgree
  BY AgreeNow DEF ReportsInv, JournalInv
<1> QED BY <1>1, ReportsInductive, PTL

\* CashFlowService: a statement of three separate queries is out by exactly the
\* cash moved by the entries that were committed between them.
THEOREM CashFlowIsExplained == RSpec => []CashFlowExplained
<1>1. ReportsInv => CashFlowExplained
  BY CashFlowNow
<1> QED BY <1>1, ReportsInductive, PTL

\* GeneralLedgerService: opening balance and lines add up to the closing balance
\* but for the entries committed between the queries, unless the list was cut.
THEOREM LedgerIsExplained == RSpec => []LedgerExplained
<1>1. ReportsInv => LedgerExplained
  BY LedgerNow
<1> QED BY <1>1, ReportsInductive, PTL
=============================================================================
