------------------------------- MODULE Chart --------------------------------
(***************************************************************************)
(* What the services start from: the SAK-aligned chart of accounts          *)
(* (chart-of-accounts.seed.ts), the tax codes (tax-codes.seed.ts) and the   *)
(* rules that accounts and tax codes obey.  An amount of a rate is in       *)
(* hundredths.                                                              *)
(***************************************************************************)
EXTENDS Naturals, FiniteSets

\* The subtypes that each type of account admits.
TYPE_SUBTYPES ==
  [ASSET     |-> {"CURRENT_ASSET", "NON_CURRENT_ASSET", "FIXED_ASSET",
                  "ACCUMULATED_DEPRECIATION", "TAX_RECEIVABLE"},
   LIABILITY |-> {"CURRENT_LIABILITY", "NON_CURRENT_LIABILITY", "TAX_PAYABLE"},
   EQUITY    |-> {"EQUITY"},
   REVENUE   |-> {"REVENUE", "OTHER_INCOME"},
   EXPENSE   |-> {"COGS", "OPERATING_EXPENSE", "OTHER_EXPENSE"}]

\* AccountRole: the roles that services look accounts up by.  All but CASH are
\* held by one account.
SingletonRoles ==
  {"AR_CONTROL", "AP_CONTROL", "RETAINED_EARNINGS", "OPENING_BALANCE_EQUITY", "TAX_EXPENSE"}

\* A non-postable header, and a postable leaf under one.
Header(code, type, subtype, normal) ==
  [code |-> code, type |-> type, subtype |-> subtype, normal |-> normal,
   category |-> "NONE", role |-> "NONE", postable |-> FALSE, parent |-> "NONE"]
Leaf(code, type, subtype, normal, category, role, parent) ==
  [code |-> code, type |-> type, subtype |-> subtype, normal |-> normal,
   category |-> category, role |-> role, postable |-> TRUE, parent |-> parent]

\* The five sections of the seed.
Assets ==
  { Header("1-0000", "ASSET", "CURRENT_ASSET", "DEBIT"),
    Leaf("1-1000", "ASSET", "CURRENT_ASSET", "DEBIT", "OPERATING", "CASH", "1-0000"),
    Leaf("1-1100", "ASSET", "CURRENT_ASSET", "DEBIT", "OPERATING", "CASH", "1-0000"),
    Leaf("1-1200", "ASSET", "CURRENT_ASSET", "DEBIT", "OPERATING", "AR_CONTROL", "1-0000"),
    Leaf("1-1300", "ASSET", "CURRENT_ASSET", "DEBIT", "OPERATING", "NONE", "1-0000"),
    Leaf("1-1400", "ASSET", "TAX_RECEIVABLE", "DEBIT", "OPERATING", "NONE", "1-0000"),
    Leaf("1-1500", "ASSET", "TAX_RECEIVABLE", "DEBIT", "OPERATING", "NONE", "1-0000"),
    Leaf("1-1800", "ASSET", "CURRENT_ASSET", "DEBIT", "OPERATING", "NONE", "1-0000"),
    Leaf("1-2000", "ASSET", "FIXED_ASSET", "DEBIT", "INVESTING", "NONE", "1-0000"),
    Leaf("1-2900", "ASSET", "ACCUMULATED_DEPRECIATION", "CREDIT", "INVESTING", "NONE", "1-0000") }

Liabilities ==
  { Header("2-0000", "LIABILITY", "CURRENT_LIABILITY", "CREDIT"),
    Leaf("2-1000", "LIABILITY", "CURRENT_LIABILITY", "CREDIT", "OPERATING", "AP_CONTROL", "2-0000"),
    Leaf("2-1100", "LIABILITY", "TAX_PAYABLE", "CREDIT", "OPERATING", "NONE", "2-0000"),
    Leaf("2-1200", "LIABILITY", "TAX_PAYABLE", "CREDIT", "OPERATING", "NONE", "2-0000"),
    Leaf("2-2000", "LIABILITY", "NON_CURRENT_LIABILITY", "CREDIT", "FINANCING", "NONE", "2-0000") }

Equities ==
  { Header("3-0000", "EQUITY", "EQUITY", "CREDIT"),
    Leaf("3-1000", "EQUITY", "EQUITY", "CREDIT", "FINANCING", "NONE", "3-0000"),
    Leaf("3-2000", "EQUITY", "EQUITY", "CREDIT", "FINANCING", "RETAINED_EARNINGS", "3-0000"),
    Leaf("3-9000", "EQUITY", "EQUITY", "CREDIT", "NONE", "OPENING_BALANCE_EQUITY", "3-0000") }

Revenues ==
  { Header("4-0000", "REVENUE", "REVENUE", "CREDIT"),
    Leaf("4-1000", "REVENUE", "REVENUE", "CREDIT", "OPERATING", "NONE", "4-0000"),
    Leaf("4-9000", "REVENUE", "OTHER_INCOME", "CREDIT", "OPERATING", "NONE", "4-0000") }

Expenses ==
  { Header("5-0000", "EXPENSE", "OPERATING_EXPENSE", "DEBIT"),
    Leaf("5-1000", "EXPENSE", "COGS", "DEBIT", "OPERATING", "NONE", "5-0000"),
    Leaf("5-2000", "EXPENSE", "OPERATING_EXPENSE", "DEBIT", "OPERATING", "NONE", "5-0000"),
    Leaf("5-3000", "EXPENSE", "OPERATING_EXPENSE", "DEBIT", "OPERATING", "NONE", "5-0000"),
    Leaf("5-4000", "EXPENSE", "OPERATING_EXPENSE", "DEBIT", "OPERATING", "NONE", "5-0000"),
    Leaf("5-9000", "EXPENSE", "OTHER_EXPENSE", "DEBIT", "OPERATING", "TAX_EXPENSE", "5-0000") }

CHART_OF_ACCOUNTS == Assets \cup Liabilities \cup Equities \cup Revenues \cup Expenses

\* The account of the chart with a given code.
SeedAccount(code) == CHOOSE a \in CHART_OF_ACCOUNTS : a.code = code

TAX_CODE_SEED ==
  { [code |-> "PPN-OUT-11", kind |-> "PPN_OUTPUT",  rate |-> 11, account |-> "2-1100"],
    [code |-> "PPN-IN-11",  kind |-> "PPN_INPUT",   rate |-> 11, account |-> "1-1400"],
    [code |-> "PPH23-PAY",  kind |-> "PPH_PAYABLE", rate |-> 2,  account |-> "2-1200"],
    [code |-> "PPH23-PRE",  kind |-> "PPH_PREPAID", rate |-> 2,  account |-> "1-1500"],
    [code |-> "PPH42-PAY",  kind |-> "PPH_PAYABLE", rate |-> 10, account |-> "2-1200"],
    [code |-> "PPH42-PRE",  kind |-> "PPH_PREPAID", rate |-> 10, account |-> "1-1500"] }

\* requiredNormalBalance: input tax and prepaid withholding are debited, the
\* others credited.
RequiredNormalBalance(kind) ==
  IF kind \in {"PPN_INPUT", "PPH_PREPAID"} THEN "DEBIT" ELSE "CREDIT"

\* validateRate: strictly between 0 and 1.
ValidRate(rate) == 0 < rate /\ rate < 100
=============================================================================
