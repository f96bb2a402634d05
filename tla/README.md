# Verification of the accounting API

TLA+ models, TLC configurations and TLAPS proofs for the double-entry
accounting API: a NestJS application over one PostgreSQL database. The
application keeps next to nothing in memory. Its state is the database, its
processes are HTTP handlers, and what makes it hard is that a handler is a
sequence of statements, the first of them outside any transaction, between
which other handlers run.

Paths below are relative to the repository (`src/ledger/...` is the
application's own source tree).

## The system

| Component | State | Operations | Interacts with |
|---|---|---|---|
| Posting and journal (`ledger/posting`, `ledger/journal`, `ledger/document-lifecycle.service.ts`, `common/db/sequence.ts`) | `journal_entries`, `journal_lines`, `journal_sequences` | create, delete and post a draft; post directly; opening balances; reverse | called by documents, payments and year-end close; reads periods, closings, company, accounts |
| Accounting periods (`ledger/periods`) | `accounting_periods` | generate, close, reopen, find the open period of a date | row locks shared with posting |
| Year-end close (`close`) | `year_end_closings` | close (with and without a closing entry), reopen | balances, posting, the advisory lock of the year |
| Balances and reports (`ledger/balances`, `reporting`) | none | trial balance, movements, balance sheet, income statement, cash flow, general ledger, aging | read the posted journal, the chart and the documents, some in several queries |
| Invoices, bills, payments (`invoicing`) | documents with lines, payments with allocations, `document_sequences` | create, update, delete, post and void a document; create, delete, post and void a payment | posting (two-phase), tax, partners |
| Tax (`tax`, `common/money`) | `tax_codes` | code maintenance, calculate | called by documents; its codes refer to accounts |
| Idempotency (`common/idempotency`, request timeout) | `idempotency_keys` | reserve, reclaim, complete, release, purge | wraps every write endpoint |
| Authentication (`auth`) | `refresh_tokens` | login, rotate, logout, logout of all sessions, purge | users; every change of a user revokes sessions |
| Users (`users`) and guards (`auth/guards`) | `users` | create, update, remove, reset and change of a password | an advisory lock over the pool of administrators |
| Chart of accounts (`ledger/accounts`), partners, soft delete (`common/prisma`) | `accounts`, `business_partners` | seed, create, update, deactivate, delete | read by posting, reports and documents |
| Company (`company`, `common/dates`) | `company_settings` | seed, update, fiscal year of a date, bounds of a year | periods, posting, close |
| Audit, metrics, health, search, previews, configuration | none that is read back | | |

### What is hard

* **Two-phase posting.** Every post validates with plain reads (period, year,
  accounts, draft), then opens a transaction that locks, re-checks, draws a
  number and writes. Everything read in phase one may be stale in phase two.
* **Locks of different kinds.** A shared or exclusive advisory lock per fiscal
  year, `FOR SHARE` and `FOR UPDATE` on period, draft, document and counter
  rows. Correctness needs the right lock, and the same order everywhere.
* **Paths without a lock.** Closing a year without movement, reopening such a
  year, reopening a period and updating a draft document write without
  re-checking under a lock what they read.
* **Lookups that indexes decide.** Creation looks a key up and inserts in another
  statement; seeding counts and inserts; deletion of an account counts posted
  lines and deletes. Where a unique index or a filter stands behind the lookup the
  race is harmless, and where none does it is not.
* **Reports of several queries.** Cash flow and general ledger run three queries
  outside any transaction.
* **Bulk updates.** A family of tokens is revoked by one UPDATE, which sees the
  rows that exist when it starts and waits for those that are locked.
* **Gapless numbers.** A number drawn by a transaction that rolls back must be
  drawn again, and never twice.
* **Abrupt ends.** A transaction may be ended at any statement by a timeout, a
  lost connection or the deadlock detector; a request may time out while its
  handler goes on to commit; the process may stop between the commit and the
  record of it.

### What correctness means

| Component | Properties |
|---|---|
| Posting and journal | numbers gapless and unique per year; reversed exactly once and cancelled line by line; every posted entry and every year balances; posted entries permanent; segregation of duties |
| Periods | nothing is posted into a closed period |
| Year-end close | nothing is posted into a year closed by a closing entry; that entry stands; no wait cycles; every request ends |
| Documents and payments | what is paid is what is allocated; never overpaid; settled documents stand; the control account reconciles with the documents and with the aging report; what is posted is what the journal entry says; document numbers gapless |
| Chart of accounts | an account with posted lines is not deleted; a deleted one takes no entry; seeded whole or not at all; codes and singleton roles unique; parents are headers and tax accounts fit their tax |
| Reports | debits equal credits; the balance sheet balances and agrees with the income statement; cash flow and general ledger reconcile but for what was committed meanwhile |
| Calendar | a year has twelve periods in order; periods, bounds and year of a date agree |
| Users and sessions | an active administrator remains; addresses unique; one active token per session; tokens only age; what is deleted stays deleted |
| Idempotency | an attempt touches only its own reservation; replays are faithful; failures are not cached; a confirmed success is never repeated |

## Modules

```
PgLocks ─┬─ Ledger ── Posting ─┬─ ChartOfAccounts ──────────────┬─ GeneralLedger ─┬─ MCGeneralLedger
         │                     └─ PeriodClose ─┬─ YearEndClose ─┘  (B == INSTANCE │
         │                                     │                      Books)      └─ Reports (with Chart) ── MCReports
         │                                     └─ Documents (with Tax) ── MCDocuments
         └─ Requests ─┬─ UserAdmin ── Sessions ─┐
                      ├─ MasterData (with Chart)┼─ BackOffice ── MCBackOffice
                      └─ FiscalCalendar ────────┘
Sums ─┬─ Ledger
      └─ Tax (with Chart)
Idempotency ── MCIdempotency
```

and the modules with proofs, each of which also extends the module it is about:

```
GeneralLedger_proofs ── ChartOfAccounts_proofs ─┬─ Journal_proofs ── Reports_proofs
                                  Sums_proofs ──┘
Sums_proofs ── Documents_proofs
Office_proofs
Idempotency_proofs
```

| Module | Models |
|---|---|
| `PgLocks` | PostgreSQL's transaction-scoped locks, as the services use them (external code) |
| `Ledger` | the tables of the ledger, and the statements of the two-phase protocol that all services share: `findOpenPeriodForDate`, `assertPostableAccounts`, the two reads of `year_end_closings`, `assertPostablePeriodInTx`, `nextSequenceNumber`, `createPostedEntryInTx`, `reverseInTx` |
| `Posting` | `JournalService` and `PostingService`: post, opening balances, drafts, reversal |
| `PeriodClose` | `PeriodsService.close` and `reopen` |
| `YearEndClose` | `YearEndCloseService.close` and `reopen`, with their locked and their unlocked paths |
| `ChartOfAccounts` | `AccountsService.update`, `deactivate` and `softDelete` beside running posts |
| `GeneralLedger` | the composition, its invariants, action properties, liveness, the inductive invariant, and the refinement mapping to `Books` |
| `Books` | the abstract specification: one append-only book per fiscal year |
| `Sums` | the sum of amounts over a finite set |
| `Chart` | the seeded chart of accounts and tax codes, as data, and the rules for both |
| `Reports` | `BalancesService` and the statements over the ledger; cash flow and general ledger query by query |
| `Tax` | `TaxService.calculate` and the roundings of `Money` |
| `Documents` | `TaxedDocumentService`, `DocumentPostingService`, `PaymentsService`, `payment-targets` and the aging report, composed with `Tax` and the steps of `Ledger` |
| `Idempotency` | `IdempotencyService`, its interceptor, the purge and the request timeout around it |
| `Requests` | what a request of the services below is |
| `UserAdmin` | `UserAdminService`, `UsersService`, and the guards that decide who calls them |
| `Sessions` | `AuthService` and `RefreshTokenService` beside `UserAdmin` |
| `MasterData` | accounts, tax codes and partners as soft-deletable tables with unique indexes, and their seeding |
| `FiscalCalendar` | `CompanyService`, `fiscal-year.ts` and the generation of periods |
| `BackOffice` | the composition of the last four, with instances that boot |
| `GeneralLedger_proofs`, `ChartOfAccounts_proofs`, `Journal_proofs` | the theorems about `GeneralLedger` |
| `Reports_proofs` | the theorems about `Reports` |
| `Documents_proofs` | the theorems about `Documents`, with those about `Tax` that they need |
| `Sums_proofs` | lemmas on sums over finite sets, for the three modules above that add up |
| `Office_proofs`, `Idempotency_proofs` | the theorems about `BackOffice` and `Idempotency` |

### State and steps

A **request** is one HTTP handler. `pc[r]` names the statement it runs next;
`op`, `tgt`, `date`, `num` and `buf` are its local variables: the operation, the
entry it works on, the date, the number it has drawn and the lines it has
prepared (`acctId` the account). `journal`, `lines`, `nextNumber`,
`periodStatus`, `closing` and `acct` are the committed tables, `held` the locks of its transaction. Each plain read before a
transaction, and each statement of a transaction that can block or whose read
matters, is one action. What a transaction writes becomes visible in its last
action, which also releases the locks; nothing else can see it earlier under
READ COMMITTED, and whatever the transaction itself must see of its own writes
(`MovedHere` in `Documents`) is computed. A failing check inside a transaction
is `Rollback`, one before it `Reject`. `Abort` ends any transaction at any
statement.

`Plan[r]` says which operations request `r` may turn out to be, so that one
module serves several scenarios; its targets, dates and lines are chosen by
`\E` when it arrives.

In `Documents` the rows `doc` and `pay`, the counters `docSeq`, the tables
`taxCode` and `partner` and the local variables `src`, `calc`, `pos` and `docNum`
come on top. `calc` holds the lines and the totals that `calculate` makes of them,
at creation, at update and once more at posting, each time with the tax codes of
that moment. The loop over a payment's allocations takes one step per document row
it locks.

In `Reports` one request may be a report instead: `rep` keeps what its queries
returned and, as history, the entries each of them ran over, which is what
`CashFlowExplained` and `LedgerExplained` measure a discrepancy by.

In `BackOffice` a request is an administrative handler or the boot of an instance.
`scene` fixes, at the start, which of five mixes of operations is played: users,
creation, sessions, seeding, calendar. The services meet in the process and the
database and share no rows but the users, so a scene per group loses no race.
`rows` holds accounts, tax codes and partners; a deleted row keeps its id and has a
suffixed key, as the tombstone has. A month of `FiscalCalendar` is a number, twelve
to the year, and a period remembers the start month it was laid out for.

In `Idempotency` an **attempt** is one HTTP request with a key. `listening` holds
the attempts whose client still waits: after a timeout the pipeline is
unsubscribed, the statement in hand finishes, and nothing that should follow it
happens. `owner` in a row is a history variable: the table does not record who
inserted it, which is what `ReservationIsOwn` is about. `forgotten` marks commits
whose key was purged after the retention time. With `dbError` among the faults every
statement may fail, the insert, the read and the delete included, and an insert, an
update or a delete that fails may have taken effect before its answer was lost;
`unsettled` marks the attempts whose insert or delete failed.

### Abstractions

* A date is the accounting period that contains it; its fiscal year follows
  from the period. A reversal carries the date of its original: no caller
  passes another one.
* A request creates at most one entry or document, which is named after it.
* The lines of an entry are its net amount per account, with integer amounts.
* Segregation of duties is switched on or off for a run, not during it.
* Amounts of documents are in ten-thousandths of a rupiah, the scale of `Money`,
  rates and quantities in hundredths; `Tax` rounds where the code does. Journal
  entries outside `Documents` have unit amounts.
* All documents belong to one partner, which may trade or may not. Sales and
  purchases run the same code over a descriptor (`Nature`) and meet only in the
  journal: one instance models one side. Accounts stay active in `Documents`; what
  their deletion does to a post is the matter of `GeneralLedger`.
* The aging report is its total: ageing buckets only split it, and the limit of
  10,000 documents is not reached.
* Passwords verify and signatures are valid; roles other than ADMIN are one.
* Of an account, `update` changes the activity; name and cash flow category are
  left out.
* Creating a draft of a payment is one step. What it read may be stale by the
  time the row is inserted, as it may be when the draft is posted; posting
  checks it again under the lock, and drafts affect nothing else.
* `Expire` in `Idempotency` turns a reservation stale only when its owner's
  client no longer waits and no `complete` or `release` of it is running: the
  in-flight time to live (120 s) is far above the request timeout (35 s). A
  handler that outlives both is included.

## Runs

Run any of them with `tlc -config <run>.cfg <module>`.

| Run | Module | Distinct states | Shows |
|---|---|---|---|
| `gl_journal` | `MCReports` | 300,757 | two users race on drafts and entries, segregation of duties enabled, while an account is changed and deleted, a year is closed and a report is made: `TypeOK`, `GaplessNumbering`, `ReversalsCancel`, `DoubleEntry`, `SegregationOfDuties`, `StatementsAgree`, `CashFlowExplained`, `LedgerExplained`, `PostedIsPermanent`, `UsedAccountsStay`, `DeletedAccountsStaySealed` |
| `gl_close` | `MCGeneralLedger` | 78,363 | posts, drafts, opening balances, reversals and account edits race the closing and reopening of periods and years: `NoWaitCycle`, `ClosingEntryStands`, `PostsIntoOpenPeriods`, `LockedYearStaysLocked`, the services implement `Books` (`ImplementsBooks`), and liveness, `EveryRequestEnds` |
| `docs_settle` | `MCDocuments` | 379,875 | two payments that together exceed a document, posted, voided and deleted against the void of their documents and a period close: `PaidIsAllocated`, `SettledDocumentsStand`, `NeverOverpaid`, `ControlReconciles`, `PaymentsWaitInOrder` |
| `docs_draft` | `MCDocuments` | 31,144 | a taxed bill created, edited, deleted, posted and voided while tax codes and the partner change, another is paid and an entry may be reversed by hand: `DTypeOK`, `DocumentNumbersGapless`, `PostedAsEntered`, and liveness, `DocumentRequestsEnd` |
| `idem_faults` | `MCIdempotency` | 2,297,869 | four attempts with timeouts, crashes and failing statements, each of which took effect or did not: `TypeOK`, `ReservationIsOwn`, `ReplayIsFaithful`, `FailureNotCached`, `SuccessEndsRetries` |
| `admin` | `MCBackOffice` | 118,242 | the five scenes: `TypeOK`, `AdminRemains`, `OneActivePerFamily`, `SeededWhole`, `KeysUnique`, `ReferencesFit`, `CalendarAgrees`, `DeletedIsFinal`, `TokensOnlyAge` |

Six runs end in a counterexample: what a document, comment or test says and the
code does not keep.

| Run | Property | The counterexample |
|---|---|---|
| `gl_zero_pl` | `ClosingEntryZeroesProfitLoss` | `close()` reads the movements before its transaction and never again under the lock; an entry that commits in between is missing from the closing entry |
| `gl_closed_post` | `ClosedYearTakesNoPost` | closing a year without movement takes no lock; a post that has re-read the status commits into the closed year |
| `gl_deleted_account` | `TrialBalanceNetsToZero` | `softDelete` counts posted lines, then deletes; a post that had checked the account commits in between, its lines fall out of the trial balance, and debits no longer equal credits |
| `docs_update` | `PostedDocumentsImmutable` | `update()` checks DRAFT on a plain read; its write waits for a concurrent post and then replaces lines and totals of the posted document |
| `docs_reverse` | `ControlReconciles` | `JournalService.reverse` accepts the entry of a document; the control account changes and the document does not |
| `idem_timeout` | `AtMostOnce` | a handler that commits after its request timed out never completes its reservation; the retry that reclaims it commits again |

What the passing properties say of the chart and the reports is what is left next
to `gl_deleted_account`. `UsedAccountsStay` and `DeletedAccountsStaySealed` state
that the race is the only way: once no deletion is past its count, an account with
posted lines is never deleted, and once no request holds an outdated check, nothing
is posted on a deleted one. `StatementsAgree` and `CashFlowExplained` hold while no
line has been lost that way.

Some of what the models show needs no property to be worth knowing:

* Payments lock their documents in the order of the allocation list, which the
  client chooses. `PaymentsWaitInOrder` holds for lists in one order; two payments
  with opposite lists wait for each other until PostgreSQL ends one.
* Two replays of consumed tokens of one family revoke it by bulk updates whose
  rows may be locked in different orders; PostgreSQL ends one, and the family is
  revoked by the other.
* `release()` swallows a failing delete and the client still gets the handler's error:
  the row stays and refuses every retry until its time to live is over. An insert
  whose answer is lost leaves such a row too. `FailureNotCached` therefore excepts the
  attempts whose own insert or delete failed; what it states for all of them is
  that such a row never answers with anything but a committed write.
* When `complete()` takes effect and its answer is lost, the interceptor releases the
  row, the client is told of a failure, and a retry runs the handler a second time.
* The partial index `accounts_singleton_role` has no condition on deletion: the
  role of a deleted account is found by no live lookup, and is never free again.
  `KeysUnique` counts all rows, and says of a role that at most one has it.
* `TaxCodesService.seedIfEmpty` takes whatever live account has the code the seed names,
  without the checks of `create`. Once all tax codes and such an account are deleted and
  another account was created under its code, the next boot may seed a tax code onto an
  account that is not postable or of another normal balance. `ReferencesFit` excepts
  exactly this case (`SeedMisplaced`). The four requests of `admin` are too few to
  reach it; the theorem `ReferencesStayFit` covers it.
* After a year is closed its income statement shows zero, because closing entries
  count as movements; `StatementsAgree` compares it with the earnings that the
  balance sheet takes from the same movements.
* When a document is updated between the read of its post and its lock, the row
  ends with the new lines and the old totals. `PostedAsEntered` states that totals
  and journal entry agree, not the lines.

The unlocked path behind `gl_closed_post` also lets `upsertClosed` erase the
closing entry of a concurrent close from `year_end_closings`. The abstract
`Books` says so openly: `Unlock` is a step of it.

### Bounds

The general ledger runs have four requests, two fiscal years, the first with
two periods, six accounts and unit amounts. Each of the properties is violated,
if at all, by two or three requests on one object with a fourth preparing the
state (a draft to promote, an entry to reverse, a year to reopen); a second year
and a second period of one year are there so that locks and counters of
different years are not confused, and so that a closed period is not a closed
year. In `gl_journal` one of the four may be a report on the second period, so that
entries lie before, in and after its range, and `GL_MAX_LINES` is 1, so that the
list of lines is cut.

The document runs start from books in which documents have been posted and
payments drafted (`History`, `Drafted`), states the other operations reach, and
send four requests into one period. The two payments of `docs_settle` exceed the
first document together and one of them allocates to the second document twice,
so that over-allocation, exact settlement and the increment seen within one
transaction all happen. `docs_settle` runs the sales side, `docs_draft` the
purchase side. In `docs_settle` allocations list documents in one order and
nobody reverses an entry by hand, which `docs_reverse` lifts. The bills of
`docs_draft` carry input tax of 11% and a withholding of 2% over two lines, one with
a fractional quantity, or a tax that rounds to zero, which the posting refuses
after the calculation has accepted it.

The scenes of `admin` have two administrators, one session and at most four
requests: every race there is between two requests, with a third to change or
delete the row they are about and, for the seed, a fourth to start from what the
first instance has seeded. The chart and the tax codes are the whole seed. First
months are January, which is the seed, April and December: a year that is a calendar
year, one that straddles two and the last month, where the arithmetic wraps.

Four attempts on one key, one with another body, are the smallest number in which
an owner, two reclaimers and a late stranger meet.

No counter needs a bound of its own: every request runs once, so behaviours are
finite but for stuttering, and `Idle` says that a system without requests in
flight may stay so. Requests that wait for each other never show as a TLC
deadlock, since `Abort` could always end one of them; `NoWaitCycle` and
`PaymentsWaitInOrder` state their absence instead.

### Fairness

`FairSpec` and `DFairSpec` assume weak fairness of the steps of each request: the
event loop and the database run a statement that can run, and PostgreSQL grants a
lock that nobody holds. Locks here are taken by finitely many requests that each
take finitely many, so a waiting request's step ends up continuously enabled and
strong fairness is not needed. No request is obliged to arrive, and no abort is
owed: `EveryRequestEnds` and `DocumentRequestsEnd` hold with no help from
timeouts. The latter holds for allocations listed in one order. `BackOffice` states
no fairness: its properties are safety properties.

## Proofs

The theorems hold for any sets of requests, years, periods, accounts, documents,
payments, tax codes, users, tokens, keys and attempts (the accounts and the tax codes
finite), under the assumptions named in the modules:

* `LedgerAssumption`, `PostingAssumption`, `YearEndAssumption`, `PlanAssumption`,
  `ChartAssumption`: each constant has its type, there are finitely many accounts,
  retained earnings and opening equity are not profit-and-loss accounts, the last
  period of a year lies in it;
* `DocumentsAssumption`: three different accounts for control, offset and cash; the
  lines, allocations and tax codes that clients submit have the types that validation
  lets through (`createDraft` of a payment refuses an empty list and amounts that are
  not positive); the books a behaviour starts from name every document once;
* `ReportsAssumption`: the accounts are some of the seeded chart, which decides what is
  profit and loss; a range of dates does not end before it begins, which
  `optionalDateRange` and `dateRange` reject;
* `UserAdminAssumption`, `SessionsAssumption`, `CalendarAssumption`,
  `ScenesAssumption`: users exist at the start, under different addresses (the unique
  index has seen to it), the identifiers of users, tokens and requests are different,
  months are 1 to 12;
* `IdempotencyAssumption`: the types of the constants.

Some theorems have a hypothesis of their own; each is discussed below, and each is a
condition that the code does not enforce by itself.

| Module | Theorem | Statement |
|---|---|---|
| `GeneralLedger_proofs` | `Inductive` | `Spec => []Inv`, where `Inv == TypeOK /\ IInv` |
| | `TypeCorrect` | `Spec => []TypeOK` |
| | `Gapless` | `Spec => []GaplessNumbering` |
| | `ReversedExactlyOnce` | `Spec => []ReversalsCancel` |
| | `ClosingStands` | `Spec => []ClosingEntryStands` |
| | `OnlyOpenPeriods` | `Spec => PostsIntoOpenPeriods` |
| | `LockedYearTakesNoEntry` | `Spec => LockedYearStaysLocked` |
| | `PostedForEver` | `Spec => PostedIsPermanent` |
| `ChartOfAccounts_proofs` | `UsedAccountsAreKept` | `Spec => UsedAccountsStay` |
| | `DeletedAccountsAreSealed` | `Spec => DeletedAccountsStaySealed` |
| `Journal_proofs` | `JournalInductive` | `Spec => [](Inv /\ JournalInv)` |
| | `EveryEntryBalances` | `Spec => []DoubleEntry` |
| | `DutiesAreSegregated` | `Spec => []SegregationOfDuties` |
| | `NobodyWaitsInACircle` | `Spec => []NoWaitCycle` |
| | `ServicesImplementBooks` | `Spec => ImplementsBooks` |
| `Reports_proofs` | `ReportsInductive` | `RSpec => []ReportsInv` |
| | `ReportsWriteNothing` | `RSpec => [](TypeOK /\ GaplessNumbering /\ DoubleEntry /\ SegregationOfDuties)` |
| | `StatementsAlwaysAgree` | `RSpec => []StatementsAgree` |
| | `CashFlowIsExplained` | `RSpec => []CashFlowExplained` |
| | `LedgerIsExplained` | `RSpec => []LedgerExplained` |
| `Documents_proofs` | `DocumentsInductive` | `DSpec => []DInv` |
| | `DocumentTypes` | `DSpec => []DTypeOK` |
| | `DocumentNumbering` | `DSpec => []DocumentNumbersGapless` |
| | `PaidExactly` | `DSpec => []PaidIsAllocated` |
| | `SettledStand` | `DSpec => []SettledDocumentsStand` |
| | `DocumentEntriesBalance` | `DSpec => [](\A e \in Req : AssertBalanced(lines[e]))` |
| | `NoOverpayment` | `DSpec /\ PostedDocumentsImmutable => []NeverOverpaid` |
| | `TotalsAsEntered` | `DSpec => PostedAsEntered`, if `OffsetOnly` |
| | `SubledgerReconciles` | `DSpec /\ PostedDocumentsImmutable => []ControlReconciles`, if `OffControl` and `NoDirectReversal` |
| | `FinalOnceUpdatesEnd` | `DSpec => [][\A d \in Req : Final(d) => Final(d)' /\ ContentStays(d)]_allVars` |
| | `PaymentsNeverDeadlock` | `DSpec => []PaymentsWaitInOrder`, if `OneOrder(rank)` for some `rank` |
| `Idempotency_proofs` | `IdempotencyInductive` | `Spec => []IInv` |
| | `IdempotencyTypeCorrect` | `Spec => []TypeOK` |
| | `OwnReservation` | `Spec => []ReservationIsOwn` |
| | `FaithfulReplay` | `Spec => []ReplayIsFaithful` |
| | `FailureLeavesNoRow` | `Spec => []FailureNotCached` |
| | `SuccessIsFinal` | `Spec => SuccessEndsRetries` |
| | `SecondCommitTakesLostAnswer` | `Spec => [](\A a, b \in committed \ forgotten : a # b /\ KeyOf[a] = KeyOf[b] => AnswerLost(a) \/ AnswerLost(b))` |
| `Office_proofs` | `SessionsInductive` | `OfficeSpec => []SessionInv` |
| | `SessionsTypeCorrect` | `OfficeSpec => []TypeOK` |
| | `AnAdminRemains` | `OfficeSpec => []AdminRemains` |
| | `OneTokenPerSession` | `OfficeSpec => []OneActivePerFamily` |
| | `TokensNeverRevive` | `OfficeSpec => TokensOnlyAge` |
| | `CalendarStaysWhole` | `OfficeSpec => []CalendarAgrees` |
| | `MasterDataInductive` | `OfficeSpec => []StoreInv` |
| | `SeedsAreWhole` | `OfficeSpec => []SeededWhole` |
| | `KeysStayUnique` | `OfficeSpec => []KeysUnique` |
| | `DeletionIsFinal` | `OfficeSpec => DeletedIsFinal` |
| | `ReferencesStayFit` | `OfficeSpec => []ReferencesFit` |

### The general ledger

**Why the invariants need strengthening.** None of them is inductive. That a
commit with number `num[r]` leaves the numbers gapless depends on `num[r]` being
the counter's value at the commit, though it was read statements earlier; that
depends on `r` still holding the counter's row lock and on nobody having changed
the counter without it. `IInv` therefore records, for each request and each step:
which operations can be there (`OpAtStep`), what it still knows of the entry it
read in phase one (`TargetKnown`), and which locks it holds together with the
facts they protect (`LocksHeld`). `RowOK`, `ReversedOnce` and `ClosingRecordOK`
describe the rows, `LocksCompatible` the lock manager.

**The argument** is rely-guarantee. A step of `r` leaves the local state of all
others alone (`Frame`), keeps date, source and lines of the rows that exist
(`RowsPersist`), and changes a protected fact only where it could be granted the
exclusive lock (`Protected`): a draft stops being one, a year becomes locked, a
period stops being open, a counter moves. `OthersUndisturbed` concludes once and
for all that what another request has established survives such a step: it holds
a conflicting lock, so the exclusive one could not be granted. What is left per
action is the guarantee and the request's own conjuncts. The unlocked paths
respect it too, which is the reason why a year "locked" is one closed *by a
closing entry*: `upsertClosed` without a lock can close a year, or forget its
closing entry, and can never lock it.

The action properties follow from `Inv` by finding which actions post an entry at
all (`WhoWrites`, `WhoPosts`). Those of the chart follow from which actions delete an
account and which requests have looked it up (`WhoDeletes`, `WhoEdits`,
`WhoChecks`): `CountLines` never lets a deletion of a used account through, and
`AssertPostableAccounts` never a post on a deleted one, so the sets of requests that
hold an outdated check only shrink.

**Balance and segregation of duties.** Both are checked in phase one and hold at the
commit: `JournalInv` carries the check (`Checked`) along with the request, and what it
was about, the lines of a draft and its author, does not change while it remains a
draft (`WhoCarries`, `LinesPersist`). The closing entry is not checked, it is
computed: it balances because its retained-earnings line is the negated sum of the
others, which `Sums_proofs` supplies.

**Sums.** A sum over accounts is a fold over a finite set, and what such a fold
computes cannot be shown by the library's induction theorems, which no installed
prover can instantiate. `Sums_proofs` argues by a smallest counterexample instead:
among the subsets of a finite set for which the equation fails there is one of least
cardinality, it is not empty, and taking one element out of it gives a smaller one
(`SumTake`, `SumSplit`, `SumNegated`). On these rest the sums that are taken in two
ways: a sum of sums is the sum over groups (`SumGrouped`), and sums over accounts and
over entries exchange (`SumsExchange` of `Reports_proofs`).

**No wait cycle.** Requests take their locks in the order entry, fiscal year, period,
counter (`HeldInOrder`), so a request that is waited for holds a lock of the rank
wanted, and waits, if at all, for one of a higher rank: a circle would have no highest.
The close of a year asks for the year's lock twice; holding it exclusively, it waits
for nobody the second time.

**Refinement.** `ServicesImplementBooks` shows that under the mapping of
`GeneralLedger` (a year's book is the sequence of its posted entries by number) the
initial books are empty and every step is one of `Books`: it appends an entry to one
book, reverses one with it, locks or unlocks a year, or changes none of this. That the
new entry comes last needs the gapless numbering; that its year is not locked and what
it reverses not reversed yet needs the locks.

### Reports

A report reads and writes nothing, so `Inv` and `JournalInv` hold beside it
(`StartKeepsLedger`); what has to be shown is that figures from several sums, or from
several moments, agree.

* `StatementsAgree`. In one state everything is a sum over posted entries of the sums
  of their lines over sets of accounts. Assets, liabilities, equity and the two
  profit-and-loss types are disjoint and cover the chart (`ChartTypes`, from the seed as
  data; `AccountsService.create` holds clients to the same map of types and subtypes),
  so, summed by entry, the difference of the two sides of the balance sheet is a sum of
  entries that balance, each of which is zero (`RowsAddUp`). This needs `DoubleEntry`
  of every entry, which is the theorem about posting, and that no account in use was
  deleted, `NothingLost`, which the property has for its premise: run
  `gl_deleted_account` shows what happens otherwise.
* `CashFlowExplained`, `LedgerExplained`. The three queries of one report see three
  different ledgers. `RepInv` says what each has returned, as a sum over the entries it
  saw (`CashFlowSoFar`, `LedgerSoFar`), and that what a later one sees includes what an
  earlier one saw (`SawGrows`). Such a sum does not change afterwards: posted entries
  stay with their dates and lines (`PostedStays`), and if a line is lost it stays lost,
  for a deleted account never comes back (`LostStaysLost`). The discrepancy is then the
  sum over what came in between. The ranges meet (`RangeParts`) only when the range
  does not end before it begins; the first attempt at this proof failed without that
  assumption, which the controllers do establish.

### Documents and payments

`DInv` is built as `IInv` is: which operation can be at a step (`OpFits`), what a
request knows of rows it read before its transaction (`Knows`), and what it holds locked
and has found there (`HoldsDoc`, `HoldsPay`, `HoldsSeq`). For a payment in the loop over
its allocations `HoldsPay` says that every document it has passed is locked, posted and
has enough outstanding for *all* that these allocations move on it. `Protected` lists
what a step changes only where it could have been granted the row lock, and
`OthersUndisturbed` concludes as before that nobody else's knowledge is broken.

`StepCases` then reduces every step to six: an edit that no property about posted rows
can notice, and the five writes at the end of a transaction. On it rest:

* `PaidExactly` and `SettledStand`, which are proved together (`PaidInv`). The
  void of a document checks `amount_paid = 0`; that no posted payment allocates to it
  then needs `PaidIsAllocated`, and that the sum of allocations on a document that is
  not posted is zero needs `SettledDocumentsStand`.
* `NoOverpayment` has the premise `PostedDocumentsImmutable`. The check under the lock
  is against the total the document has *then*, and run `docs_update` shows that a
  racing `update()` may lower the total of a posted document.
* `FinalOnceUpdatesEnd` says that this is the only hole, with no premise: a document is
  `Final` when it is posted or void and no update that had read it as a draft is still
  on its way (`UpdatePending`). It then stays final, because `update()` begins on drafts
  only (`UpdateBegins`), and no step changes its lines, totals, number, date or entry
  (`ContentStays`), the step of its void included.
* `DocumentEntriesBalance` and `TotalsAsEntered` prove the calculation of `Tax` for any
  list of lines, codes and rates. The lines of an entry are base amounts grouped by
  account and taxes grouped by account (`BaseByAccount`, `TaxByAccount`), so the sum over
  accounts is the sum over lines and codes, and what the control account gets is their
  total, which `settlementAmount` is. For `TotalsAsEntered` all document lines must be on
  the one account that the property looks at, and taxes on others (`OffsetOnly`).
* `SubledgerReconciles` follows the balance of the control account through each of the
  five writes (`ReconciledStep`), and shows that the aging report, which adds
  allocations up by itself and leaves settled documents out, has the same total
  (`ReconciledBooks`). Its hypotheses are what the code leaves to its users: document
  lines and taxes are not on the control account itself (`OffControl`), and nobody
  reverses the entry of a document through the journal (`NoDirectReversal`, which run
  `docs_reverse` refutes).
* `PaymentsNeverDeadlock`. Locks are taken in the order payment, documents, document
  counter, year, period, journal counter (`DHeldInOrder`). Within the documents the
  order is that of the allocation list, which the client chooses, hence the hypothesis
  `OneOrder`: there is an order in which all lists name their documents. A list may name
  a document twice; the second time the payment holds it already and waits for nobody.
  A circle is excluded because finitely many requests are in flight (`OrderInv`), so one
  of those that wait for a document wants the last in the order (`LastWanted`).

### Idempotency

`IInv` says who owns a row at each step of an attempt (`Protected`); at `release` the row
may already hold the attempt's own response, from a `complete` whose answer was lost. The row is
addressed by its key; that the attempt's own reservation is under it at `complete` and
`release` depends on the request timeout being shorter than the staleness limit after
which others reclaim the row. `FailureLeavesNoRow` and `SuccessIsFinal` are proved from
it for every set of faults. `SecondCommitTakesLostAnswer` complements the run
`idem_timeout`, which shows a second commit after a timeout: of two commits of one key
within the retention time, one was reported to its client as a timeout or an error, or
its process died (`AnswerLost`). It needs, besides `IInv`, that an attempt that has
committed is at `complete`, at `release` or at its end (`CommitIsLate`).

### Users, sessions, master data and calendar

The requests of `BackOffice` share `pc`, `op` and the locks, and each service keeps its
own tables. `SessionMove`, `MasterMove` and `Elsewhere` split a step by service; a step elsewhere
changes nothing a service has established (`OfficeFrame`), and one of the service
changes what others know only under the lock they would have to hold
(`OthersKnow`). The same argument, with other facts:

* `AnAdminRemains`: whoever takes the last-admin branch holds the lock on the pool of
  administrators from `countAdmins` to `writeUser`, so the second administrator it
  counted is still there (`Administers`). Any number of administrators and of
  requests.
* `OneTokenPerSession`: the row lock of the token is held from its check to the
  rotation (`Presents`), and a new token enters a family only as its predecessor
  is consumed.
* `CalendarStaysWhole`: the periods of one fiscal year come from one insert for one
  start month (`CalendarInv`), whatever the setting has become meanwhile. The rest is
  the arithmetic of `fiscal-year.ts`: its months are in bijection with 1 to 12, and the
  year of a date inverts the year's bounds.
* `SeedsAreWhole`, `KeysStayUnique`, `DeletionIsFinal`: a draft of a seed is the whole
  seed (`Drafts`), the unique index refuses it whole, and a tombstone is
  never a target. That the two seeds respect the indexes themselves is proved from
  `Chart` (`SeedCodes`, `SeedRoles`).
* `ReferencesStayFit` has no hypothesis: whatever accounts clients create, a tax code
  refers to an account that was postable and of the normal balance its kind needs, but
  for a seeded tax code on an account that is not of the seeded chart
  (`SeedMisplaced`). A tax code of `create` has looked at its account (`Admissible`), and
  neither type nor normal balance of an account ever changes; a seeded one found
  a live account by its code, which is the seeded account unless a client replaced it.
  The same proof attempt showed that the model lacked the failure of `seedIfEmpty` when
  an account is missing (`Seedable`).

### Only model-checked

* `EveryRequestEnds`, `DocumentRequestsEnd`: liveness under fairness is out of
  TLAPS's reach.
* `StatementsAgree` and `CashFlowExplained` are proved for accounts of the seeded chart.
  Accounts that clients create are in no run of `Reports` and in no theorem about it,
  though `create` holds them to the same map of types and subtypes.
* The six properties that runs refute hold only under premises like those above, and
  for three of them no premise is stated: `ClosingEntryZeroesProfitLoss`,
  `ClosedYearTakesNoPost` and `TrialBalanceNetsToZero`.

## Not modelled

* Lists, searches and the preview of a document's journal entry: read-only, and the
  preview is the calculation of `Tax` presented.
* The update of a partner's two roles: two concurrent updates can leave it with
  neither, which assertRole forbids for each alone; no property states it.
* Rate limits, and the roles other than ADMIN: decisions per request on constants.
* The switch of segregation of duties while requests run: it is read once, by plain
  read, at the start of a post.
* The refusals of the soft-delete extension (hard deletes, nested filters): no
  operation of the application meets them. `UsersService.softDelete` has no caller.
* Audit, metrics and health: nothing reads their state back.
* Configuration and wiring: the timeouts they set are the aborts and timeouts of the
  models.

## Plan

Done: the general ledger with `Books`, its chart, its reports and its proofs;
`Idempotency`; `Documents` with `Tax`; `BackOffice` with users, sessions, master data
and calendar.

Every property that a passing run checks is also a theorem, but for the two liveness
properties. What could be added:

1. `PostedAsEntered` for lines on any accounts: it looks at one offset account, and the
   hypothesis `OffsetOnly` of `TotalsAsEntered` says so.
2. The aging report by bucket and by partner, and its limit of documents.
3. The update of a partner's roles, with the property that the last role stays.
