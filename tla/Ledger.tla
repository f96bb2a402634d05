------------------------------- MODULE Ledger -------------------------------
(***************************************************************************)
(* The ledger tables and the two-phase posting protocol that every service *)
(* shares (src/ledger/posting/posting.service.ts).  A handler first         *)
(* validates with plain reads outside any transaction (preparePosting,      *)
(* prepareReversal), then opens a transaction whose statements lock,        *)
(* re-check, number and write (stampPostedInTx).  Each read before the      *)
(* transaction, and each statement of it that can block, is a step of its   *)
(* own, so other requests run in between; what the transaction writes       *)
(* becomes visible in its last step, the commit.                            *)
(*                                                                          *)
(* A date is abstracted to the accounting period that contains it.  A       *)
(* request creates at most one journal entry, so the entry created by       *)
(* request r is identified by r.                                            *)
(***************************************************************************)
EXTENDS Sums, PgLocks

CONSTANTS
  Years,        \* fiscal years
  Periods,      \* accounting periods
  YearOf,       \* YearOf[p]: the fiscal year of period p
  Accounts,     \* the chart of accounts
  Headers,      \* the accounts that are not postable
  ProfitLoss,   \* those of type REVENUE or EXPENSE
  Users,
  UserOf,       \* UserOf[r]: the authenticated user of request r
  SegregationOfDutiesEnabled,
  Null          \* SQL NULL: no entry, no user, no date yet

ASSUME LedgerAssumption ==
  /\ YearOf \in [Periods -> Years]
  /\ IsFiniteSet(Accounts)
  /\ ProfitLoss \subseteq Accounts
  /\ Headers \subseteq Accounts
  /\ UserOf \in [Req -> Users]
  /\ SegregationOfDutiesEnabled \in BOOLEAN
  /\ Null \notin Req \cup Users \cup Periods \cup Accounts

VARIABLES
  journal,       \* journal_entries: one row per entry id
  lines,         \* journal_lines: lines[e][a] is debit minus credit of e on a
  nextNumber,    \* journal_sequences.next_number, per fiscal year
  periodStatus,  \* accounting_periods.status
  closing,       \* year_end_closings: status and closing entry, per year
  acct,          \* accounts: is_active and deleted_at, per account
  pc,            \* the step each request takes next
  op,            \* the operation it runs
  tgt,           \* the entry it works on: the draft, or the entry to reverse
  date,          \* the date of the entry it writes
  acctId,        \* the account it works on
  num,           \* the entry number it has drawn
  buf            \* the lines it will write, as prepared before the transaction

db  == <<journal, lines, nextNumber, periodStatus, closing, acct>>
ctx == <<op, tgt, date, acctId, num, buf>>
vars == <<db, ctx, pc, held>>

Sources == {"MANUAL", "SALES_INVOICE", "PURCHASE_BILL", "PAYMENT", "OPENING",
            "REVERSAL", "CLOSING"}
Lines   == [Accounts -> Int]

NoLines == [a \in Accounts |-> 0]
NoRow   == [status |-> "none", deletedAt |-> Null, source |-> "MANUAL",
            date |-> Null, number |-> 0, createdBy |-> Null,
            postedBy |-> Null, reversalOf |-> Null]

EntryRow ==
  [status: {"none", "DRAFT", "POSTED", "REVERSED"}, deletedAt: {Null, "set"},
   source: Sources, date: Periods \cup {Null}, number: Nat,
   createdBy: Users \cup {Null}, postedBy: Users \cup {Null},
   reversalOf: Req \cup {Null}]

ClosingRow == [status: {"none", "OPEN", "CLOSED"}, entry: Req \cup {Null}]

\* What can be locked: a fiscal year and its number sequence, a period row, an
\* entry row.
Locks == ({"year", "seq"} \X Years \X {"S", "X"})
           \cup ({"period"} \X Periods \X {"S", "X"})
           \cup ({"entry"} \X Req \X {"S", "X"})

\* Mutant of Init: the counters start at zero.
InitCounterAtZero ==
  /\ journal = [e \in Req |-> NoRow]
  /\ lines = [e \in Req |-> NoLines]
  /\ nextNumber = [y \in Years |-> 0]
  /\ periodStatus = [p \in Periods |-> "OPEN"]
  /\ closing = [y \in Years |-> [status |-> "none", entry |-> Null]]
  /\ acct = [a \in Accounts |-> "active"]
  /\ pc = [r \in Req |-> "start"]
  /\ op = [r \in Req |-> "none"]
  /\ tgt = [r \in Req |-> Null]
  /\ date = [r \in Req |-> Null]
  /\ acctId = [r \in Req |-> Null]
  /\ num = [r \in Req |-> 0]
  /\ buf = [r \in Req |-> NoLines]
  /\ held = [r \in Req |-> {}]

\* A new set of books: the periods are generated (PeriodsService), no entry
\* exists, no counter has been drawn from, no year has ever been closed.
Init ==
  /\ journal = [e \in Req |-> NoRow]
  /\ lines = [e \in Req |-> NoLines]
  /\ nextNumber = [y \in Years |-> 1]
  /\ periodStatus = [p \in Periods |-> "OPEN"]
  /\ closing = [y \in Years |-> [status |-> "none", entry |-> Null]]
  /\ acct = [a \in Accounts |-> "active"]
  /\ pc = [r \in Req |-> "start"]
  /\ op = [r \in Req |-> "none"]
  /\ tgt = [r \in Req |-> Null]
  /\ date = [r \in Req |-> Null]
  /\ acctId = [r \in Req |-> Null]
  /\ num = [r \in Req |-> 0]
  /\ buf = [r \in Req |-> NoLines]
  /\ held = [r \in Req |-> {}]

-----------------------------------------------------------------------------
(* Queries over the committed tables. *)

\* POSTED_JE: posted_at is set and the row is not soft-deleted.  A REVERSED
\* entry keeps its posted_at, so it still counts; its reversal cancels it.
Posted == {e \in Req : journal[e].status \in {"POSTED", "REVERSED"}
                       /\ journal[e].deletedAt = Null}
PostedIn(y) == {e \in Posted : YearOf[journal[e].date] = y}

\* The accounts that lines v are on.
Used(v) == {a \in Accounts : v[a] # 0}

\* groupedBalances: per account, debit minus credit over the entries of S; the
\* join leaves out what is on a deleted account.
GroupedBalances(S) ==
  [a \in Accounts |-> IF acct[a] = "deleted" THEN 0
                      ELSE SumOver([e \in S |-> lines[e][a]], S)]

\* BalancesService.movementsBetween over the bounds of fiscal year y.
MovementsBetween(y) == GroupedBalances(PostedIn(y))

\* assertBalanced: total debits equal total credits.
Total(v, S) == SumOver(v, S)
AssertBalanced(v) == Total(v, Accounts) = 0

\* CompanyService.isSegregationViolation
IsSegregationViolation(source, createdBy, postedBy) ==
  /\ SegregationOfDutiesEnabled
  /\ source = "MANUAL"
  /\ postedBy = createdBy

Swapped(v) == [a \in Accounts |-> -v[a]]

Year(r) == YearOf[date[r]]

-----------------------------------------------------------------------------
(* Control flow of a request. *)

Goto(r, l) == pc' = [pc EXCEPT ![r] = l]

\* The handler throws before its transaction began.
Reject(r) == Goto(r, "failed") /\ UNCHANGED <<db, ctx, held>>

\* Mutant of Rollback: a session-level lock outlives the transaction.
RollbackKeepsLocks(r) == Goto(r, "failed") /\ UNCHANGED <<db, ctx, held>>

\* The handler throws inside its transaction: nothing it wrote survives.
Rollback(r) == Goto(r, "failed") /\ ReleaseAll(r) /\ UNCHANGED <<db, ctx>>

\* The transaction commits; the caller states what it makes visible.
Commit(r) == Goto(r, "done") /\ ReleaseAll(r)

-----------------------------------------------------------------------------
(* Phase one: reads outside the transaction. *)

\* PeriodsService.findOpenPeriodForDate for the date of the new entry.
FindOpenPeriod(r, next) ==
  /\ pc[r] = "findPeriod"
  /\ IF periodStatus[date[r]] = "OPEN"
       THEN Goto(r, next) /\ UNCHANGED <<db, ctx, held>>
       ELSE Reject(r)

\* Mutant of AssertPostableAccounts: the accounts are not looked up.
AnyAccount(r, v, next) ==
  /\ pc[r] = "accounts"
  /\ Goto(r, next)
  /\ UNCHANGED <<db, ctx, held>>

\* assertPostableAccounts: every account of the lines exists, is postable and is
\* active, at this moment; nothing checks it again.
AssertPostableAccounts(r, v, next) ==
  /\ pc[r] = "accounts"
  /\ IF \A a \in Used(v) : a \notin Headers /\ acct[a] = "active"
       THEN Goto(r, next) /\ UNCHANGED <<db, ctx, held>>
       ELSE Reject(r)

\* The year_end_closings read of preparePosting, prepareReversal and postDraft.
FindClosedYear(r, next) ==
  /\ pc[r] = "findClosed"
  /\ IF closing[Year(r)].status # "CLOSED"
       THEN Goto(r, next) /\ UNCHANGED <<db, ctx, held>>
       ELSE Reject(r)

-----------------------------------------------------------------------------
(* Phase two: stampPostedInTx, statement by statement. *)

\* assertPostablePeriodInTx: the shared advisory lock of the fiscal year ...
LockYearShared(r) ==
  /\ pc[r] = "lockYear"
  /\ Acquire(r, Share("year", Year(r)))
  /\ Goto(r, "recheckYear")
  /\ UNCHANGED <<db, ctx>>

\* Mutant of RecheckYear: the year is not read again under the lock.
SkipRecheckYear(r) ==
  /\ pc[r] = "recheckYear"
  /\ Goto(r, "lockPeriod")
  /\ UNCHANGED <<db, ctx, held>>

\* ... the plain read of year_end_closings under it ...
RecheckYear(r) ==
  /\ pc[r] = "recheckYear"
  /\ IF closing[Year(r)].status # "CLOSED"
       THEN Goto(r, "lockPeriod") /\ UNCHANGED <<db, ctx, held>>
       ELSE Rollback(r)

\* Mutant of LockPeriodShared: the status is read without FOR SHARE.
ReadPeriodUnlocked(r) ==
  /\ pc[r] = "lockPeriod"
  /\ IF periodStatus[date[r]] = "OPEN"
       THEN Goto(r, "draw") /\ UNCHANGED <<db, ctx, held>>
       ELSE Rollback(r)

\* ... and the period row FOR SHARE, with its status.
LockPeriodShared(r) ==
  /\ pc[r] = "lockPeriod"
  /\ CanLock(r, Share("period", date[r]))
  /\ IF periodStatus[date[r]] = "OPEN"
       THEN /\ Acquire(r, Share("period", date[r]))
            /\ Goto(r, "draw")
            /\ UNCHANGED <<db, ctx>>
       ELSE Rollback(r)

\* Mutant of NextNumber: the counter is read without FOR UPDATE.
NextNumberUnlocked(r) ==
  /\ pc[r] = "draw"
  /\ num' = [num EXCEPT ![r] = nextNumber[Year(r)]]
  /\ Goto(r, "write")
  /\ UNCHANGED <<db, op, tgt, date, acctId, buf, held>>

\* nextSequenceNumber: the counter row is inserted if absent, locked FOR
\* UPDATE and read; its increment is visible with the commit.
NextNumber(r) ==
  /\ pc[r] = "draw"
  /\ Acquire(r, Exclusive("seq", Year(r)))
  /\ num' = [num EXCEPT ![r] = nextNumber[Year(r)]]
  /\ Goto(r, "write")
  /\ UNCHANGED <<db, op, tgt, date, acctId, buf>>

\* The row that the last statement writes, stamped with the drawn number.
PostedRow(r, source, reversalOf) ==
  [status |-> "POSTED", deletedAt |-> Null, source |-> source,
   date |-> date[r], number |-> num[r], createdBy |-> UserOf[r],
   postedBy |-> UserOf[r], reversalOf |-> reversalOf]

\* The increment of the counter, committed with the entry that took the number.
Increment(r) == nextNumber' = [nextNumber EXCEPT ![Year(r)] = num[r] + 1]

\* createPostedEntryInTx: the entry and its lines.
CreatePostedEntry(r, source) ==
  /\ journal' = [journal EXCEPT ![r] = PostedRow(r, source, Null)]
  /\ lines' = [lines EXCEPT ![r] = buf[r]]
  /\ Increment(r)

\* Mutant of AlreadyReversed: there is no unique index.
NoUniqueReversal(e) == FALSE

\* The unique index on reversal_of_id: an entry is reversed at most once.
AlreadyReversed(e) == \E q \in Req : journal[q].reversalOf = e

\* Mutant of CreateReversal: the update of the original stamps it again.
RestampOriginal(r) ==
  /\ journal' = [journal EXCEPT ![r] = PostedRow(r, "REVERSAL", tgt[r]),
                                ![tgt[r]] = [@ EXCEPT !.status = "REVERSED",
                                                      !.postedBy = UserOf[r]]]
  /\ lines' = [lines EXCEPT ![r] = buf[r]]
  /\ Increment(r)

\* reverseInTx: the mirrored entry, and the original marked REVERSED.
CreateReversal(r) ==
  /\ journal' = [journal EXCEPT ![r] = PostedRow(r, "REVERSAL", tgt[r]),
                                ![tgt[r]].status = "REVERSED"]
  /\ lines' = [lines EXCEPT ![r] = buf[r]]
  /\ Increment(r)
=============================================================================
