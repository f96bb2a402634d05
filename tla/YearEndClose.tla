---------------------------- MODULE YearEndClose ----------------------------
(***************************************************************************)
(* YearEndCloseService.close and reopen.  A close that finds profit-and-    *)
(* loss movement posts a closing entry under the exclusive advisory lock of *)
(* the year; a close that finds none, and a reopen of such a year, write    *)
(* year_end_closings without any transaction or lock.                       *)
(***************************************************************************)
EXTENDS PeriodClose

CONSTANTS
  LastPeriod,  \* LastPeriod[y]: the period that contains the last day of y
  Retained     \* the account with role RETAINED_EARNINGS

ASSUME YearEndAssumption ==
  /\ LastPeriod \in [Years -> Periods]
  /\ \A y \in Years : YearOf[LastPeriod[y]] = y
  /\ Retained \in Accounts \ ProfitLoss

\* The closing entry: the mirror of each profit-and-loss position, with the
\* net income carried to retained earnings.
ClosingLines(m) ==
  [a \in Accounts |-> IF a \in ProfitLoss THEN -m[a]
                      ELSE IF a = Retained THEN Total(m, ProfitLoss) ELSE 0]

\* close: the status read ...
BeginCloseYear(r) ==
  \E y \in Years :
    /\ Arrives(r, "closeYear")
    /\ IF closing[y].status # "CLOSED"
         THEN /\ Carry(r, "closeYear", Null, LastPeriod[y], NoLines)
              /\ Goto(r, "movements")
              /\ UNCHANGED <<db, held>>
         ELSE Reject(r)

\* ... then the movements, from which the closing lines are fixed; a net income
\* needs an account to go to.
ReadMovements(r) ==
  /\ pc[r] = "movements"
  /\ LET m == MovementsBetween(Year(r)) IN
       IF \A a \in ProfitLoss : m[a] = 0
         THEN Goto(r, "upsertClosed") /\ UNCHANGED ctx
       ELSE IF Total(m, ProfitLoss) # 0 /\ acct[Retained] = "deleted"
         THEN Goto(r, "failed") /\ UNCHANGED ctx
         ELSE /\ buf' = [buf EXCEPT ![r] = ClosingLines(m)]
              /\ Goto(r, "findPeriod")
              /\ UNCHANGED <<op, tgt, date, acctId, num>>
  /\ UNCHANGED <<db, held>>

\* upsertClosed of a year without movement: no transaction, no lock.
UpsertClosed(r) ==
  /\ pc[r] = "upsertClosed"
  /\ closing' = [closing EXCEPT ![Year(r)] = [status |-> "CLOSED", entry |-> Null]]
  /\ Goto(r, "done")
  /\ UNCHANGED <<journal, lines, nextNumber, periodStatus, acct, ctx, held>>

\* Mutant of LockYearExclusive: the lock is taken shared and then upgraded.
UpgradeYearLock(r) ==
  /\ pc[r] = "lockYearX"
  /\ IF Share("year", Year(r)) \in held[r]
       THEN Acquire(r, Exclusive("year", Year(r))) /\ Goto(r, "recheckStatus")
       ELSE Acquire(r, Share("year", Year(r))) /\ UNCHANGED pc
  /\ UNCHANGED <<db, ctx>>

\* lockAndReadClosingStatus: the exclusive advisory lock ...
LockYearExclusive(r) ==
  /\ pc[r] = "lockYearX"
  /\ Acquire(r, Exclusive("year", Year(r)))
  /\ Goto(r, "recheckStatus")
  /\ UNCHANGED <<db, ctx>>

\* ... and the status under it.  close goes on to createPostedEntryInTx, reopen
\* to reverseInTx with allowClosedYear, which skips the check of the year.
RecheckStatus(r) ==
  /\ pc[r] = "recheckStatus"
  /\ IF (op[r] = "closeYear") = (closing[Year(r)].status # "CLOSED")
       THEN /\ Goto(r, IF op[r] = "closeYear" THEN "lockYear" ELSE "lockPeriod")
            /\ UNCHANGED <<db, ctx, held>>
       ELSE Rollback(r)

WriteClosing(r) ==
  /\ pc[r] = "write"
  /\ op[r] = "closeYear"
  /\ CreatePostedEntry(r, "CLOSING")
  /\ closing' = [closing EXCEPT ![Year(r)] = [status |-> "CLOSED", entry |-> r]]
  /\ Commit(r)
  /\ UNCHANGED <<periodStatus, acct, ctx>>

\* reopen: the status read decides between the two paths.
BeginReopenYear(r) ==
  \E y \in Years :
    /\ Arrives(r, "reopenYear")
    /\ IF closing[y].status = "CLOSED"
         THEN /\ Carry(r, "reopenYear", closing[y].entry, LastPeriod[y], NoLines)
              /\ Goto(r, IF closing[y].entry = Null THEN "updateOpen" ELSE "loadClosing")
              /\ UNCHANGED <<db, held>>
         ELSE Reject(r)

\* No closing entry: a bare update of the status.
UpdateOpen(r) ==
  /\ pc[r] = "updateOpen"
  /\ closing' = [closing EXCEPT ![Year(r)].status = "OPEN"]
  /\ Goto(r, "done")
  /\ UNCHANGED <<journal, lines, nextNumber, periodStatus, acct, ctx, held>>

\* prepareReversal of the closing entry.
LoadClosing(r) ==
  /\ pc[r] = "loadClosing"
  /\ IF journal[tgt[r]].status = "POSTED"
       THEN /\ Goto(r, "findPeriod")
            /\ buf' = [buf EXCEPT ![r] = Swapped(lines[tgt[r]])]
            /\ UNCHANGED <<db, op, tgt, date, acctId, num, held>>
       ELSE Reject(r)

\* Mutant of WriteReopened: the status is left to a later statement.
ReverseClosingOnly(r) ==
  /\ pc[r] = "write"
  /\ op[r] = "reopenYear"
  /\ IF AlreadyReversed(tgt[r])
       THEN Rollback(r)
       ELSE /\ CreateReversal(r)
            /\ Commit(r)
            /\ UNCHANGED <<periodStatus, closing, acct, ctx>>

\* reverseInTx and the status, in one transaction; closingEntryId stays.
WriteReopened(r) ==
  /\ pc[r] = "write"
  /\ op[r] = "reopenYear"
  /\ IF AlreadyReversed(tgt[r])
       THEN Rollback(r)
       ELSE /\ CreateReversal(r)
            /\ closing' = [closing EXCEPT ![Year(r)].status = "OPEN"]
            /\ Commit(r)
            /\ UNCHANGED <<periodStatus, acct, ctx>>
=============================================================================
