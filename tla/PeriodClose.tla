---------------------------- MODULE PeriodClose -----------------------------
(***************************************************************************)
(* PeriodsService.close and reopen.                                         *)
(***************************************************************************)
EXTENDS Posting

\* close: a transaction that locks the period row FOR UPDATE and re-checks ...
BeginClosePeriod(r) ==
  \E p \in Periods :
    /\ Arrives(r, "closePeriod")
    /\ CanLock(r, Exclusive("period", p))
    /\ IF periodStatus[p] = "OPEN"
         THEN /\ Acquire(r, Exclusive("period", p))
              /\ Carry(r, "closePeriod", Null, p, NoLines)
              /\ Goto(r, "setClosed")
              /\ UNCHANGED db
         ELSE Reject(r)

\* ... and then sets the status.
SetPeriodClosed(r) ==
  /\ pc[r] = "setClosed"
  /\ periodStatus' = [periodStatus EXCEPT ![date[r]] = "CLOSED"]
  /\ Commit(r)
  /\ UNCHANGED <<journal, lines, nextNumber, closing, acct, ctx>>

\* reopen: a plain read ...
BeginReopenPeriod(r) ==
  \E p \in Periods :
    /\ Arrives(r, "reopenPeriod")
    /\ IF periodStatus[p] = "CLOSED"
         THEN /\ Carry(r, "reopenPeriod", Null, p, NoLines)
              /\ Goto(r, "setOpen")
              /\ UNCHANGED <<db, held>>
         ELSE Reject(r)

\* ... followed by an update that re-checks nothing; it only waits for the row.
SetPeriodOpen(r) ==
  /\ pc[r] = "setOpen"
  /\ CanLock(r, Exclusive("period", date[r]))
  /\ periodStatus' = [periodStatus EXCEPT ![date[r]] = "OPEN"]
  /\ Goto(r, "done")
  /\ UNCHANGED <<journal, lines, nextNumber, closing, acct, ctx, held>>
=============================================================================
