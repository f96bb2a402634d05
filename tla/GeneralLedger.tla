--------------------------- MODULE GeneralLedger ----------------------------
(***************************************************************************)
(* The general ledger: journal, periods and year-end close running          *)
(* concurrently over one PostgreSQL database, and what makes it correct.    *)
(***************************************************************************)
EXTENDS YearEndClose, ChartOfAccounts, Sequences

Ops == {"post", "opening", "createDraft", "deleteDraft", "postDraft", "reverse",
        "closePeriod", "reopenPeriod", "closeYear", "reopenYear",
        "updateAccount", "deleteAccount"}

ASSUME PlanAssumption == Plan \in [Req -> SUBSET Ops]

\* The order of the reads before the transaction: preparePosting looks the
\* accounts up last, postDraft before the year; a reversal does not look them up,
\* and reopen passes allowClosedYear, so its prepareReversal skips the year.
AfterFindPeriod(o) ==
  CASE o = "postDraft"  -> "accounts"
    [] o = "reopenYear" -> "lockYearX"
    [] OTHER            -> "findClosed"

AfterFindClosed(o) ==
  CASE o = "postDraft" -> "lockDraft"
    [] o = "reverse"   -> "lockYear"
    [] OTHER           -> "accounts"

AfterAccounts(o) ==
  CASE o = "postDraft" -> "findClosed"
    [] o = "closeYear" -> "lockYearX"
    [] OTHER           -> "lockYear"

\* The lines that a request is about to post.
ToPost(r) == IF op[r] = "postDraft" THEN lines[tgt[r]] ELSE buf[r]

Begin(r) ==
  \/ BeginPost(r)        \/ BeginOpening(r)
  \/ CreateDraft(r)      \/ DeleteDraft(r)
  \/ BeginPostDraft(r)   \/ BeginReverse(r)
  \/ BeginClosePeriod(r) \/ BeginReopenPeriod(r)
  \/ BeginCloseYear(r)   \/ BeginReopenYear(r)
  \/ BeginUpdateAccount(r) \/ BeginDeleteAccount(r)

Prepare(r) ==
  \/ ReadMovements(r)
  \/ LoadClosing(r)
  \/ FindOpenPeriod(r, AfterFindPeriod(op[r]))
  \/ FindClosedYear(r, AfterFindClosed(op[r]))
  \/ AssertPostableAccounts(r, ToPost(r), AfterAccounts(op[r]))
  \/ CountLines(r)

Guard(r) ==
  \/ LockDraft(r)
  \/ LockYearExclusive(r) \/ RecheckStatus(r)
  \/ LockYearShared(r)    \/ RecheckYear(r)
  \/ LockPeriodShared(r)
  \/ NextNumber(r)

Write(r) ==
  \/ WritePosted(r)  \/ WriteDraftPosted(r) \/ WriteReversal(r)
  \/ WriteClosing(r) \/ WriteReopened(r)
  \/ UpsertClosed(r) \/ UpdateOpen(r)
  \/ SetPeriodClosed(r) \/ SetPeriodOpen(r)
  \/ UpdateAccount(r) \/ TombstoneAccount(r)

InTransaction(r) ==
  pc[r] \in {"lockDraft", "lockYearX", "recheckStatus", "lockYear", "recheckYear",
             "lockPeriod", "draw", "write", "setClosed"}

\* A transaction can be ended from outside at any statement: the interactive
\* transaction or statement timeout, a lost connection, a stopped process, or
\* PostgreSQL's deadlock detector.
Abort(r) == InTransaction(r) /\ Rollback(r)

InFlight(r) == pc[r] \notin {"start", "done", "failed"}

\* No request is in flight: the system may stay idle for ever.
Idle == (\A r \in Req : ~InFlight(r)) /\ UNCHANGED vars

Step(r) == Prepare(r) \/ Guard(r) \/ Write(r)

Next == (\E r \in Req : Begin(r) \/ Step(r) \/ Abort(r)) \/ Idle

Spec == Init /\ [][Next]_vars

\* A request in flight is driven by the event loop and the database until it
\* ends; nobody is obliged to send one, and no abort is ever owed.
FairSpec == Spec /\ \A r \in Req : WF_vars(Step(r))

-----------------------------------------------------------------------------
(* Invariants. *)

Labels == {"start", "movements", "loadClosing", "findPeriod", "findClosed",
           "accounts", "countLines", "tombstone", "setActive", "lockDraft",
           "lockYearX", "recheckStatus", "lockYear", "recheckYear", "lockPeriod",
           "draw", "write", "upsertClosed", "updateOpen", "setClosed", "setOpen",
           "done", "failed"}

\* The type of every variable; DoubleEntry says what the amounts are.
TypeOK ==
  /\ journal \in [Req -> EntryRow]
  /\ DOMAIN lines = Req
  /\ DOMAIN buf = Req
  /\ nextNumber \in [Years -> Nat \ {0}]
  /\ periodStatus \in [Periods -> {"OPEN", "CLOSED"}]
  /\ closing \in [Years -> ClosingRow]
  /\ acct \in [Accounts -> {"active", "inactive", "deleted"}]
  /\ pc \in [Req -> Labels]
  /\ op \in [Req -> Ops \cup {"none"}]
  /\ tgt \in [Req -> Req \cup {Null}]
  /\ date \in [Req -> Periods \cup {Null}]
  /\ acctId \in [Req -> Accounts \cup {Null}]
  /\ num \in [Req -> Nat]
  /\ held \in [Req -> SUBSET Locks]

\* Gapless numbering (nextSequenceNumber): in every fiscal year the numbers of
\* the posted entries are exactly 1 .. next_number - 1, each used once, although
\* numbers are drawn by concurrent transactions any of which may roll back.
GaplessNumbering ==
  \A y \in Years :
    /\ {journal[e].number : e \in PostedIn(y)} = 1 .. (nextNumber[y] - 1)
    /\ \A e, f \in PostedIn(y) : journal[e].number = journal[f].number => e = f

\* Reversal (reverseInTx): an entry is REVERSED exactly when one posted entry
\* reverses it; that entry is in the same period and cancels it line by line,
\* although two requests may both have found the original POSTED.
ReversalsCancel ==
  /\ \A e \in Req :
       journal[e].status = "REVERSED" <=> \E q \in Posted : journal[q].reversalOf = e
  /\ \A q \in Posted :
       journal[q].reversalOf # Null =>
         /\ journal[q].date = journal[journal[q].reversalOf].date
         /\ lines[q] = Swapped(lines[journal[q].reversalOf])
         /\ \A p \in Posted :
              journal[p].reversalOf = journal[q].reversalOf => p = q

\* Double entry (assertBalanced): every posted entry balances, the closing entry
\* included, although drafts are stored without the check and the lines of a
\* closing entry are computed from what other requests have posted.
DoubleEntry ==
  /\ lines \in [Req -> Lines] /\ buf \in [Req -> Lines]
  /\ \A e \in Posted : AssertBalanced(lines[e])

\* Segregation of duties: when enabled, no manual entry is ever posted by the
\* user who created it, whichever way it came to be posted.
SegregationOfDuties ==
  SegregationOfDutiesEnabled =>
    \A e \in Posted :
      journal[e].source = "MANUAL" => journal[e].postedBy # journal[e].createdBy

LockedYear(y) == closing[y].status = "CLOSED" /\ closing[y].entry # Null

\* Year-end close: while a year is closed by a closing entry, that entry stands:
\* it is posted into that year and nothing has reversed it.
ClosingEntryStands ==
  \A y \in Years :
    LockedYear(y) =>
      /\ journal[closing[y].entry].status = "POSTED"
      /\ journal[closing[y].entry].source = "CLOSING"
      /\ YearOf[journal[closing[y].entry].date] = y

\* The lock a request is about to ask for.
WantedLocks(r) ==
  CASE pc[r] = "lockDraft"  -> {Exclusive("entry", tgt[r])}
    [] pc[r] = "lockYearX"  -> {Exclusive("year", Year(r))}
    [] pc[r] = "lockYear"   -> {Share("year", Year(r))}
    [] pc[r] = "lockPeriod" -> {Share("period", date[r])}
    [] pc[r] = "draw"       -> {Exclusive("seq", Year(r))}
    [] pc[r] = "setOpen"    -> {Exclusive("period", date[r])}
    [] OTHER                -> {}

WaitsFor(r, q) ==
  q # r /\ \E l \in WantedLocks(r), k \in held[q] : Conflict(k, l)

\* The statements of every transaction take their locks in one global order, so
\* no set of requests ever waits in a circle for PostgreSQL to break.
NoWaitCycle ==
  ~ \E S \in (SUBSET Req) \ {{}} : \A r \in S : \E q \in S : WaitsFor(r, q)

-----------------------------------------------------------------------------
(* The inductive invariant: what a request knows, and which locks it holds,   *)
(* at each step.                                                              *)

PostingOps == {"post", "opening", "postDraft", "reverse", "closeYear", "reopenYear"}

Editing(r)  == pc[r] \in {"setActive", "countLines", "tombstone"}
Guarded(r)  == pc[r] \in {"lockPeriod", "draw", "write"}
Stamping(r) == Guarded(r) \/ pc[r] \in {"lockYear", "recheckYear"}

\* The steps an operation can be at.
OpAtStep(r) ==
  /\ pc[r] \in {"movements", "upsertClosed"} => op[r] = "closeYear"
  /\ pc[r] \in {"loadClosing", "updateOpen"} => op[r] = "reopenYear"
  /\ Editing(r) => op[r] \in {"updateAccount", "deleteAccount"} /\ acctId[r] \in Accounts
  /\ pc[r] = "lockDraft" => op[r] = "postDraft"
  /\ pc[r] = "accounts" => op[r] \in PostingOps \ {"reverse", "reopenYear"}
  /\ pc[r] \in {"lockYearX", "recheckStatus"} => op[r] \in {"closeYear", "reopenYear"}
  /\ pc[r] \in {"findClosed", "lockYear", "recheckYear"}
       => op[r] \in PostingOps \ {"reopenYear"}
  /\ pc[r] = "findPeriod" \/ Guarded(r) => op[r] \in PostingOps

\* What a request has read still describes the entry it works on.
TargetKnown(r) ==
  /\ InFlight(r) /\ ~Editing(r) => date[r] \in Periods
  /\ InFlight(r) /\ op[r] = "closeYear" => date[r] = LastPeriod[Year(r)]
  /\ InFlight(r) /\ op[r] = "postDraft" =>
       /\ tgt[r] \in Req
       /\ journal[tgt[r]].status # "none"
       /\ journal[tgt[r]].date = date[r]
  /\ InFlight(r) /\ op[r] \in {"reverse", "reopenYear"} /\ pc[r] # "updateOpen" =>
       /\ tgt[r] \in Req
       /\ journal[tgt[r]].status \in {"POSTED", "REVERSED"}
       /\ journal[tgt[r]].date = date[r]
       /\ op[r] = "reopenYear" => journal[tgt[r]].source = "CLOSING"
       /\ pc[r] # "loadClosing" => buf[r] = Swapped(lines[tgt[r]])

\* The locks a request holds, and what they keep true for it.
LocksHeld(r) ==
  /\ op[r] = "postDraft" /\ Stamping(r) =>
       Exclusive("entry", tgt[r]) \in held[r] /\ IsDraft(tgt[r])
  /\ op[r] # "reopenYear" /\ (Guarded(r) \/ pc[r] = "recheckYear") =>
       Share("year", Year(r)) \in held[r]
  /\ op[r] \in {"closeYear", "reopenYear"} /\ (Stamping(r) \/ pc[r] = "recheckStatus") =>
       Exclusive("year", Year(r)) \in held[r]
  /\ op[r] # "reopenYear" /\ Guarded(r) => ~LockedYear(Year(r))
  /\ pc[r] \in {"draw", "write"} =>
       Share("period", date[r]) \in held[r] /\ periodStatus[date[r]] = "OPEN"
  /\ pc[r] = "write" =>
       Exclusive("seq", Year(r)) \in held[r] /\ num[r] = nextNumber[Year(r)]
  /\ pc[r] = "setClosed" => Exclusive("period", date[r]) \in held[r]

\* The shape of a row in each status.
RowOK(e) ==
  /\ pc[e] # "done" => journal[e] = NoRow
  /\ journal[e].status = "none" => journal[e] = NoRow
  /\ journal[e].status # "none" => journal[e].date \in Periods
  /\ journal[e].status \in {"none", "DRAFT"} =>
       journal[e].reversalOf = Null /\ journal[e].source = "MANUAL"
  /\ journal[e].deletedAt # Null => journal[e].status = "DRAFT"
  /\ journal[e].reversalOf # Null =>
       /\ journal[journal[e].reversalOf].status = "REVERSED"
       /\ journal[journal[e].reversalOf].date = journal[e].date
       /\ lines[e] = Swapped(lines[journal[e].reversalOf])
  /\ journal[e].status = "REVERSED" => AlreadyReversed(e)

ReversedOnce ==
  \A p, q \in Req :
    journal[p].reversalOf # Null /\ journal[p].reversalOf = journal[q].reversalOf => p = q

\* A closing record names a closing entry of its year, reversed or not; it is
\* not reversed while the year is closed.
ClosingRecordOK ==
  \A y \in Years :
    closing[y].entry # Null =>
      /\ journal[closing[y].entry].source = "CLOSING"
      /\ journal[closing[y].entry].status \in {"POSTED", "REVERSED"}
      /\ journal[closing[y].entry].date = LastPeriod[y]
      /\ closing[y].status = "CLOSED" => journal[closing[y].entry].status = "POSTED"

IInv ==
  /\ LocksCompatible
  /\ \A r \in Req : OpAtStep(r) /\ TargetKnown(r) /\ LocksHeld(r) /\ RowOK(r)
  /\ ReversedOnce
  /\ ClosingRecordOK
  /\ GaplessNumbering

-----------------------------------------------------------------------------
(* Action properties. *)

\* The entries that a step posts.
NewlyPosted == Posted' \ Posted

\* The in-transaction guard (assertPostablePeriodInTx): an entry is posted only
\* while its period is OPEN, whatever happened since the period was first read.
PostsIntoOpenPeriods ==
  [][\A e \in NewlyPosted : periodStatus[journal'[e].date] = "OPEN"]_vars

\* A year closed by a closing entry is locked: nothing is posted into it except
\* the reversal of a closing entry by reopen, which unlocks it in the same step.
LockedYearStaysLocked ==
  [][\A e \in NewlyPosted : \A y \in Years :
       LockedYear(y) /\ YearOf[journal'[e].date] = y =>
         /\ journal'[e].reversalOf # Null
         /\ journal[journal'[e].reversalOf].source = "CLOSING"
         /\ closing'[y].status = "OPEN"]_vars

\* What is posted is never edited, renumbered or deleted; it can only become
\* REVERSED.  A draft that was soft-deleted never comes back.
PostedIsPermanent ==
  [][\A e \in Req :
       /\ e \in Posted =>
            /\ e \in Posted'
            /\ lines'[e] = lines[e]
            /\ journal'[e] \in {journal[e], [journal[e] EXCEPT !.status = "REVERSED"]}
       /\ journal[e].deletedAt # Null => journal'[e] = journal[e]]_vars

\* A request that has looked up the accounts of the entry it is about to post.
AccountsChecked(r) ==
  \/ /\ op[r] \in {"post", "opening", "closeYear"}
     /\ pc[r] \in {"lockYearX", "recheckStatus", "lockYear", "recheckYear",
                   "lockPeriod", "draw", "write"}
  \/ /\ op[r] = "postDraft"
     /\ pc[r] \in {"findClosed", "lockDraft", "lockYear", "recheckYear",
                   "lockPeriod", "draw", "write"}

Sealed(a) ==
  /\ acct[a] = "deleted"
  /\ \A r \in Req : AccountsChecked(r) => a \notin Used(ToPost(r))

\* A deleted account takes an entry only from a request that had looked it up
\* before: once none is left, the account never comes back and nothing is ever
\* posted on it again, except to cancel what is there.
DeletedAccountsStaySealed ==
  [][\A a \in Accounts :
       Sealed(a) =>
         /\ Sealed(a)'
         /\ \A e \in NewlyPosted :
              journal'[e].reversalOf = Null => lines'[e][a] = 0]_vars

Pinned(a) ==
  /\ acct[a] # "deleted"
  /\ \E e \in Posted : a \in Used(lines[e])
  /\ \A r \in Req : pc[r] = "tombstone" => acctId[r] # a

\* AccountsService.softDelete, "Cannot delete an account with posted lines": an
\* account with posted lines is deleted only by a request that had counted them
\* before they were there; once none is left, it is never deleted.
UsedAccountsStay == [][\A a \in Accounts : Pinned(a) => Pinned(a)']_vars

-----------------------------------------------------------------------------
(* What the documentation promises and the code does not keep. *)

\* docs/runbooks/domain-glossary.md says of the closing entry: "This zeroes the
\* P&L accounts so the next year starts fresh".  close() computes its lines
\* before the transaction and never again under the lock.
ClosingEntryZeroesProfitLoss ==
  \A y \in Years :
    LockedYear(y) => \A a \in ProfitLoss : MovementsBetween(y)[a] = 0

\* assertPostablePeriodInTx: "shared advisory lock on the fiscal year (close
\* holds the exclusive one)", so no entry is posted into a CLOSED year except by
\* reopen.  The close of a year without movement takes no lock.
ClosedYearTakesNoPost ==
  [][\A e \in NewlyPosted :
       closing[YearOf[journal'[e].date]].status = "CLOSED" =>
         journal'[e].source = "REVERSAL"]_vars

-----------------------------------------------------------------------------
(* Liveness. *)

\* Every request that arrives is answered: it commits or it fails, whatever it
\* has to wait for, with no help from timeouts.
EveryRequestEnds ==
  \A r \in Req : InFlight(r) ~> pc[r] \in {"done", "failed"}

-----------------------------------------------------------------------------
(* The abstract specification it implements. *)

BookOf(y) ==
  [i \in 1 .. (nextNumber[y] - 1) |->
     CHOOSE e \in PostedIn(y) : journal[e].number = i]

B == INSTANCE Books WITH
       Entry <- Req,
       Years <- Years,
       book <- [y \in Years |-> BookOf(y)],
       reversed <- {e \in Req : journal[e].status = "REVERSED"},
       locked <- {y \in Years : LockedYear(y)}

\* Every step of the services is one step of the append-only books, or none: the
\* concurrent numbering of stampPostedInTx appends in number order, reverseInTx
\* cancels once, and a locked year is entered only by reopen.
ImplementsBooks == B!Spec
=============================================================================
