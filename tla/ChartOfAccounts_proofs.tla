----------------------- MODULE ChartOfAccounts_proofs -----------------------
(***************************************************************************)
(* What AccountsService.softDelete and the account check of posting         *)
(* guarantee although neither holds a lock: each is a check made once, and  *)
(* only a request that had already made it can still act against the other. *)
(***************************************************************************)
EXTENDS GeneralLedger_proofs

\* A step of r leaves the context of every other request alone.
LEMMA MoveFrame ==
  ASSUME TypeOK, NEW r \in Req, Move(r)
  PROVE  Frame(r)
<1> USE DEF TypeOK, Frame, Goto, ctx
<1>1. Reject(r) \/ Rollback(r) \/ (Commit(r) /\ UNCHANGED ctx) => Frame(r)
  BY DEF Reject, Rollback, Commit, ReleaseAll
<1>2. CASE Begin(r)
  <2>1. CASE CreateDraft(r) \/ DeleteDraft(r)
    BY <1>1, <2>1 DEF CreateDraft, DeleteDraft
  <2>2. CASE BeginUpdateAccount(r) \/ BeginDeleteAccount(r)
    BY <1>1, <2>2 DEF BeginUpdateAccount, BeginDeleteAccount, BeginAccount
  <2>3. CASE BeginClosePeriod(r)
    BY <1>1, <2>3 DEF BeginClosePeriod, Carry, Acquire
  <2>4. CASE BeginPost(r) \/ BeginOpening(r) \/ BeginPostDraft(r) \/ BeginReverse(r)
             \/ BeginReopenPeriod(r) \/ BeginCloseYear(r) \/ BeginReopenYear(r)
    BY <1>1, <2>4 DEF BeginPost, BeginOpening, BeginPostDraft, BeginReverse, BeginReopenPeriod,
       BeginCloseYear, BeginReopenYear, Carry
  <2> QED BY <1>2, <2>1, <2>2, <2>3, <2>4 DEF Begin
<1>3. CASE Prepare(r)
  BY <1>1, <1>3 DEF Prepare, ReadMovements, LoadClosing, FindOpenPeriod, FindClosedYear,
     AssertPostableAccounts, CountLines
<1>4. CASE Guard(r)
  BY <1>1, <1>4 DEF Guard, LockDraft, LockYearExclusive, RecheckStatus, LockYearShared,
     RecheckYear, LockPeriodShared, NextNumber, Acquire
<1>5. CASE Write(r)
  BY <1>1, <1>5 DEF Write, WritePosted, WriteDraftPosted, WriteReversal, WriteClosing,
     WriteReopened, UpsertClosed, UpdateOpen, SetPeriodClosed, SetPeriodOpen, UpdateAccount,
     TombstoneAccount, SetAccount
<1>6. CASE Abort(r)
  BY <1>1, <1>6 DEF Abort
<1> QED
  BY <1>2, <1>3, <1>4, <1>5, <1>6 DEF Move, Step

\* The lines and the creator of an entry that exists never change.
LEMMA LinesPersist ==
  ASSUME Inv, NEW r \in Req, Move(r), NEW e \in Req, journal[e].status # "none"
  PROVE  /\ lines'[e] = lines[e]
         /\ journal'[e].status # "none"
         /\ journal'[e].createdBy = journal[e].createdBy
<1>0. TypeOK /\ RowOK(r)
  BY DEF Inv, IInv
<1>1. CASE UNCHANGED <<journal, lines>>
  BY <1>1
<1>2. CASE CreateDraft(r)
  <2>1. journal[r].status = "none"
    BY <1>0, <1>2 DEF CreateDraft, Arrives, RowOK, NoRow
  <2> QED BY <1>0, <1>2, <2>1 DEF CreateDraft, TypeOK
<1>3. CASE DeleteDraft(r)
  <2>1. CASE UNCHANGED <<journal, lines>>
    BY <2>1
  <2>2. CASE ~UNCHANGED <<journal, lines>>
    <3>1. PICK d \in Req :
            IsDraft(d) /\ journal' = [journal EXCEPT ![d].deletedAt = "set"] /\ UNCHANGED lines
      BY <1>3, <2>2 DEF DeleteDraft, Reject, db
    <3>2. journal[d] \in EntryRow /\ journal'[d] = [journal[d] EXCEPT !.deletedAt = "set"]
          /\ \A f \in Req \ {d} : journal'[f] = journal[f]
      BY <1>0, <3>1 DEF TypeOK
    <3>3. journal'[d].status = journal[d].status /\ journal'[d].createdBy = journal[d].createdBy
      BY <3>2 DEF EntryRow
    <3> QED BY <3>1, <3>2, <3>3
  <2> QED BY <2>1, <2>2
<1>4. CASE WritePosted(r) \/ WriteClosing(r)
  <2>1. journal[r].status = "none"
    BY <1>4, WriterKnows DEF WritePosted, WriteClosing
  <2> QED BY <1>0, <1>4, <2>1 DEF WritePosted, WriteClosing, CreatePostedEntry, TypeOK
<1>5. CASE WriteDraftPosted(r)
  <2>1. PICK d \in Req : d = tgt[r]
    BY <1>5, WriterKnows DEF WriteDraftPosted, Own, TargetKnown
  <2>2. /\ journal[d] \in EntryRow /\ UNCHANGED lines
        /\ journal'[d] = [journal[d] EXCEPT !.status = "POSTED", !.number = num[r],
                                             !.postedBy = UserOf[r]]
        /\ \A f \in Req \ {d} : journal'[f] = journal[f]
    BY <1>0, <1>5, <2>1 DEF WriteDraftPosted, TypeOK
  <2>3. journal'[d].status = "POSTED" /\ journal'[d].createdBy = journal[d].createdBy
    BY <2>2 DEF EntryRow
  <2> QED BY <2>2, <2>3
<1>6. CASE (WriteReversal(r) \/ WriteReopened(r)) /\ CreateReversal(r)
  <2>0. Own(r) /\ pc[r] = "write" /\ journal[r].status = "none" /\ op[r] \in {"reverse", "reopenYear"}
    BY <1>6, WriterKnows DEF WriteReversal, WriteReopened
  <2>1. PICK o \in Req : o = tgt[r] /\ o # r /\ journal[o] \in EntryRow
    BY <1>0, <2>0 DEF Own, TargetKnown, InFlight, TypeOK
  <2>2. /\ journal'[o] = [journal[o] EXCEPT !.status = "REVERSED"]
        /\ \A f \in Req \ {r, o} : journal'[f] = journal[f]
        /\ \A f \in Req \ {r} : lines'[f] = lines[f]
    BY <1>0, <1>6, <2>1 DEF CreateReversal, TypeOK
  <2>3. journal'[o].status = "REVERSED" /\ journal'[o].createdBy = journal[o].createdBy
    BY <2>1, <2>2 DEF EntryRow
  <2> QED BY <2>0, <2>2, <2>3
<1> QED
  BY <1>1, <1>2, <1>3, <1>4, <1>5, <1>6, WhoWrites

\* Who changes accounts: update never deletes, softDelete has passed its count,
\* and neither touches a deleted row.
LEMMA WhoEdits ==
  ASSUME TypeOK, NEW r \in Req, Move(r), NEW a \in Accounts, acct'[a] # acct[a]
  PROVE  /\ pc[r] \in {"setActive", "tombstone"} /\ pc'[r] = "done"
         /\ acctId[r] = a /\ acct[a] # "deleted"
         /\ acct'[a] = "deleted" => pc[r] = "tombstone"
<1>1. UNCHANGED acct \/ UpdateAccount(r) \/ TombstoneAccount(r)
  <2>1. Reject(r) \/ Rollback(r) => UNCHANGED acct
    BY DEF Reject, Rollback, db
  <2>2. CASE Begin(r)
    BY <2>1, <2>2 DEF Begin, BeginPost, BeginOpening, BeginPostDraft, BeginReverse,
       BeginClosePeriod, BeginReopenPeriod, BeginCloseYear, BeginReopenYear, BeginUpdateAccount,
       BeginDeleteAccount, BeginAccount, CreateDraft, DeleteDraft, db
  <2>3. CASE Prepare(r)
    BY <2>1, <2>3 DEF Prepare, ReadMovements, LoadClosing, FindOpenPeriod, FindClosedYear,
       AssertPostableAccounts, CountLines, db
  <2>4. CASE Guard(r)
    BY <2>1, <2>4 DEF Guard, LockDraft, LockYearExclusive, RecheckStatus, LockYearShared,
       RecheckYear, LockPeriodShared, NextNumber, db
  <2>5. CASE Write(r)
    BY <2>1, <2>5 DEF Write, WritePosted, WriteDraftPosted, WriteReversal, WriteClosing,
       WriteReopened, UpsertClosed, UpdateOpen, SetPeriodClosed, SetPeriodOpen
  <2>6. CASE Abort(r)
    BY <2>1, <2>6 DEF Abort
  <2> QED BY <2>2, <2>3, <2>4, <2>5, <2>6 DEF Move, Step
<1>2. CASE UpdateAccount(r)
  BY <1>2 DEF UpdateAccount, SetAccount, TypeOK, Goto, Reject, db
<1>3. CASE TombstoneAccount(r)
  BY <1>3 DEF TombstoneAccount, SetAccount, TypeOK, Goto, Reject, db
<1> QED
  BY <1>1, <1>2, <1>3

\* A request is about to delete its account only after it has found no posted line
\* on it.
LEMMA WhoDeletes ==
  ASSUME TypeOK, NEW r \in Req, Move(r), pc'[r] = "tombstone"
  PROVE  acctId'[r] = acctId[r] /\ ~ \E e \in Posted : acctId[r] \in Used(lines[e])
<1> USE DEF TypeOK, Goto, ctx
<1>1. ~Reject(r) /\ ~Rollback(r) /\ ~Commit(r)
  BY DEF Reject, Rollback, Commit
<1>2. ~Begin(r)
  BY <1>1 DEF Begin, BeginPost, BeginOpening, BeginPostDraft, BeginReverse,
     BeginClosePeriod, BeginReopenPeriod, BeginCloseYear, BeginReopenYear, BeginUpdateAccount,
     BeginDeleteAccount, BeginAccount, CreateDraft, DeleteDraft
<1>3. ~Guard(r) /\ ~Abort(r)
  BY <1>1 DEF Abort, Guard, LockDraft, LockYearExclusive, RecheckStatus, LockYearShared,
     RecheckYear, LockPeriodShared, NextNumber
<1>4. ~Write(r)
  BY <1>1 DEF Write, WritePosted, WriteDraftPosted, WriteReversal, WriteClosing,
     WriteReopened, UpsertClosed, UpdateOpen, SetPeriodClosed, SetPeriodOpen, UpdateAccount,
     TombstoneAccount, SetAccount
<1>5. CountLines(r)
  BY <1>1, <1>2, <1>3, <1>4 DEF Move, Step, Prepare, ReadMovements, LoadClosing, FindOpenPeriod,
     FindClosedYear, AssertPostableAccounts, AfterFindPeriod, AfterFindClosed, AfterAccounts
<1> QED
  BY <1>1, <1>5 DEF CountLines

\* A request has its accounts checked only if it had, or has just found every one
\* of them active; and then what it will post does not change.
LEMMA WhoChecks ==
  ASSUME Inv, NEW r \in Req, Move(r), AccountsChecked(r)'
  PROVE  /\ InFlight(r) /\ op'[r] = op[r] /\ tgt'[r] = tgt[r] /\ buf'[r] = buf[r]
         /\ AccountsChecked(r) \/ \A a \in Used(ToPost(r)) : acct[a] = "active"
<1>0. TypeOK /\ OpAtStep(r)
  BY DEF Inv, IInv
<1> USE DEF TypeOK, Goto, ctx
<1>1. pc'[r] \in {"lockYearX", "recheckStatus", "lockYear", "recheckYear", "lockPeriod", "draw",
                  "write", "findClosed", "lockDraft"}
  BY DEF AccountsChecked
<1>2. ~Reject(r) /\ ~Rollback(r) /\ ~Commit(r)
  BY <1>0, <1>1 DEF Reject, Rollback, Commit
<1>3. ~Begin(r)
  BY <1>0, <1>1, <1>2 DEF Begin, BeginPost, BeginOpening, BeginPostDraft, BeginReverse,
     BeginClosePeriod, BeginReopenPeriod, BeginCloseYear, BeginReopenYear, BeginUpdateAccount,
     BeginDeleteAccount, BeginAccount, CreateDraft, DeleteDraft
<1>4. ~Write(r) /\ ~Abort(r)
  BY <1>0, <1>1, <1>2 DEF Abort, Write, WritePosted, WriteDraftPosted, WriteReversal, WriteClosing,
     WriteReopened, UpsertClosed, UpdateOpen, SetPeriodClosed, SetPeriodOpen, UpdateAccount,
     TombstoneAccount, SetAccount
<1>i. Prepare(r) \/ Guard(r) => InFlight(r)
  BY DEF Prepare, ReadMovements, LoadClosing, FindOpenPeriod, FindClosedYear,
     AssertPostableAccounts, CountLines, Guard, LockDraft, LockYearExclusive, RecheckStatus,
     LockYearShared, RecheckYear, LockPeriodShared, NextNumber, InFlight
<1>5. CASE Prepare(r)
  <2>1. ~ReadMovements(r) /\ ~LoadClosing(r) /\ ~CountLines(r)
    BY <1>0, <1>1, <1>2 DEF ReadMovements, LoadClosing, CountLines
  <2>2. CASE FindOpenPeriod(r, AfterFindPeriod(op[r]))
    BY <1>0, <1>2, <1>5, <1>i, <2>2 DEF FindOpenPeriod, AfterFindPeriod, AccountsChecked
  <2>3. CASE FindClosedYear(r, AfterFindClosed(op[r]))
    BY <1>0, <1>2, <1>5, <1>i, <2>3 DEF FindClosedYear, AfterFindClosed, AccountsChecked
  <2>4. CASE AssertPostableAccounts(r, ToPost(r), AfterAccounts(op[r]))
    BY <1>0, <1>2, <1>5, <1>i, <2>4 DEF AssertPostableAccounts
  <2> QED BY <1>5, <2>1, <2>2, <2>3, <2>4 DEF Prepare
<1>6. CASE Guard(r)
  <2>1. UNCHANGED <<op, tgt, buf>>
    BY <1>2, <1>6 DEF Guard, LockDraft, LockYearExclusive, RecheckStatus, LockYearShared,
       RecheckYear, LockPeriodShared, NextNumber
  <2>2. AccountsChecked(r)
    BY <1>0, <1>6, <2>1 DEF Guard, LockDraft, LockYearExclusive, RecheckStatus, LockYearShared,
       RecheckYear, LockPeriodShared, NextNumber, OpAtStep, AccountsChecked
  <2> QED BY <1>6, <1>i, <2>1, <2>2
<1> QED
  BY <1>3, <1>4, <1>5, <1>6 DEF Move, Step

\* An entry that reverses nothing is posted with the lines whose accounts its
\* request had checked.
LEMMA WhoPostsLines ==
  ASSUME Inv, NEW r \in Req, Move(r), NEW e \in Posted' \ Posted, journal'[e].reversalOf = Null
  PROVE  AccountsChecked(r) /\ lines'[e] = ToPost(r)
<1>0. TypeOK /\ e \in Req
  BY DEF Inv, Posted
<1>w. pc[r] = "write"
  BY WhoPosts
<1>1. CASE UNCHANGED <<journal, lines>>
  BY <1>1 DEF Posted
<1>2. CASE CreateDraft(r) \/ DeleteDraft(r)
  BY <1>w, <1>2 DEF CreateDraft, DeleteDraft, Arrives
<1>3. CASE WritePosted(r) \/ WriteClosing(r)
  <2>1. lines'[r] = buf[r] /\ \A f \in Req \ {r} : journal'[f] = journal[f]
    BY <1>0, <1>3 DEF WritePosted, WriteClosing, CreatePostedEntry, TypeOK
  <2>2. e = r
    BY <1>0, <2>1 DEF Posted
  <2> QED BY <1>w, <1>3, <2>1, <2>2 DEF WritePosted, WriteClosing, AccountsChecked, ToPost
<1>4. CASE WriteDraftPosted(r)
  <2>1. tgt[r] \in Req
    BY <1>w, <1>4, WriterKnows DEF WriteDraftPosted, Own, TargetKnown
  <2>2. UNCHANGED lines /\ \A f \in Req \ {tgt[r]} : journal'[f] = journal[f]
    BY <1>0, <1>4, <2>1 DEF WriteDraftPosted, TypeOK
  <2>3. e = tgt[r]
    BY <1>0, <2>2 DEF Posted
  <2> QED BY <1>w, <1>4, <2>2, <2>3 DEF WriteDraftPosted, AccountsChecked, ToPost
<1>5. CASE (WriteReversal(r) \/ WriteReopened(r)) /\ CreateReversal(r)
  <2>0. Own(r) /\ journal[r].status = "none" /\ op[r] \in {"reverse", "reopenYear"}
    BY <1>w, <1>5, WriterKnows DEF WriteReversal, WriteReopened
  <2>1. PICK o \in Req : /\ o = tgt[r] /\ o # r /\ journal[o].status \in {"POSTED", "REVERSED"}
                         /\ journal[o] \in EntryRow
    BY <1>0, <1>w, <2>0 DEF Own, TargetKnown, InFlight, TypeOK
  <2>2. /\ journal'[r] = PostedRow(r, "REVERSAL", o)
        /\ journal'[o] = [journal[o] EXCEPT !.status = "REVERSED"]
        /\ \A f \in Req \ {r, o} : journal'[f] = journal[f]
    BY <1>0, <1>5, <2>1 DEF CreateReversal, TypeOK
  <2>3. journal'[o].deletedAt = journal[o].deletedAt
    BY <2>1, <2>2 DEF EntryRow
  <2>4. e = r
    BY <1>0, <2>1, <2>2, <2>3 DEF Posted
  <2> QED BY <2>1, <2>2, <2>4, LedgerAssumption DEF PostedRow
<1> QED
  BY <1>1, <1>2, <1>3, <1>4, <1>5, WhoWrites

\* AccountsService.softDelete: the count before the delete is enough for every
\* account that has posted lines and no request past its count.
THEOREM UsedAccountsAreKept == Spec => UsedAccountsStay
<1> DEFINE Kept ==
      \A e \in Req :
        /\ e \in Posted =>
             /\ e \in Posted'
             /\ lines'[e] = lines[e]
             /\ journal'[e] \in {journal[e], [journal[e] EXCEPT !.status = "REVERSED"]}
        /\ journal[e].deletedAt # Null => journal'[e] = journal[e]
<1> DEFINE A == \A a \in Accounts : Pinned(a) => Pinned(a)'
<1>1. ASSUME Inv, [Next]_vars, [Kept]_vars PROVE [A]_vars
  <2>1. ASSUME NEW r \in Req, Move(r), Kept PROVE A
    <3> SUFFICES ASSUME NEW a \in Accounts, Pinned(a) PROVE Pinned(a)'
      OBVIOUS
    <3>0. TypeOK /\ Frame(r)
      BY <1>1, <2>1, MoveFrame DEF Inv
    <3>1. PICK e \in Posted : a \in Used(lines[e])
      BY DEF Pinned
    <3>2. e \in Posted' /\ a \in Used(lines'[e])
      BY <2>1, <3>1 DEF Posted
    <3>3. acct'[a] # "deleted"
      BY <2>1, <3>0, WhoEdits DEF Pinned
    <3>4. ASSUME NEW q \in Req, pc'[q] = "tombstone" PROVE acctId'[q] # a
      <4>1. CASE q = r
        BY <2>1, <3>0, <3>1, <3>4, <4>1, WhoDeletes
      <4>2. CASE q # r
        BY <3>0, <3>4, <4>2 DEF Frame, Pinned
      <4> QED BY <4>1, <4>2
    <3> QED BY <3>2, <3>3, <3>4 DEF Pinned, Used
  <2> QED BY <1>1, <2>1 DEF Next, Idle, Move
<1> QED
  BY <1>1, Inductive, PostedForEver, PTL DEF Spec, UsedAccountsStay, PostedIsPermanent

\* assertPostableAccounts: nothing reaches a deleted account but what was checked
\* before it was deleted, and reversals; and a deleted account never comes back.
THEOREM DeletedAccountsAreSealed == Spec => DeletedAccountsStaySealed
<1> DEFINE A ==
      \A a \in Accounts :
        Sealed(a) =>
          /\ Sealed(a)'
          /\ \A e \in NewlyPosted : journal'[e].reversalOf = Null => lines'[e][a] = 0
<1>1. ASSUME Inv, [Next]_vars PROVE [A]_vars
  <2>1. ASSUME NEW r \in Req, Move(r) PROVE A
    <3> SUFFICES ASSUME NEW a \in Accounts, Sealed(a)
                 PROVE  /\ Sealed(a)'
                        /\ \A e \in NewlyPosted : journal'[e].reversalOf = Null => lines'[e][a] = 0
      OBVIOUS
    <3>0. TypeOK /\ Frame(r) /\ acct[a] = "deleted"
          /\ \A q \in Req : AccountsChecked(q) => a \notin Used(ToPost(q))
      BY <1>1, <2>1, MoveFrame DEF Inv, Sealed
    <3>1. acct'[a] = "deleted"
      BY <2>1, <3>0, WhoEdits
    <3>2. ASSUME NEW q \in Req, AccountsChecked(q)' PROVE a \notin Used(ToPost(q)')
      <4>1. /\ op'[q] = op[q] /\ tgt'[q] = tgt[q] /\ buf'[q] = buf[q]
            /\ a \notin Used(ToPost(q))
        <5>1. CASE q = r
          BY <1>1, <2>1, <3>0, <3>2, <5>1, WhoChecks
        <5>2. CASE q # r
          BY <3>0, <3>2, <5>2 DEF Frame, AccountsChecked
        <5> QED BY <5>1, <5>2
      <4>2. CASE op[q] = "postDraft"
        <5>1. InFlight(q)'
          BY <3>2 DEF AccountsChecked, InFlight
        <5>2. InFlight(q)
          BY <1>1, <2>1, <3>0, <3>2, <5>1, WhoChecks DEF Frame, InFlight
        <5>3. tgt[q] \in Req /\ journal[tgt[q]].status # "none"
          BY <1>1, <4>2, <5>2 DEF Inv, IInv, TargetKnown
        <5>4. lines'[tgt[q]] = lines[tgt[q]]
          BY <1>1, <2>1, <5>3, LinesPersist
        <5> QED BY <4>1, <4>2, <5>4 DEF ToPost
      <4>3. CASE op[q] # "postDraft"
        BY <4>1, <4>3 DEF ToPost
      <4> QED BY <4>2, <4>3
    <3>3. Sealed(a)'
      BY <3>1, <3>2 DEF Sealed, Used
    <3>4. ASSUME NEW e \in NewlyPosted, journal'[e].reversalOf = Null PROVE lines'[e][a] = 0
      BY <1>1, <2>1, <3>0, <3>4, WhoPostsLines DEF NewlyPosted, Used
    <3> QED BY <3>3, <3>4
  <2> QED BY <1>1, <2>1 DEF Next, Idle, Move
<1> QED
  BY <1>1, Inductive, PTL DEF Spec, DeletedAccountsStaySealed
=============================================================================
