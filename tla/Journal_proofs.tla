--------------------------- MODULE Journal_proofs ---------------------------
(***************************************************************************)
(* What every journal entry satisfies, for any number of requests, accounts *)
(* and periods: it balances, and it was posted by somebody else than its    *)
(* creator where that is required.  Then that the services implement the    *)
(* append-only books, and that their locks never make a circle.             *)
(***************************************************************************)
EXTENDS ChartOfAccounts_proofs, Sums_proofs, SequenceTheorems

-----------------------------------------------------------------------------
(* The arithmetic of balanced lines. *)

LEMMA TotalIsSum == ASSUME NEW v, NEW S PROVE Total(v, S) = SumOver(v, S)
BY DEF Total, SumOver

\* buildReversal: the mirror of balanced lines is balanced.
LEMMA SwappedBalances ==
  ASSUME NEW v \in Lines, AssertBalanced(v)
  PROVE  Swapped(v) \in Lines /\ AssertBalanced(Swapped(v))
<1>1. Swapped(v) \in Lines
  BY DEF Swapped, Lines
<1>2. SumOver(Swapped(v), Accounts) = -SumOver(v, Accounts)
  <2>1. \A x \in Accounts : v[x] \in Int /\ Swapped(v)[x] = -v[x]
    BY DEF Swapped, Lines
  <2> QED BY <2>1, LedgerAssumption, SumNegated
<1>3. SumOver(v, Accounts) = 0
  BY TotalIsSum DEF AssertBalanced
<1> QED BY <1>1, <1>2, <1>3, TotalIsSum DEF AssertBalanced

\* postOpeningBalances: the plug on the equity account makes any lines balance.
LEMMA PluggedBalances ==
  ASSUME NEW v \in Lines
  PROVE  Plugged(v) \in Lines /\ AssertBalanced(Plugged(v))
<1> DEFINE t == SumOver(v, Accounts)
           w == Plugged(v)
           R == Accounts \ {Equity}
<1>0. Equity \in Accounts /\ IsFiniteSet(Accounts) /\ IsFiniteSet(R)
  BY LedgerAssumption, PostingAssumption, FS_Subset
<1>1. t \in Int /\ SumOver(v, R) \in Int /\ v[Equity] \in Int
  BY <1>0, SumType DEF Lines
<1>2. w = [v EXCEPT ![Equity] = v[Equity] - t]
  BY TotalIsSum DEF Plugged
<1>3. w \in Lines /\ w[Equity] = v[Equity] - t /\ \A x \in R : w[x] = v[x]
  BY <1>0, <1>1, <1>2 DEF Lines
<1> HIDE DEF w, t
<1>4. SumOver(w, R) = SumOver(v, R)
  BY <1>0, <1>3, SumSame
<1>5. SumOver(w, Accounts) = w[Equity] + SumOver(w, R)
  BY <1>0, <1>3, SumTake DEF Lines
<1>6. t = v[Equity] + SumOver(v, R)
  BY <1>0, SumTake DEF Lines, t
<1>7. SumOver(w, Accounts) = 0
  BY <1>1, <1>3, <1>4, <1>5, <1>6
<1> QED BY <1>3, <1>7, TotalIsSum DEF AssertBalanced, w

\* close: the mirrored profit-and-loss positions and the net income on retained
\* earnings balance, whatever the movements are.
LEMMA ClosingBalances ==
  ASSUME NEW m \in Lines
  PROVE  ClosingLines(m) \in Lines /\ AssertBalanced(ClosingLines(m))
<1> DEFINE c == ClosingLines(m)
           n == SumOver(m, ProfitLoss)
           R == Accounts \ ProfitLoss
           Q == R \ {Retained}
<1>0. /\ Retained \in R /\ ProfitLoss \in SUBSET Accounts
      /\ IsFiniteSet(Accounts) /\ IsFiniteSet(ProfitLoss) /\ IsFiniteSet(R) /\ IsFiniteSet(Q)
  BY LedgerAssumption, YearEndAssumption, FS_Subset
<1>1. n \in Int
  BY <1>0, SumType DEF Lines
<1>2. c = [a \in Accounts |-> IF a \in ProfitLoss THEN -m[a] ELSE IF a = Retained THEN n ELSE 0]
  BY TotalIsSum DEF ClosingLines
<1>3. /\ c \in Lines
      /\ \A a \in ProfitLoss : m[a] \in Int /\ c[a] = -m[a]
      /\ c[Retained] = n
      /\ \A a \in Q : c[a] = 0
  BY <1>0, <1>1, <1>2 DEF Lines
<1> HIDE DEF c, n
<1>4. SumOver(c, ProfitLoss) = -n
  BY <1>0, <1>3, SumNegated DEF n
<1>5. SumOver(c, Q) = 0
  BY <1>0, <1>3, SumZero
<1>6. SumOver(c, R) = c[Retained] + SumOver(c, Q)
  BY <1>0, <1>3, SumTake DEF Lines
<1>7. SumOver(c, Accounts) = SumOver(c, ProfitLoss) + SumOver(c, R)
  BY <1>0, <1>3, SumSplit DEF Lines
<1>8. SumOver(c, Accounts) = 0
  BY <1>1, <1>3, <1>4, <1>5, <1>6, <1>7
<1> QED BY <1>3, <1>8, TotalIsSum DEF AssertBalanced, c

\* The posted entries of a year are finitely many: they are numbered.
LEMMA PostedInFinite ==
  ASSUME Inv, NEW y \in Years
  PROVE  IsFiniteSet(PostedIn(y))
<1> DEFINE I == 1 .. (nextNumber[y] - 1)
           f == [e \in PostedIn(y) |-> journal[e].number]
<1>1. nextNumber[y] - 1 \in Int
  BY DEF Inv, TypeOK
<1>2. IsFiniteSet(I)
  BY <1>1, FS_Interval
<1>3. f \in Injection(PostedIn(y), I)
  <2>1. /\ {journal[e].number : e \in PostedIn(y)} = I
        /\ \A d, e \in PostedIn(y) : journal[d].number = journal[e].number => d = e
    BY DEF Inv, IInv, GaplessNumbering
  <2>2. f \in [PostedIn(y) -> I]
    BY <2>1
  <2>3. \A d, e \in PostedIn(y) : f[d] = f[e] => d = e
    BY <2>1
  <2> QED BY <2>2, <2>3 DEF Injection, IsInjective
<1> QED BY <1>2, <1>3, FS_Injection

\* BalancesService.movementsBetween returns an amount for every account.
LEMMA MovementsType ==
  ASSUME Inv, lines \in [Req -> Lines], NEW y \in Years
  PROVE  MovementsBetween(y) \in Lines
<1> DEFINE S == PostedIn(y)
           v(a) == [e \in S |-> lines[e][a]]
<1>1. IsFiniteSet(S) /\ S \subseteq Req
  BY PostedInFinite DEF PostedIn, Posted
<1>2. ASSUME NEW a \in Accounts PROVE SumOver(v(a), S) \in Int
  <2>1. \A e \in S : v(a)[e] \in Int
    BY <1>1 DEF Lines
  <2> HIDE DEF v
  <2> QED BY <1>1, <2>1, SumType
<1> QED BY <1>2 DEF MovementsBetween, GroupedBalances, Lines

-----------------------------------------------------------------------------
(* What a step does to the posted entries. *)

\* The posted entries and the counters stay as they are.
Quiet ==
  /\ UNCHANGED nextNumber
  /\ Posted' = Posted
  /\ \A f \in Posted : journal'[f] = journal[f] /\ lines'[f] = lines[f]

\* Request r posts entry e, and no other, with the number it has drawn.
Enters(r, e) ==
  /\ pc[r] = "write" /\ e \in Req \ Posted
  /\ Increment(r)
  /\ Posted' = Posted \cup {e}
  /\ journal'[e].status = "POSTED"
  /\ journal'[e].date = date[r] /\ journal'[e].number = num[r]
  /\ journal'[e].postedBy = UserOf[r]

\* The three ways to do it: an entry written at once, a draft, a reversal.
EntersNew(r, e) ==
  /\ op[r] \in {"post", "opening", "closeYear"} /\ e = r
  /\ journal'[e].source = "MANUAL" => op[r] = "post"
  /\ journal'[e].reversalOf = Null
  /\ lines'[e] = buf[r]
  /\ \A f \in Posted : journal'[f] = journal[f] /\ lines'[f] = lines[f]

EntersDraft(r, e) ==
  /\ op[r] = "postDraft" /\ e = tgt[r]
  /\ journal'[e].createdBy = journal[e].createdBy
  /\ journal'[e].reversalOf = Null
  /\ lines'[e] = lines[e]
  /\ \A f \in Posted : journal'[f] = journal[f] /\ lines'[f] = lines[f]

EntersReversal(r, e) ==
  /\ op[r] \in {"reverse", "reopenYear"} /\ e = r
  /\ tgt[r] \in Posted /\ journal[tgt[r]].status = "POSTED" /\ journal[tgt[r]].date = date[r]
  /\ journal'[tgt[r]] = [journal[tgt[r]] EXCEPT !.status = "REVERSED"]
  /\ journal'[e].source = "REVERSAL" /\ journal'[e].reversalOf = tgt[r]
  /\ lines'[e] = buf[r] /\ buf[r] = Swapped(lines[tgt[r]])
  /\ \A f \in Posted : lines'[f] = lines[f]
  /\ \A f \in Posted \ {tgt[r]} : journal'[f] = journal[f]

\* createPostedEntryInTx posts one new entry.
LEMMA CreateEffect ==
  ASSUME Inv, NEW r \in Req, WritePosted(r) \/ WriteClosing(r)
  PROVE  Enters(r, r) /\ EntersNew(r, r)
<1>0. TypeOK /\ pc[r] = "write" /\ journal[r].status = "none" /\ op[r] \in {"post", "opening", "closeYear"}
  BY WriterKnows DEF Inv, WritePosted, WriteClosing
<1>1. PICK s \in Sources : CreatePostedEntry(r, s) /\ (s = "MANUAL" => op[r] = "post")
  BY DEF WritePosted, WriteClosing, Sources
<1>2. /\ journal'[r] = PostedRow(r, s, Null) /\ lines'[r] = buf[r] /\ Increment(r)
      /\ \A f \in Req \ {r} : journal'[f] = journal[f] /\ lines'[f] = lines[f]
  BY <1>0, <1>1 DEF CreatePostedEntry, TypeOK
<1>3. /\ journal'[r].status = "POSTED" /\ journal'[r].deletedAt = Null
      /\ journal'[r].date = date[r] /\ journal'[r].number = num[r] /\ journal'[r].postedBy = UserOf[r]
      /\ journal'[r].source = s /\ journal'[r].reversalOf = Null
  BY <1>2 DEF PostedRow
<1>4. r \notin Posted /\ Posted \subseteq Req
  BY <1>0 DEF Posted
<1>5. Posted' = Posted \cup {r}
  BY <1>2, <1>3 DEF Posted
<1> QED BY <1>0, <1>1, <1>2, <1>3, <1>4, <1>5 DEF Enters, EntersNew

\* postDraft posts the draft it has locked.
LEMMA DraftEffect ==
  ASSUME Inv, NEW r \in Req, WriteDraftPosted(r)
  PROVE  Enters(r, tgt[r]) /\ EntersDraft(r, tgt[r])
<1>0. TypeOK /\ pc[r] = "write" /\ op[r] = "postDraft" /\ Own(r) /\ Stamping(r)
      /\ \A e \in Req : RowOK(e)
  BY WriterKnows DEF Inv, WriteDraftPosted
<1>1. PICK d \in Req : d = tgt[r] /\ journal[d].date = date[r] /\ IsDraft(d) /\ journal[d] \in EntryRow
  BY <1>0 DEF Own, TargetKnown, InFlight, LocksHeld, TypeOK
<1>2. /\ journal'[d] = [journal[d] EXCEPT !.status = "POSTED", !.number = num[r],
                                           !.postedBy = UserOf[r]]
      /\ \A f \in Req \ {d} : journal'[f] = journal[f]
      /\ UNCHANGED lines /\ Increment(r)
  BY <1>0, <1>1 DEF WriteDraftPosted, TypeOK
<1>3. /\ journal'[d].status = "POSTED" /\ journal'[d].deletedAt = Null
      /\ journal'[d].date = date[r] /\ journal'[d].number = num[r] /\ journal'[d].postedBy = UserOf[r]
      /\ journal'[d].createdBy = journal[d].createdBy
      /\ journal'[d].reversalOf = journal[d].reversalOf
  BY <1>1, <1>2 DEF EntryRow, IsDraft
<1>4. d \notin Posted /\ Posted \subseteq Req /\ journal[d].reversalOf = Null
  BY <1>0, <1>1 DEF Posted, IsDraft, RowOK
<1>5. Posted' = Posted \cup {d}
  BY <1>2, <1>3 DEF Posted
<1> QED BY <1>0, <1>1, <1>2, <1>3, <1>4, <1>5 DEF Enters, EntersDraft

\* reverseInTx posts the mirror of an entry that stands, and marks that entry.
LEMMA ReversalEffect ==
  ASSUME Inv, NEW r \in Req, WriteReversal(r) \/ WriteReopened(r), CreateReversal(r)
  PROVE  Enters(r, r) /\ EntersReversal(r, r)
<1>0. /\ TypeOK /\ pc[r] = "write" /\ op[r] \in {"reverse", "reopenYear"} /\ Own(r)
      /\ journal[r].status = "none" /\ \A e \in Req : RowOK(e)
  BY WriterKnows DEF Inv, WriteReversal, WriteReopened
<1>1. PICK o \in Req :
        /\ o = tgt[r] /\ o # r /\ journal[o].status \in {"POSTED", "REVERSED"}
        /\ journal[o] \in EntryRow /\ journal[o].date = date[r] /\ buf[r] = Swapped(lines[o])
  BY <1>0 DEF Own, TargetKnown, InFlight, TypeOK
<1>2. /\ journal'[r] = PostedRow(r, "REVERSAL", o) /\ lines'[r] = buf[r] /\ Increment(r)
      /\ journal'[o] = [journal[o] EXCEPT !.status = "REVERSED"]
      /\ \A f \in Req \ {r} : lines'[f] = lines[f]
      /\ \A f \in Req \ {r, o} : journal'[f] = journal[f]
  BY <1>0, <1>1 DEF CreateReversal, TypeOK
<1>3. /\ journal'[r].status = "POSTED" /\ journal'[r].deletedAt = Null
      /\ journal'[r].date = date[r] /\ journal'[r].number = num[r] /\ journal'[r].postedBy = UserOf[r]
      /\ journal'[r].source = "REVERSAL" /\ journal'[r].reversalOf = o
  BY <1>2 DEF PostedRow
<1>4. journal'[o].status = "REVERSED" /\ journal'[o].deletedAt = journal[o].deletedAt
  BY <1>1, <1>2 DEF EntryRow
<1>5. journal[o].status = "POSTED"
  <2>1. SUFFICES ASSUME AlreadyReversed(o) PROVE FALSE
    BY <1>0, <1>1 DEF RowOK
  <2>2. UNCHANGED journal
    BY <1>1, <2>1 DEF WriteReversal, WriteReopened, Rollback, db
  <2> QED BY <1>0, <1>3, <2>2
<1>6. o \in Posted /\ r \notin Posted /\ Posted \subseteq Req
  BY <1>0, <1>1, <1>5 DEF Posted, RowOK
<1>7. Posted' = Posted \cup {r}
  <2>1. o \in Posted'
    BY <1>4, <1>6 DEF Posted
  <2>2. r \in Posted' /\ Posted' \subseteq Req
    BY <1>3 DEF Posted
  <2>3. \A f \in Req \ {r, o} : f \in Posted' <=> f \in Posted
    BY <1>2 DEF Posted
  <2> QED BY <1>6, <2>1, <2>2, <2>3
<1> QED
  BY <1>0, <1>1, <1>2, <1>3, <1>5, <1>6, <1>7 DEF Enters, EntersReversal

\* Creating and deleting drafts does not touch what is posted.
LEMMA DraftsAreQuiet ==
  ASSUME Inv, NEW r \in Req, CreateDraft(r) \/ DeleteDraft(r)
  PROVE  Quiet
<1>0. TypeOK /\ RowOK(r)
  BY DEF Inv, IInv
<1>1. CASE CreateDraft(r)
  <2>1. PICK p \in Periods : journal' = [journal EXCEPT ![r] = DraftRow(r, p)]
    BY <1>1 DEF CreateDraft
  <2>2. journal'[r].status = "DRAFT" /\ \A f \in Req \ {r} : journal'[f] = journal[f]
    BY <1>0, <2>1 DEF TypeOK, DraftRow
  <2>3. r \notin Posted
    BY <1>0, <1>1 DEF CreateDraft, Arrives, RowOK, NoRow, Posted
  <2>4. \A f \in Req \ {r} : lines'[f] = lines[f]
    BY <1>0, <1>1 DEF CreateDraft, TypeOK
  <2>5. UNCHANGED nextNumber
    BY <1>1 DEF CreateDraft
  <2>6. Posted' = Posted
    BY <2>2, <2>3 DEF Posted
  <2> QED BY <2>2, <2>3, <2>4, <2>5, <2>6 DEF Quiet, Posted
<1>2. CASE DeleteDraft(r)
  <2>1. CASE UNCHANGED <<journal, lines, nextNumber>>
    BY <2>1 DEF Quiet, Posted
  <2>2. CASE ~UNCHANGED <<journal, lines, nextNumber>>
    <3>1. PICK d \in Req : /\ IsDraft(d) /\ journal' = [journal EXCEPT ![d].deletedAt = "set"]
                           /\ UNCHANGED <<lines, nextNumber>>
      BY <1>2, <2>2 DEF DeleteDraft, Reject, db
    <3>2. journal[d] \in EntryRow /\ journal'[d] = [journal[d] EXCEPT !.deletedAt = "set"]
          /\ \A f \in Req \ {d} : journal'[f] = journal[f]
      BY <1>0, <3>1 DEF TypeOK
    <3>3. journal'[d].status = "DRAFT" /\ d \notin Posted
      BY <3>1, <3>2 DEF EntryRow, IsDraft, Posted
    <3>4. Posted' = Posted
      BY <3>2, <3>3 DEF Posted
    <3> QED BY <3>1, <3>2, <3>3, <3>4 DEF Quiet, Posted
  <2> QED BY <2>1, <2>2
<1> QED BY <1>1, <1>2

\* Only the steps that write a row move the counters.
LEMMA WhoCounts ==
  ASSUME NEW r \in Req, Move(r), ~UNCHANGED nextNumber
  PROVE  Write(r) /\ pc[r] = "write"
<1>1. ~Reject(r) /\ ~Rollback(r)
  BY DEF Reject, Rollback, db
<1>2. ~Begin(r)
  BY <1>1 DEF Begin, BeginPost, BeginOpening, BeginPostDraft, BeginReverse,
     BeginClosePeriod, BeginReopenPeriod, BeginCloseYear, BeginReopenYear, BeginUpdateAccount,
     BeginDeleteAccount, BeginAccount, CreateDraft, DeleteDraft, db
<1>3. ~Prepare(r)
  BY <1>1 DEF Prepare, ReadMovements, LoadClosing, FindOpenPeriod, FindClosedYear,
     AssertPostableAccounts, CountLines, db
<1>4. ~Guard(r)
  BY <1>1 DEF Guard, LockDraft, LockYearExclusive, RecheckStatus, LockYearShared,
     RecheckYear, LockPeriodShared, NextNumber, db
<1>5. Write(r)
  BY <1>1, <1>2, <1>3, <1>4 DEF Move, Step, Abort
<1>6. ~UpsertClosed(r) /\ ~UpdateOpen(r) /\ ~SetPeriodClosed(r) /\ ~SetPeriodOpen(r)
      /\ ~UpdateAccount(r) /\ ~TombstoneAccount(r)
  BY <1>1 DEF UpsertClosed, UpdateOpen, SetPeriodClosed, SetPeriodOpen, UpdateAccount,
     TombstoneAccount, SetAccount
<1>7. pc[r] = "write"
  BY <1>5, <1>6 DEF Write, WritePosted, WriteClosing, WriteDraftPosted, WriteReversal, WriteReopened
<1> QED BY <1>5, <1>7

\* Every step leaves the posted entries alone or posts one of the three kinds.
LEMMA StepEffect ==
  ASSUME Inv, NEW r \in Req, Move(r)
  PROVE  \/ Quiet
         \/ \E e \in Req : Enters(r, e) /\ (EntersNew(r, e) \/ EntersDraft(r, e) \/ EntersReversal(r, e))
<1>1. CASE CreateDraft(r) \/ DeleteDraft(r)
  BY <1>1, DraftsAreQuiet
<1>2. CASE WritePosted(r) \/ WriteClosing(r)
  BY <1>2, CreateEffect
<1>3. CASE WriteDraftPosted(r)
  <2>1. tgt[r] \in Req
    BY <1>3, WriterKnows DEF WriteDraftPosted, Own, TargetKnown
  <2> QED BY <1>3, <2>1, DraftEffect
<1>4. CASE (WriteReversal(r) \/ WriteReopened(r)) /\ CreateReversal(r)
  BY <1>4, ReversalEffect
<1>5. CASE UNCHANGED <<journal, lines>>
  <2>1. CASE UNCHANGED nextNumber
    BY <1>5, <2>1 DEF Quiet, Posted
  <2>2. CASE ~UNCHANGED nextNumber
    <3>1. Write(r) /\ pc[r] = "write"
      BY <2>2, WhoCounts
    <3>2. \/ WritePosted(r) \/ WriteClosing(r) \/ WriteDraftPosted(r)
          \/ (WriteReversal(r) \/ WriteReopened(r)) /\ CreateReversal(r)
      BY <2>2, <3>1 DEF Write, WriteReversal, WriteReopened, Rollback, db, UpsertClosed, UpdateOpen,
         SetPeriodClosed, SetPeriodOpen, UpdateAccount, TombstoneAccount
    <3> QED BY <1>2, <1>3, <1>4, <3>2
  <2> QED BY <2>1, <2>2
<1> QED
  BY <1>1, <1>2, <1>3, <1>4, <1>5, WhoWrites

-----------------------------------------------------------------------------
(* What a request has checked before it posts. *)

\* The lines a request is about to post balance, those it will write as well as
\* those of the draft it promotes, and posting them segregates duties.
Checked(r) ==
  InFlight(r) =>
    /\ op[r] \in {"post", "opening"} => AssertBalanced(buf[r])
    /\ op[r] = "closeYear" /\ pc[r] \notin {"movements", "upsertClosed"} => AssertBalanced(buf[r])
    /\ op[r] = "postDraft" =>
         /\ AssertBalanced(lines[tgt[r]])
         /\ ~IsSegregationViolation("MANUAL", journal[tgt[r]].createdBy, UserOf[r])
    /\ op[r] = "post" => ~SegregationOfDutiesEnabled

JournalInv ==
  /\ DoubleEntry
  /\ SegregationOfDuties
  /\ \A r \in Req : Checked(r)

\* What a request carries is fixed when it arrives; only the closing lines, and
\* the mirror of a closing entry, are computed later.
LEMMA WhoCarries ==
  ASSUME Inv, NEW r \in Req, Move(r)
  PROVE  \/ Begin(r) \/ ReadMovements(r) \/ LoadClosing(r)
         \/ /\ UNCHANGED <<op, tgt, buf>>
            /\ InFlight(r)
            /\ pc[r] # "movements"
            /\ pc[r] = "upsertClosed" => ~InFlight(r)'
<1>0. TypeOK
  BY DEF Inv
<1>1. CASE Prepare(r) /\ ~ReadMovements(r) /\ ~LoadClosing(r)
  BY <1>1 DEF Prepare, FindOpenPeriod, FindClosedYear, AssertPostableAccounts, CountLines, Reject,
     ctx, InFlight
<1>2. CASE Guard(r)
  BY <1>2 DEF Guard, LockDraft, LockYearExclusive, RecheckStatus, LockYearShared,
     RecheckYear, LockPeriodShared, NextNumber, Rollback, ctx, InFlight
<1>3. CASE Write(r)
  <2>1. UNCHANGED <<op, tgt, buf>> /\ InFlight(r) /\ pc[r] # "movements"
    BY <1>3 DEF Write, WritePosted, WriteClosing, WriteDraftPosted, WriteReversal, WriteReopened,
       UpsertClosed, UpdateOpen, SetPeriodClosed, SetPeriodOpen, UpdateAccount, TombstoneAccount,
       SetAccount, Reject, Rollback, ctx, InFlight
  <2>2. pc[r] = "upsertClosed" => UpsertClosed(r)
    BY <1>3 DEF Write, WritePosted, WriteClosing, WriteDraftPosted, WriteReversal, WriteReopened,
       UpdateOpen, SetPeriodClosed, SetPeriodOpen, UpdateAccount, TombstoneAccount
  <2>3. pc[r] = "upsertClosed" => ~InFlight(r)'
    BY <1>0, <2>2 DEF UpsertClosed, Goto, TypeOK, InFlight
  <2> QED BY <2>1, <2>3
<1>4. CASE Abort(r)
  BY <1>4 DEF Abort, InTransaction, Rollback, ctx, InFlight
<1> QED
  BY <1>1, <1>2, <1>3, <1>4 DEF Move, Step

\* Whatever is written or carried is a set of lines.
LEMMA LinesType ==
  ASSUME Inv, NEW r \in Req, Move(r), lines \in [Req -> Lines], buf \in [Req -> Lines]
  PROVE  lines' \in [Req -> Lines] /\ buf' \in [Req -> Lines]
<1>0. NoLines \in Lines /\ (\A v \in Lines : Swapped(v) \in Lines) /\ Templates \subseteq Lines
  BY PostingAssumption DEF NoLines, Swapped, Lines
<1>1. lines' \in [Req -> Lines]
  <2>1. CASE CreateDraft(r)
    <3>1. PICK v \in Templates : lines' = [lines EXCEPT ![r] = v]
      BY <2>1 DEF CreateDraft
    <3> QED BY <1>0, <3>1
  <2>2. CASE UNCHANGED lines
    BY <2>2
  <2>3. CASE lines' = [lines EXCEPT ![r] = buf[r]]
    BY <2>3
  <2>4. DeleteDraft(r) \/ WriteDraftPosted(r) => UNCHANGED lines
    BY DEF DeleteDraft, Reject, db, WriteDraftPosted
  <2>5. WritePosted(r) \/ WriteClosing(r) \/ CreateReversal(r) => lines' = [lines EXCEPT ![r] = buf[r]]
    BY DEF WritePosted, WriteClosing, CreatePostedEntry, CreateReversal
  <2> QED BY <2>1, <2>2, <2>3, <2>4, <2>5, WhoWrites
<1>2. buf' \in [Req -> Lines]
  <2>1. CASE UNCHANGED buf
    BY <2>1
  <2>2. CASE \E v \in Lines : buf' = [buf EXCEPT ![r] = v]
    BY <2>2
  <2>3. CASE ReadMovements(r)
    <3>1. CASE UNCHANGED ctx
      BY <3>1 DEF ctx
    <3>2. CASE buf' = [buf EXCEPT ![r] = ClosingLines(MovementsBetween(Year(r)))]
      <4>1. Year(r) \in Years
        BY <2>3, LedgerAssumption DEF ReadMovements, Inv, IInv, TargetKnown, InFlight, Editing, Year
      <4>2. ClosingLines(MovementsBetween(Year(r))) \in Lines
        BY <4>1, MovementsType, ClosingBalances
      <4> QED BY <3>2, <4>2
    <3> QED BY <2>3, <3>1, <3>2 DEF ReadMovements
  <2>4. CASE LoadClosing(r)
    <3>1. CASE Reject(r)
      BY <3>1 DEF Reject, ctx
    <3>2. CASE buf' = [buf EXCEPT ![r] = Swapped(lines[tgt[r]])] /\ pc[r] = "loadClosing"
      <4>1. op[r] = "reopenYear" /\ tgt[r] \in Req
        BY <3>2 DEF Inv, IInv, OpAtStep, TargetKnown, InFlight
      <4> QED BY <1>0, <3>2, <4>1
    <3> QED BY <2>4, <3>1, <3>2 DEF LoadClosing
  <2>5. CASE Begin(r)
    <3>1. \A v \in Templates : v \in Lines /\ Plugged(v) \in Lines
      BY <1>0, PluggedBalances
    <3>2. Reject(r) => UNCHANGED buf
      BY DEF Reject, ctx
    <3>3. CASE BeginPost(r) \/ BeginOpening(r)
      BY <2>1, <2>2, <3>1, <3>2, <3>3 DEF BeginPost, BeginOpening, Carry
    <3>4. CASE BeginPostDraft(r) \/ BeginReverse(r)
      BY <1>0, <2>1, <2>2, <3>2, <3>4 DEF BeginPostDraft, BeginReverse, Carry
    <3>5. CASE BeginClosePeriod(r) \/ BeginReopenPeriod(r) \/ BeginCloseYear(r) \/ BeginReopenYear(r)
      BY <1>0, <2>1, <2>2, <3>2, <3>5 DEF BeginClosePeriod, BeginReopenPeriod, BeginCloseYear,
         BeginReopenYear, Carry
    <3>6. CASE CreateDraft(r) \/ DeleteDraft(r) \/ BeginUpdateAccount(r) \/ BeginDeleteAccount(r)
      BY <2>1, <3>2, <3>6 DEF CreateDraft, DeleteDraft, BeginUpdateAccount, BeginDeleteAccount,
         BeginAccount, ctx
    <3> QED BY <2>5, <3>3, <3>4, <3>5, <3>6 DEF Begin
  <2> QED BY <2>1, <2>3, <2>4, <2>5, WhoCarries
<1> QED BY <1>1, <1>2

\* What another request has checked stays true: the draft it works on keeps its
\* lines and its creator.
LEMMA OthersStayChecked ==
  ASSUME Inv, NEW r \in Req, Move(r), NEW q \in Req, q # r, Checked(q)
  PROVE  Checked(q)'
<1>1. /\ pc'[q] = pc[q] /\ op'[q] = op[q] /\ tgt'[q] = tgt[q] /\ buf'[q] = buf[q]
  BY MoveFrame DEF Inv, Frame
<1>2. InFlight(q) /\ op[q] = "postDraft" => tgt[q] \in Req /\ journal[tgt[q]].status # "none"
  BY DEF Inv, IInv, TargetKnown
<1>3. InFlight(q) /\ op[q] = "postDraft" =>
        lines'[tgt[q]] = lines[tgt[q]] /\ journal'[tgt[q]].createdBy = journal[tgt[q]].createdBy
  BY <1>2, LinesPersist
<1> QED
  BY <1>1, <1>3 DEF Checked, InFlight, IsSegregationViolation

\* A request that arrives checks what it carries.
LEMMA ArrivalChecks ==
  ASSUME Inv, NEW r \in Req, Begin(r)
  PROVE  Checked(r)'
<1>0. TypeOK /\ pc[r] = "start"
  BY DEF Inv, Begin, BeginPost, BeginOpening, BeginPostDraft, BeginReverse,
     BeginClosePeriod, BeginReopenPeriod, BeginCloseYear, BeginReopenYear, BeginUpdateAccount,
     BeginDeleteAccount, BeginAccount, CreateDraft, DeleteDraft, Arrives
<1>1. CASE ~InFlight(r)'
  BY <1>1 DEF Checked
<1>2. CASE InFlight(r)'
  <2>1. ~Reject(r) /\ ~CreateDraft(r) /\ ~DeleteDraft(r)
    BY <1>0, <1>2 DEF Reject, CreateDraft, DeleteDraft, Goto, TypeOK, InFlight
  <2>2. CASE BeginPost(r)
    <3>1. PICK v \in Templates, p \in Periods :
            /\ AssertBalanced(v) /\ ~SegregationOfDutiesEnabled
            /\ Carry(r, "post", Null, p, v)
      BY <2>1, <2>2 DEF BeginPost, IsSegregationViolation
    <3>2. op'[r] = "post" /\ buf'[r] = v
      BY <1>0, <3>1 DEF Carry, TypeOK
    <3> QED BY <3>1, <3>2 DEF Checked
  <2>3. CASE BeginOpening(r)
    <3>1. PICK v \in Templates, p \in Periods : Carry(r, "opening", Null, p, Plugged(v))
      BY <2>1, <2>3 DEF BeginOpening
    <3>2. op'[r] = "opening" /\ buf'[r] = Plugged(v)
      BY <1>0, <3>1 DEF Carry, TypeOK
    <3>3. AssertBalanced(buf'[r])
      BY <3>2, PluggedBalances, PostingAssumption
    <3> QED BY <3>2, <3>3 DEF Checked
  <2>4. CASE BeginPostDraft(r)
    <3>1. PICK e \in Req :
            /\ AssertBalanced(lines[e])
            /\ ~IsSegregationViolation("MANUAL", journal[e].createdBy, UserOf[r])
            /\ Carry(r, "postDraft", e, journal[e].date, NoLines)
            /\ UNCHANGED db
      BY <2>1, <2>4 DEF BeginPostDraft
    <3>2. op'[r] = "postDraft" /\ tgt'[r] = e /\ lines'[e] = lines[e] /\ journal'[e] = journal[e]
      BY <1>0, <3>1 DEF Carry, TypeOK, db
    <3> QED BY <3>1, <3>2 DEF Checked, IsSegregationViolation
  <2>5. CASE BeginCloseYear(r)
    <3>1. op'[r] = "closeYear" /\ pc'[r] = "movements"
      BY <1>0, <2>1, <2>5 DEF BeginCloseYear, Carry, Goto, TypeOK
    <3> QED BY <3>1 DEF Checked
  <2>6. CASE BeginReverse(r) \/ BeginClosePeriod(r) \/ BeginReopenPeriod(r) \/ BeginReopenYear(r)
             \/ BeginUpdateAccount(r) \/ BeginDeleteAccount(r)
    <3>1. op'[r] \in {"reverse", "closePeriod", "reopenPeriod", "reopenYear", "updateAccount",
                      "deleteAccount"}
      BY <1>0, <2>1, <2>6 DEF BeginReverse, BeginClosePeriod, BeginReopenPeriod, BeginReopenYear,
         BeginUpdateAccount, BeginDeleteAccount, BeginAccount, Carry, TypeOK
    <3> QED BY <3>1 DEF Checked
  <2> QED BY <2>1, <2>2, <2>3, <2>4, <2>5, <2>6 DEF Begin
<1> QED BY <1>1, <1>2

\* A request in flight keeps what it has checked; a close checks what it computes.
LEMMA OwnStaysChecked ==
  ASSUME Inv, DoubleEntry, NEW r \in Req, Move(r), Checked(r)
  PROVE  Checked(r)'
<1>0. TypeOK /\ OpAtStep(r)
  BY DEF Inv, IInv
<1>1. CASE Begin(r)
  BY <1>1, ArrivalChecks
<1>2. CASE ReadMovements(r)
  <2>1. op[r] = "closeYear" /\ date[r] \in Periods /\ op' = op
    BY <1>0, <1>2 DEF ReadMovements, OpAtStep, Inv, IInv, TargetKnown, InFlight, Editing, ctx
  <2>2. Year(r) \in Years
    BY <2>1, LedgerAssumption DEF Year
  <2>3. CASE pc'[r] \in {"upsertClosed", "failed"}
    BY <2>1, <2>3 DEF Checked, InFlight
  <2>4. CASE buf' = [buf EXCEPT ![r] = ClosingLines(MovementsBetween(Year(r)))]
    <3>1. AssertBalanced(buf'[r])
      BY <1>0, <2>2, <2>4, MovementsType, ClosingBalances DEF DoubleEntry, TypeOK
    <3> QED BY <2>1, <3>1 DEF Checked
  <2> QED BY <1>0, <1>2, <2>3, <2>4 DEF ReadMovements, Goto, TypeOK
<1>3. CASE LoadClosing(r)
  <2>1. op'[r] = "reopenYear"
    BY <1>0, <1>3 DEF LoadClosing, Reject, OpAtStep, ctx
  <2> QED BY <2>1 DEF Checked
<1>4. CASE /\ UNCHANGED <<op, tgt, buf>> /\ InFlight(r) /\ pc[r] # "movements"
           /\ pc[r] = "upsertClosed" => ~InFlight(r)'
  <2>1. op[r] = "postDraft" => tgt[r] \in Req /\ journal[tgt[r]].status # "none"
    BY <1>4 DEF Inv, IInv, TargetKnown
  <2>2. op[r] = "postDraft" =>
          lines'[tgt[r]] = lines[tgt[r]] /\ journal'[tgt[r]].createdBy = journal[tgt[r]].createdBy
    BY <2>1, LinesPersist
  <2> QED BY <1>4, <2>2 DEF Checked, IsSegregationViolation
<1> QED
  BY <1>1, <1>2, <1>3, <1>4, WhoCarries

\* A posted entry balances and segregates duties from the step that posts it on.
LEMMA JournalStep ==
  ASSUME Inv, JournalInv, NEW r \in Req, Move(r)
  PROVE  JournalInv'
<1>1. lines' \in [Req -> Lines] /\ buf' \in [Req -> Lines]
  BY LinesType DEF JournalInv, DoubleEntry
<1>2. ASSUME NEW q \in Req PROVE Checked(q)'
  BY OthersStayChecked, OwnStaysChecked DEF JournalInv
<1> DEFINE Fine(e) ==
      /\ AssertBalanced(lines[e])
      /\ SegregationOfDutiesEnabled =>
           (journal[e].source = "MANUAL" => journal[e].postedBy # journal[e].createdBy)
<1>3. \A e \in Posted : Fine(e) /\ e \in Req
  BY DEF JournalInv, DoubleEntry, SegregationOfDuties, Posted
<1>4. ASSUME NEW e \in Posted' PROVE Fine(e)'
  <2>1. CASE Quiet
    BY <1>3, <2>1 DEF Quiet
  <2>2. CASE \E d \in Req : Enters(r, d) /\ EntersNew(r, d)
    <3>1. PICK d \in Req : Enters(r, d) /\ EntersNew(r, d)
      BY <2>2
    <3>2. AssertBalanced(buf[r]) /\ (op[r] = "post" => ~SegregationOfDutiesEnabled)
      BY <3>1, WriterKnows DEF JournalInv, Checked, Enters, EntersNew
    <3>3. CASE e = d
      BY <3>1, <3>2, <3>3 DEF Enters, EntersNew
    <3>4. CASE e # d
      BY <1>3, <3>1, <3>4 DEF Enters, EntersNew
    <3> QED BY <3>3, <3>4
  <2>3. CASE \E d \in Req : Enters(r, d) /\ EntersDraft(r, d)
    <3>1. PICK d \in Req : Enters(r, d) /\ EntersDraft(r, d)
      BY <2>3
    <3>2. AssertBalanced(lines[d]) /\ ~IsSegregationViolation("MANUAL", journal[d].createdBy, UserOf[r])
      BY <3>1, WriterKnows DEF JournalInv, Checked, Enters, EntersDraft
    <3>3. CASE e = d
      BY <3>1, <3>2, <3>3 DEF Enters, EntersDraft, IsSegregationViolation
    <3>4. CASE e # d
      BY <1>3, <3>1, <3>4 DEF Enters, EntersDraft
    <3> QED BY <3>3, <3>4
  <2>4. CASE \E d \in Req : Enters(r, d) /\ EntersReversal(r, d)
    <3>1. PICK d \in Req : Enters(r, d) /\ EntersReversal(r, d)
      BY <2>4
    <3>2. tgt[r] \in Posted /\ tgt[r] \in Req /\ lines[tgt[r]] \in Lines /\ Fine(tgt[r])
      BY <1>3, <3>1 DEF EntersReversal, JournalInv, DoubleEntry
    <3>3. AssertBalanced(Swapped(lines[tgt[r]]))
      BY <3>2, SwappedBalances
    <3>4. CASE e = d
      BY <3>1, <3>3, <3>4 DEF Enters, EntersReversal
    <3>5. CASE e = tgt[r] /\ e # d
      <4>1. journal[e] \in EntryRow
        BY <3>2, <3>5 DEF Inv, TypeOK
      <4>2. lines'[e] = lines[e] /\ journal'[e] = [journal[e] EXCEPT !.status = "REVERSED"]
        BY <3>1, <3>2, <3>5 DEF EntersReversal
      <4> QED BY <3>2, <3>5, <4>1, <4>2 DEF EntryRow
    <3>6. CASE e # tgt[r] /\ e # d
      BY <1>3, <3>1, <3>6 DEF Enters, EntersReversal
    <3> QED BY <3>4, <3>5, <3>6
  <2> QED BY <2>1, <2>2, <2>3, <2>4, StepEffect
<1> QED
  BY <1>1, <1>2, <1>4 DEF JournalInv, DoubleEntry, SegregationOfDuties

-----------------------------------------------------------------------------
(* The theorems. *)

\* Nothing is posted and nobody has checked anything in a new set of books.
LEMMA JournalInit ==
  ASSUME Init
  PROVE  JournalInv /\ Posted = {}
<1>1. lines \in [Req -> Lines] /\ buf \in [Req -> Lines]
  BY DEF Init, NoLines, Lines
<1>2. Posted = {}
  BY DEF Init, Posted, NoRow
<1>3. \A r \in Req : Checked(r)
  BY DEF Init, Checked, InFlight
<1> QED BY <1>1, <1>2, <1>3 DEF JournalInv, DoubleEntry, SegregationOfDuties

\* It holds in every state that the steps of the ledger lead to.
LEMMA JournalNext ==
  ASSUME Inv, JournalInv, [Next]_vars
  PROVE  JournalInv'
<1>1. ASSUME NEW r \in Req, Move(r) PROVE JournalInv'
  BY <1>1, JournalStep
<1>2. CASE UNCHANGED vars
  BY <1>2 DEF JournalInv, DoubleEntry, SegregationOfDuties, Posted, Checked, InFlight,
     vars, db, ctx
<1> QED BY <1>1, <1>2 DEF Next, Move, Idle

\* What every request has checked, and every posted entry satisfies.
THEOREM JournalInductive == Spec => [](Inv /\ JournalInv)
<1>1. Init => JournalInv
  BY JournalInit
<1>2. Inv /\ JournalInv /\ [Next]_vars => JournalInv'
  BY JournalNext
<1> QED
  BY <1>1, <1>2, Inductive, PTL DEF Spec

\* assertBalanced: every posted entry balances, also the one that promotes a draft
\* and the one that closes a year.
THEOREM EveryEntryBalances == Spec => []DoubleEntry
<1>1. JournalInv => DoubleEntry
  BY DEF JournalInv
<1> QED
  BY <1>1, JournalInductive, PTL

\* isSegregationViolation: no manual entry is posted by its creator when duties are
\* segregated, although a draft is compared with its poster long before it is posted.
THEOREM DutiesAreSegregated == Spec => []SegregationOfDuties
<1>1. JournalInv => SegregationOfDuties
  BY DEF JournalInv
<1> QED
  BY <1>1, JournalInductive, PTL

-----------------------------------------------------------------------------
(* The books: the posted entries of a year in the order of their numbers. *)

Ordered(P, rows, n) == [i \in 1 .. (n - 1) |-> CHOOSE e \in P : rows[e].number = i]

\* The members of P are numbered from 1 to n - 1, each number used once.
Numbered(P, rows, n) ==
  /\ n \in Nat \ {0}
  /\ {rows[e].number : e \in P} = 1 .. (n - 1)
  /\ \A d, e \in P : rows[d].number = rows[e].number => d = e

\* In the order of their numbers they make a sequence of all of them.
LEMMA OrderedIsSeq ==
  ASSUME NEW P, NEW rows, NEW n, Numbered(P, rows, n)
  PROVE  /\ Ordered(P, rows, n) \in Seq(P)
         /\ Len(Ordered(P, rows, n)) = n - 1
         /\ \A e \in P : rows[e].number \in 1 .. (n - 1) /\ Ordered(P, rows, n)[rows[e].number] = e
         /\ {Ordered(P, rows, n)[i] : i \in 1 .. (n - 1)} = P
<1> DEFINE s == Ordered(P, rows, n)
<1>0. n - 1 \in Nat
  BY DEF Numbered
<1>1. \A i \in 1 .. (n - 1) : s[i] \in P /\ rows[s[i]].number = i
  <2> SUFFICES ASSUME NEW i \in 1 .. (n - 1) PROVE s[i] \in P /\ rows[s[i]].number = i
    OBVIOUS
  <2>1. PICK e \in P : rows[e].number = i
    BY DEF Numbered
  <2>2. s[i] = CHOOSE f \in P : rows[f].number = i
    BY DEF Ordered
  <2> QED BY <2>1, <2>2
<1>2. s \in [1 .. (n - 1) -> P]
  BY <1>1 DEF Ordered
<1> HIDE DEF s
<1>3. s \in Seq(P) /\ Len(s) = n - 1
  BY <1>0, <1>2
<1>4. \A e \in P : rows[e].number \in 1 .. (n - 1) /\ s[rows[e].number] = e
  BY <1>1 DEF Numbered
<1>5. {s[i] : i \in 1 .. (n - 1)} = P
  BY <1>1, <1>4
<1> QED BY <1>3, <1>4, <1>5 DEF s

\* The next number goes to the end of the sequence.
LEMMA OrderedGrows ==
  ASSUME NEW P, NEW rows, NEW n, Numbered(P, rows, n), NEW e, e \notin P,
         NEW Q, NEW later, Q = P \cup {e}, later[e].number = n, \A f \in P : later[f].number = rows[f].number
  PROVE  Ordered(Q, later, n + 1) = Append(Ordered(P, rows, n), e)
<1> DEFINE s == Ordered(P, rows, n)
           t == Ordered(Q, later, n + 1)
<1>0. n \in Nat \ {0} /\ n - 1 \in Nat
  BY DEF Numbered
<1>1. s \in Seq(P) /\ Len(s) = n - 1
  BY OrderedIsSeq
<1>2. ASSUME NEW i \in 1 .. (n - 1) PROVE t[i] = s[i]
  <2>1. i \in 1 .. n /\ i # n
    BY <1>0
  <2>2. \A f : f \in Q /\ later[f].number = i <=> f \in P /\ rows[f].number = i
    BY <2>1
  <2>3. (CHOOSE f \in Q : later[f].number = i) = (CHOOSE f \in P : rows[f].number = i)
    BY <2>2
  <2> QED BY <1>0, <2>1, <2>3 DEF Ordered
<1>3. t[n] = e
  <2>1. \A f \in Q : later[f].number = n <=> f = e
    BY <1>0 DEF Numbered
  <2>2. (CHOOSE f \in Q : later[f].number = n) = e
    BY <2>1
  <2> QED BY <1>0, <2>2 DEF Ordered
<1>4. t = [i \in 1 .. n |-> t[i]]
  BY <1>0 DEF Ordered
<1> HIDE DEF s, t
<1>5. /\ Append(s, e) \in [1 .. n -> Q]
      /\ Append(s, e)[n] = e
      /\ \A i \in 1 .. (n - 1) : Append(s, e)[i] = s[i]
  <2>1. s \in Seq(Q) /\ e \in Q /\ Len(s) + 1 = n
    BY <1>0, <1>1
  <2>2. /\ Append(s, e) \in Seq(Q) /\ Len(Append(s, e)) = n
        /\ Append(s, e)[n] = e /\ \A i \in 1 .. Len(s) : Append(s, e)[i] = s[i]
    BY <2>1, AppendProperties
  <2>3. Append(s, e) \in [1 .. Len(Append(s, e)) -> Q]
    BY <2>2, LenProperties
  <2>4. Append(s, e) \in [1 .. n -> Q]
    BY <2>2, <2>3
  <2> QED BY <1>1, <2>2, <2>4
<1>6. \A i \in 1 .. n : i = n \/ i \in 1 .. (n - 1)
  BY <1>0
<1>7. \A i \in 1 .. n : t[i] = Append(s, e)[i]
  BY <1>2, <1>3, <1>5, <1>6
<1> QED BY <1>4, <1>5, <1>7 DEF s, t

\* Only the numbers of the members matter.
LEMMA OrderedSame ==
  ASSUME NEW P, NEW rows, NEW later, NEW n, \A f \in P : later[f].number = rows[f].number
  PROVE  Ordered(P, later, n) = Ordered(P, rows, n)
<1> DEFINE F(i) == CHOOSE e \in P : later[e].number = i
           G(i) == CHOOSE e \in P : rows[e].number = i
<1>1. ASSUME NEW i PROVE F(i) = G(i)
  <2>1. \A e : e \in P /\ later[e].number = i <=> e \in P /\ rows[e].number = i
    OBVIOUS
  <2> QED BY <2>1
<1>2. /\ Ordered(P, later, n) = [i \in 1 .. (n - 1) |-> F(i)]
      /\ Ordered(P, rows, n) = [i \in 1 .. (n - 1) |-> G(i)]
  BY DEF Ordered
<1> HIDE DEF F, G
<1> QED BY <1>1, <1>2

\* The book of a year, as the refinement mapping computes it.
LEMMA BookIsOrdered ==
  ASSUME NEW y \in Years
  PROVE  BookOf(y) = Ordered(PostedIn(y), journal, nextNumber[y])
BY DEF BookOf, Ordered

\* Gapless numbering in these terms.
LEMMA BookIsNumbered ==
  ASSUME Inv, NEW y \in Years
  PROVE  Numbered(PostedIn(y), journal, nextNumber[y])
BY DEF Numbered, Inv, TypeOK, IInv, GaplessNumbering

\* What has been entered in a book are the posted entries of its year.
LEMMA EnteredIsPosted ==
  ASSUME Inv, NEW y \in Years
  PROVE  B!Entered(y) = PostedIn(y)
<1> DEFINE s == BookOf(y)
<1>1. /\ nextNumber[y] \in Nat /\ s = Ordered(PostedIn(y), journal, nextNumber[y])
      /\ Numbered(PostedIn(y), journal, nextNumber[y])
  BY BookIsOrdered, BookIsNumbered DEF Numbered
<1> HIDE DEF s
<1>2. Len(s) = nextNumber[y] - 1 /\ {s[i] : i \in 1 .. (nextNumber[y] - 1)} = PostedIn(y)
  BY <1>1, OrderedIsSeq
<1>3. {s[i] : i \in 1 .. Len(s)} = PostedIn(y)
  BY <1>2
<1>4. [z \in Years |-> BookOf(z)][y] = s
  BY DEF s
<1>5. B!Entered(y) = {s[i] : i \in 1 .. Len(s)}
  BY <1>4 DEF B!Entered
<1> QED BY <1>3, <1>5

\* Posting an entry with the next number appends it to the book of its year.
LEMMA PostingAppends ==
  ASSUME Inv, Inv', NEW e \in Req \ Posted, NEW y \in Years, Posted' = Posted \cup {e},
         YearOf[journal'[e].date] = y, journal'[e].number = nextNumber[y],
         \A f \in Posted : journal'[f].number = journal[f].number /\ journal'[f].date = journal[f].date,
         nextNumber' = [nextNumber EXCEPT ![y] = nextNumber[y] + 1]
  PROVE  B!Append1(e, y)
<1>1. \A z \in Years : e \notin B!Entered(z)
  BY EnteredIsPosted DEF PostedIn
<1>2. nextNumber \in [Years -> Nat \ {0}] /\ Posted \subseteq Req
  BY DEF Inv, TypeOK, Posted
<1>3. BookOf(y)' = Append(BookOf(y), e)
  <2>1. PostedIn(y)' = PostedIn(y) \cup {e} /\ e \notin PostedIn(y)
    BY DEF PostedIn
  <2>2. \A f \in PostedIn(y) : journal'[f].number = journal[f].number
    BY DEF PostedIn
  <2>3. nextNumber'[y] = nextNumber[y] + 1
    BY <1>2
  <2>4. BookOf(y)' = Ordered(PostedIn(y)', journal', nextNumber'[y])
    BY DEF BookOf, Ordered
  <2>5. Ordered(PostedIn(y)', journal', nextNumber[y] + 1)
          = Append(Ordered(PostedIn(y), journal, nextNumber[y]), e)
    BY <2>1, <2>2, BookIsNumbered, OrderedGrows
  <2> QED BY <2>3, <2>4, <2>5, BookIsOrdered
<1>4. ASSUME NEW z \in Years \ {y} PROVE BookOf(z)' = BookOf(z)
  <2>1. PostedIn(z)' = PostedIn(z) /\ \A f \in PostedIn(z) : journal'[f].number = journal[f].number
    BY DEF PostedIn
  <2>2. nextNumber'[z] = nextNumber[z]
    BY <1>2
  <2>3. BookOf(z)' = Ordered(PostedIn(z)', journal', nextNumber'[z])
    BY DEF BookOf, Ordered
  <2>4. Ordered(PostedIn(z), journal', nextNumber[z]) = Ordered(PostedIn(z), journal, nextNumber[z])
    BY <2>1, OrderedSame
  <2> QED BY <2>1, <2>2, <2>3, <2>4, BookIsOrdered
<1>5. [z \in Years |-> BookOf(z)]' = [[z \in Years |-> BookOf(z)] EXCEPT ![y] = Append(@, e)]
  BY <1>3, <1>4
<1> QED BY <1>1, <1>5 DEF B!Append1

\* The reversed entries and the locked years, as the refinement mapping has them.
Reversed == {e \in Req : journal[e].status = "REVERSED"}
Locked   == {y \in Years : LockedYear(y)}

\* A reversed entry is a posted one.
LEMMA ReversedArePosted ==
  ASSUME \A e \in Req : RowOK(e)
  PROVE  Reversed = {e \in Posted : journal[e].status = "REVERSED"}
BY DEF Reversed, Posted, RowOK

\* Which steps write year_end_closings.
LEMMA WhoCloses ==
  ASSUME NEW r \in Req, Move(r), ~UNCHANGED closing
  PROVE  \/ UpsertClosed(r) \/ UpdateOpen(r) \/ WriteClosing(r)
         \/ WriteReopened(r) /\ closing' = [closing EXCEPT ![Year(r)].status = "OPEN"]
<1>1. ~Reject(r) /\ ~Rollback(r)
  BY DEF Reject, Rollback, db
<1>2. ~Begin(r)
  BY <1>1 DEF Begin, BeginPost, BeginOpening, BeginPostDraft, BeginReverse,
     BeginClosePeriod, BeginReopenPeriod, BeginCloseYear, BeginReopenYear, BeginUpdateAccount,
     BeginDeleteAccount, BeginAccount, CreateDraft, DeleteDraft, db
<1>3. ~Prepare(r)
  BY <1>1 DEF Prepare, ReadMovements, LoadClosing, FindOpenPeriod, FindClosedYear,
     AssertPostableAccounts, CountLines, db
<1>4. ~Guard(r)
  BY <1>1 DEF Guard, LockDraft, LockYearExclusive, RecheckStatus, LockYearShared,
     RecheckYear, LockPeriodShared, NextNumber, db
<1>5. Write(r)
  BY <1>1, <1>2, <1>3, <1>4 DEF Move, Step, Abort
<1>6. /\ ~WritePosted(r) /\ ~WriteDraftPosted(r) /\ ~WriteReversal(r)
      /\ ~SetPeriodClosed(r) /\ ~SetPeriodOpen(r) /\ ~UpdateAccount(r) /\ ~TombstoneAccount(r)
  BY <1>1 DEF WritePosted, WriteDraftPosted, WriteReversal, SetPeriodClosed, SetPeriodOpen,
     UpdateAccount, TombstoneAccount, SetAccount
<1>7. WriteReopened(r) => closing' = [closing EXCEPT ![Year(r)].status = "OPEN"]
  BY <1>1 DEF WriteReopened
<1> QED BY <1>5, <1>6, <1>7 DEF Write

\* What that does to the locked years.
LEMMA LocksMove ==
  ASSUME Inv, NEW r \in Req, Move(r)
  PROVE  \/ Locked' = Locked
         \/ UNCHANGED <<journal, lines, nextNumber>> /\ \E y \in Locked : Locked' = Locked \ {y}
         \/ WriteClosing(r) /\ Locked' = Locked \cup {Year(r)}
         \/ pc[r] = "write" /\ op[r] = "reopenYear" /\ Locked' = Locked \ {Year(r)}
<1>0. TypeOK
  BY DEF Inv
<1>1. Year(r) \in Years \/ ~(UpsertClosed(r) \/ UpdateOpen(r) \/ WriteClosing(r) \/ WriteReopened(r))
  BY LedgerAssumption DEF Inv, IInv, TargetKnown, InFlight, Editing, Year, UpsertClosed, UpdateOpen,
     WriteClosing, WriteReopened
<1>2. CASE WriteClosing(r)
  <2>1. /\ closing'[Year(r)] = [status |-> "CLOSED", entry |-> r]
        /\ \A z \in Years \ {Year(r)} : closing'[z] = closing[z]
    BY <1>0, <1>1, <1>2 DEF WriteClosing, TypeOK
  <2>2. r # Null
    BY LedgerAssumption
  <2>3. Locked' = Locked \cup {Year(r)}
    BY <1>1, <1>2, <2>1, <2>2 DEF Locked, LockedYear
  <2> QED BY <1>2, <2>3
<1>3. ASSUME closing'[Year(r)].status = "OPEN" \/ closing'[Year(r)].entry = Null,
             \A z \in Years \ {Year(r)} : closing'[z] = closing[z], Year(r) \in Years
      PROVE  Locked' = Locked \ {Year(r)}
  BY <1>3 DEF Locked, LockedYear
<1>4. CASE UpsertClosed(r) \/ UpdateOpen(r)
  <2>1. /\ closing'[Year(r)].status = "OPEN" \/ closing'[Year(r)].entry = Null
        /\ \A z \in Years \ {Year(r)} : closing'[z] = closing[z]
    BY <1>0, <1>1, <1>4 DEF UpsertClosed, UpdateOpen, TypeOK, ClosingRow
  <2>2. Locked' = Locked \ {Year(r)}
    BY <1>1, <1>3, <1>4, <2>1
  <2>3. UNCHANGED <<journal, lines, nextNumber>> /\ ~WriteClosing(r)
    BY <1>4 DEF UpsertClosed, UpdateOpen, WriteClosing
  <2> QED BY <2>2, <2>3
<1>5. CASE WriteReopened(r) /\ closing' = [closing EXCEPT ![Year(r)].status = "OPEN"]
  <2>1. closing'[Year(r)].status = "OPEN" /\ \A z \in Years \ {Year(r)} : closing'[z] = closing[z]
    BY <1>0, <1>1, <1>5 DEF TypeOK, ClosingRow
  <2> QED BY <1>1, <1>3, <1>5, <2>1 DEF WriteReopened
<1>6. CASE UNCHANGED closing
  BY <1>6 DEF Locked, LockedYear
<1> QED
  BY <1>2, <1>4, <1>5, <1>6, WhoCloses

\* A step that posts nothing changes no book, and may at most unlock one.
LEMMA QuietStep ==
  ASSUME Inv, Inv', NEW r \in Req, Move(r), Quiet
  PROVE  B!Next \/ UNCHANGED B!vars
<1>1. \A y \in Years : BookOf(y)' = BookOf(y)
  <2> SUFFICES ASSUME NEW y \in Years PROVE BookOf(y)' = BookOf(y)
    OBVIOUS
  <2>1. PostedIn(y)' = PostedIn(y) /\ \A f \in PostedIn(y) : journal'[f].number = journal[f].number
    BY DEF Quiet, PostedIn
  <2>2. BookOf(y)' = Ordered(PostedIn(y)', journal', nextNumber'[y]) /\ nextNumber' = nextNumber
    BY DEF BookOf, Ordered, Quiet
  <2>3. Ordered(PostedIn(y), journal', nextNumber[y]) = Ordered(PostedIn(y), journal, nextNumber[y])
    BY <2>1, OrderedSame
  <2> QED BY <2>1, <2>2, <2>3, BookIsOrdered
<1>2. Reversed' = Reversed
  <2>1. Reversed = {e \in Posted : journal[e].status = "REVERSED"}
    BY ReversedArePosted DEF Inv, IInv
  <2>2. Reversed' = {e \in Posted' : journal'[e].status = "REVERSED"}
    BY DEF Inv, IInv, Reversed, Posted, RowOK
  <2> QED BY <2>1, <2>2 DEF Quiet
<1>3. Locked' = Locked \/ \E y \in Locked : Locked' = Locked \ {y}
  <2>1. ~WriteClosing(r)
    BY CreateEffect DEF Enters, Quiet
  <2> QED BY <2>1, LocksMove
<1>4. CASE Locked' = Locked
  BY <1>1, <1>2, <1>4 DEF B!vars, Reversed, Locked
<1>5. CASE \E y \in Locked : Locked' = Locked \ {y}
  <2>1. PICK y \in Locked : Locked' = Locked \ {y}
    BY <1>5
  <2>2. y \in Years
    BY DEF Locked
  <2>3. B!Unlock(y)
    BY <1>1, <1>2, <2>1 DEF B!Unlock, Reversed, Locked
  <2> QED BY <2>2, <2>3 DEF B!Next
<1> QED BY <1>3, <1>4, <1>5

\* A step that posts an entry appends it to the book of its year.
LEMMA EnteringAppends ==
  ASSUME Inv, Inv', NEW r \in Req, NEW e \in Req, Enters(r, e),
         \A f \in Posted : journal'[f].number = journal[f].number /\ journal'[f].date = journal[f].date
  PROVE  B!Append1(e, Year(r)) /\ Year(r) \in Years
<1>1. /\ Year(r) \in Years /\ num[r] = nextNumber[Year(r)]
  BY WriterKnows DEF Enters
<1>2. YearOf[journal'[e].date] = Year(r) /\ journal'[e].number = nextNumber[Year(r)]
  BY <1>1 DEF Enters, Year
<1>3. nextNumber' = [nextNumber EXCEPT ![Year(r)] = nextNumber[Year(r)] + 1]
  BY <1>1 DEF Enters, Increment
<1> QED BY <1>1, <1>2, <1>3, PostingAppends DEF Enters

\* Only reopen posts into a locked year.
LEMMA WriterUnlocked ==
  ASSUME Inv, NEW r \in Req, pc[r] = "write", op[r] # "reopenYear"
  PROVE  Year(r) \notin Locked
BY WriterKnows DEF Own, LocksHeld, Locked

\* An entry that is created, or a draft that is promoted, is entered in a book;
\* the closing entry locks it.
LEMMA EnterStep ==
  ASSUME Inv, Inv', NEW r \in Req, Move(r), NEW e \in Req, Enters(r, e),
         EntersNew(r, e) \/ EntersDraft(r, e)
  PROVE  B!Next
<1>1. B!Append1(e, Year(r)) /\ Year(r) \in Years
  BY EnteringAppends DEF EntersNew, EntersDraft
<1>2. pc[r] = "write" /\ op[r] # "reopenYear" /\ Year(r) \notin Locked
  BY WriterUnlocked DEF Enters, EntersNew, EntersDraft
<1>3. Reversed' = Reversed
  <2>1. Reversed = {f \in Posted : journal[f].status = "REVERSED"}
    BY ReversedArePosted DEF Inv, IInv
  <2>2. Reversed' = {f \in Posted' : journal'[f].status = "REVERSED"}
    BY DEF Inv, IInv, Reversed, Posted, RowOK
  <2>3. Posted' = Posted \cup {e} /\ journal'[e].status = "POSTED" /\ e \notin Posted
        /\ \A f \in Posted : journal'[f] = journal[f]
    BY DEF Enters, EntersNew, EntersDraft
  <2> QED BY <2>1, <2>2, <2>3
<1>4. Locked' = Locked \/ Locked' = Locked \cup {Year(r)}
  <2>1. ~UNCHANGED <<journal, lines, nextNumber>>
    BY DEF Enters, Posted
  <2> QED BY <1>2, <2>1, LocksMove
<1>5. CASE Locked' = Locked
  <2>1. B!Enter(e, Year(r))
    BY <1>1, <1>2, <1>3, <1>5 DEF B!Enter, Reversed, Locked
  <2> QED BY <1>1, <2>1 DEF B!Next
<1>6. CASE Locked' = Locked \cup {Year(r)}
  <2>1. B!Close(e, Year(r))
    BY <1>1, <1>2, <1>3, <1>6 DEF B!Close, Reversed, Locked
  <2> QED BY <1>1, <2>1 DEF B!Next
<1> QED BY <1>4, <1>5, <1>6

\* A reversal cancels an entry of the same book that nothing has reversed; that of
\* a closing entry unlocks it.
LEMMA ReverseStep ==
  ASSUME Inv, Inv', NEW r \in Req, Move(r), NEW e \in Req, Enters(r, e), EntersReversal(r, e)
  PROVE  B!Next
<1> DEFINE o == tgt[r]
<1>0. /\ pc[r] = "write" /\ op[r] \in {"reverse", "reopenYear"}
      /\ o \in Posted /\ o \in Req /\ journal[o].status = "POSTED" /\ journal[o].date = date[r]
      /\ journal[o] \in EntryRow /\ journal'[o] = [journal[o] EXCEPT !.status = "REVERSED"]
      /\ \A f \in Posted \ {o} : journal'[f] = journal[f]
  BY DEF Enters, EntersReversal, Posted, Inv, TypeOK
<1> HIDE DEF o
<1>1. journal'[o].status = "REVERSED" /\ journal'[o].number = journal[o].number
      /\ journal'[o].date = journal[o].date
  BY <1>0 DEF EntryRow
<1>2. B!Append1(e, Year(r)) /\ Year(r) \in Years
  BY <1>0, <1>1, EnteringAppends
<1>3. Reversed' = Reversed \cup {o} /\ o \notin Reversed
  <2>1. Reversed = {f \in Posted : journal[f].status = "REVERSED"}
    BY ReversedArePosted DEF Inv, IInv
  <2>2. Reversed' = {f \in Posted' : journal'[f].status = "REVERSED"}
    BY DEF Inv, IInv, Reversed, Posted, RowOK
  <2>3. Posted' = Posted \cup {e} /\ journal'[e].status = "POSTED" /\ e \notin Posted
    BY DEF Enters
  <2> QED BY <1>0, <1>1, <2>1, <2>2, <2>3
<1>4. o \in B!Entered(Year(r))
  BY <1>0, <1>2, EnteredIsPosted DEF PostedIn, Year
<1>5. B!Cancel(e, o, Year(r))
  BY <1>2, <1>3, <1>4 DEF B!Cancel, Reversed
<1>6. CASE op[r] = "reverse"
  <2>1. ~UNCHANGED <<journal, lines, nextNumber>> /\ ~WriteClosing(r)
    BY <1>6 DEF Enters, Posted, WriteClosing
  <2>2. Locked' = Locked
    BY <1>6, <2>1, LocksMove
  <2>3. Year(r) \notin Locked
    BY <1>0, <1>6, WriterUnlocked
  <2>4. B!Reverse(e, o, Year(r))
    BY <1>5, <2>2, <2>3 DEF B!Reverse, Locked
  <2> QED BY <1>0, <1>2, <2>4 DEF B!Next
<1>7. CASE op[r] = "reopenYear"
  <2>1. ~UNCHANGED <<journal, lines, nextNumber>> /\ ~WriteClosing(r)
    BY <1>7 DEF Enters, Posted, WriteClosing
  <2>2. e \in Posted' \ Posted
    BY DEF Enters
  <2>3. closing'[Year(r)].status = "OPEN"
    BY <1>7, <2>2, WhoPosts
  <2>4. Year(r) \notin Locked'
    BY <2>3 DEF Locked, LockedYear
  <2>5. Locked' = Locked \ {Year(r)}
    BY <2>1, <2>4, LocksMove
  <2>6. B!Reopen(e, o, Year(r))
    BY <1>5, <2>5 DEF B!Reopen, Locked
  <2> QED BY <1>0, <1>2, <2>6 DEF B!Next
<1> QED BY <1>0, <1>6, <1>7

\* The services implement the append-only books: numbering, posting, reversing,
\* closing and reopening are one step of a book each, and nothing else shows.
THEOREM ServicesImplementBooks == Spec => ImplementsBooks
<1>1. Init => B!Init
  <2> SUFFICES ASSUME Init PROVE B!Init
    OBVIOUS
  <2>1. \A y \in Years : BookOf(y) = <<>>
    <3>1. \A y \in Years : nextNumber[y] = 1
      BY DEF Init
    <3> QED BY <3>1 DEF BookOf
  <2>2. Reversed = {} /\ Locked = {}
    BY DEF Init, Reversed, Locked, LockedYear, NoRow
  <2> QED BY <2>1, <2>2 DEF B!Init, Reversed, Locked
<1>2. ASSUME Inv, Inv', [Next]_vars PROVE [B!Next]_(B!vars)
  <2>1. ASSUME NEW r \in Req, Move(r) PROVE [B!Next]_(B!vars)
    BY <1>2, <2>1, StepEffect, QuietStep, EnterStep, ReverseStep
  <2>2. CASE UNCHANGED vars
    BY <2>2 DEF vars, db, ctx, B!vars, BookOf, PostedIn, Posted, LockedYear
  <2> QED BY <1>2, <2>1, <2>2 DEF Next, Move, Idle
<1> QED
  BY <1>1, <1>2, Inductive, PTL DEF Spec, ImplementsBooks, B!Spec

-----------------------------------------------------------------------------
(* The order in which a transaction takes its locks: the entry, the year, the  *)
(* period, the counter.                                                        *)

\* The kinds of lock a request can hold at each step.
Behind(r) ==
  CASE pc[r] = "lockYear" -> IF op[r] = "closeYear" THEN {"year"} ELSE {"entry"}
    [] pc[r] = "recheckStatus" -> {"year"}
    [] pc[r] \in {"recheckYear", "lockPeriod"} -> {"entry", "year"}
    [] pc[r] = "draw" -> {"entry", "year", "period"}
    [] pc[r] \in {"write", "setClosed"} -> {"entry", "year", "period", "seq"}
    [] OTHER -> {}

HeldInOrder(r) == InFlight(r) \/ pc[r] = "start" => \A k \in held[r] : k[1] \in Behind(r)

\* The place in that order of the lock that a request waits for.
WantedRank(r) ==
  CASE pc[r] = "lockDraft" -> 1
    [] pc[r] \in {"lockYearX", "lockYear"} -> 2
    [] pc[r] \in {"lockPeriod", "setOpen"} -> 3
    [] pc[r] = "draw" -> 4
    [] OTHER -> 0

\* Every step takes locks in that order.
LEMMA OrderKept ==
  ASSUME Inv, NEW r \in Req, Move(r), \A q \in Req : HeldInOrder(q), NEW q \in Req
  PROVE  HeldInOrder(q)'
<1>0. TypeOK /\ OpAtStep(r) /\ Frame(r) /\ HeldInOrder(r)
  BY MoveFrame DEF Inv, IInv
<1>1. CASE q # r
  BY <1>0, <1>1 DEF Frame, HeldInOrder, Behind, InFlight
<1>2. CASE pc'[r] \in {"done", "failed"} /\ q = r
  BY <1>2 DEF HeldInOrder, InFlight
<1>3. CASE pc'[r] \notin {"done", "failed"} /\ q = r
  <2>1. ~Reject(r) /\ ~Rollback(r) /\ ~Commit(r)
    BY <1>0, <1>3 DEF Reject, Rollback, Commit, Goto, TypeOK
  <2>2. CASE Begin(r) /\ UNCHANGED held
    <3>1. pc[r] = "start"
      BY <2>2 DEF Begin, BeginPost, BeginOpening, BeginPostDraft, BeginReverse,
         BeginClosePeriod, BeginReopenPeriod, BeginCloseYear, BeginReopenYear, BeginUpdateAccount,
         BeginDeleteAccount, BeginAccount, CreateDraft, DeleteDraft, Arrives
    <3>2. held[r] = {}
      BY <1>0, <3>1 DEF HeldInOrder, Behind
    <3> QED BY <1>3, <2>2, <3>2 DEF HeldInOrder
  <2>3. CASE BeginClosePeriod(r)
    <3>1. pc'[r] = "setClosed" /\ \A k \in held'[r] : k \in held[r] \/ k[1] = "period"
      BY <1>0, <2>1, <2>3 DEF BeginClosePeriod, Acquire, Goto, TypeOK, Exclusive
    <3>2. held[r] = {}
      BY <1>0, <2>3 DEF HeldInOrder, Behind, BeginClosePeriod, Arrives
    <3> QED BY <1>3, <3>1, <3>2 DEF HeldInOrder, Behind
  <2>4. CASE Prepare(r)
    <3>1. UNCHANGED held /\ held[r] = {}
      BY <1>0, <2>1, <2>4 DEF Prepare, ReadMovements, LoadClosing, FindOpenPeriod, FindClosedYear,
         AssertPostableAccounts, CountLines, HeldInOrder, Behind, InFlight
    <3> QED BY <1>3, <3>1 DEF HeldInOrder
  <2>5. CASE Guard(r)
    <3>1. CASE LockDraft(r)
      BY <1>0, <1>3, <2>1, <3>1 DEF LockDraft, HeldInOrder, Behind, InFlight, Acquire, Exclusive,
         Goto, TypeOK, OpAtStep, ctx
    <3>2. CASE LockYearExclusive(r)
      BY <1>0, <1>3, <2>1, <3>2 DEF LockYearExclusive, HeldInOrder, Behind, InFlight, Acquire,
         Exclusive, Goto, TypeOK
    <3>3. CASE RecheckStatus(r)
      BY <1>0, <1>3, <2>1, <3>3 DEF RecheckStatus, HeldInOrder, Behind, InFlight, Goto, TypeOK, ctx
    <3>4. CASE LockYearShared(r)
      BY <1>0, <1>3, <2>1, <3>4 DEF LockYearShared, HeldInOrder, Behind, InFlight, Acquire,
         Share, Goto, TypeOK
    <3>5. CASE RecheckYear(r)
      BY <1>0, <1>3, <2>1, <3>5 DEF RecheckYear, HeldInOrder, Behind, InFlight, Goto, TypeOK
    <3>6. CASE LockPeriodShared(r)
      BY <1>0, <1>3, <2>1, <3>6 DEF LockPeriodShared, HeldInOrder, Behind, InFlight, Acquire,
         Share, Goto, TypeOK
    <3>7. CASE NextNumber(r)
      BY <1>0, <1>3, <2>1, <3>7 DEF NextNumber, HeldInOrder, Behind, InFlight, Acquire,
         Exclusive, Goto, TypeOK
    <3> QED BY <2>5, <3>1, <3>2, <3>3, <3>4, <3>5, <3>6, <3>7 DEF Guard
  <2>6. ~Write(r) /\ ~Abort(r)
    BY <1>0, <1>3, <2>1 DEF Abort, Write, WritePosted, WriteDraftPosted, WriteReversal, WriteClosing,
       WriteReopened, UpsertClosed, UpdateOpen, SetPeriodClosed, SetPeriodOpen, UpdateAccount,
       TombstoneAccount, SetAccount, Goto, TypeOK
  <2>7. Begin(r) => UNCHANGED held \/ BeginClosePeriod(r)
    BY <2>1 DEF Begin, BeginPost, BeginOpening, BeginPostDraft, BeginReverse,
       BeginReopenPeriod, BeginCloseYear, BeginReopenYear, BeginUpdateAccount,
       BeginDeleteAccount, BeginAccount, CreateDraft, DeleteDraft
  <2> QED BY <2>2, <2>3, <2>4, <2>5, <2>6, <2>7 DEF Move, Step
<1> QED BY <1>1, <1>2, <1>3

\* Who is waited for, and waits, waits for a lock further up.
LEMMA WaitingClimbs ==
  ASSUME Inv, \A q \in Req : HeldInOrder(q),
         NEW r \in Req, NEW q \in Req, NEW s \in Req, WaitsFor(r, q), WaitsFor(q, s)
  PROVE  /\ WantedRank(r) \in 1 .. 4 /\ WantedRank(q) \in 1 .. 4
         /\ WantedRank(r) < WantedRank(q)
<1>1. PICK l \in WantedLocks(r), k \in held[q] : Conflict(k, l)
  BY DEF WaitsFor
<1>2. PICK m \in WantedLocks(q), n \in held[s] : Conflict(n, m) /\ s # q
  BY DEF WaitsFor
<1>3. \/ l[1] = "entry" /\ WantedRank(r) = 1
      \/ l[1] = "year" /\ WantedRank(r) = 2
      \/ l[1] = "period" /\ WantedRank(r) = 3
      \/ l[1] = "seq" /\ WantedRank(r) = 4
  <2>1. pc[r] \in {"lockDraft", "lockYearX", "lockYear", "lockPeriod", "setOpen", "draw"}
    BY DEF WantedLocks
  <2>2. CASE pc[r] = "lockDraft"
    BY <2>2 DEF WantedLocks, WantedRank, Exclusive
  <2>3. CASE pc[r] \in {"lockYearX", "lockYear"}
    BY <2>3 DEF WantedLocks, WantedRank, Exclusive, Share
  <2>4. CASE pc[r] \in {"lockPeriod", "setOpen"}
    BY <2>4 DEF WantedLocks, WantedRank, Exclusive, Share
  <2>5. CASE pc[r] = "draw"
    BY <2>5 DEF WantedLocks, WantedRank, Exclusive
  <2> QED BY <2>1, <2>2, <2>3, <2>4, <2>5
<1>4. k[1] = l[1]
  BY <1>1 DEF Conflict
<1>5. pc[q] \in {"lockDraft", "lockYearX", "lockYear", "lockPeriod", "setOpen", "draw"}
  BY DEF WantedLocks
<1>6. k[1] \in Behind(q)
  BY <1>5 DEF HeldInOrder, InFlight
<1>7. CASE pc[q] \in {"lockDraft", "lockYearX", "setOpen"}
  BY <1>6, <1>7 DEF Behind
<1>8. CASE pc[q] = "lockYear" /\ op[q] = "closeYear"
  <2>1. Exclusive("year", Year(q)) \in held[q]
    BY <1>8 DEF Inv, IInv, LocksHeld, Stamping
  <2>2. m = Share("year", Year(q))
    BY <1>8 DEF WantedLocks
  <2>3. Conflict(n, Exclusive("year", Year(q)))
    BY <1>2, <2>2 DEF Conflict, Exclusive, Share
  <2> QED BY <1>2, <2>1, <2>3 DEF Inv, IInv, LocksCompatible
<1>9. CASE pc[q] = "lockYear" /\ op[q] # "closeYear"
  BY <1>3, <1>4, <1>6, <1>9 DEF Behind, WantedRank
<1>10. CASE pc[q] = "lockPeriod"
  BY <1>3, <1>4, <1>6, <1>10 DEF Behind, WantedRank
<1>11. CASE pc[q] = "draw"
  BY <1>3, <1>4, <1>6, <1>11 DEF Behind, WantedRank
<1> QED BY <1>5, <1>7, <1>8, <1>9, <1>10, <1>11

\* Every transaction takes its locks in one order, so no requests wait for each
\* other in a circle, however many there are.
THEOREM NobodyWaitsInACircle == Spec => []NoWaitCycle
<1> DEFINE O == \A q \in Req : HeldInOrder(q)
<1>1. Init => O
  BY DEF Init, HeldInOrder
<1>2. ASSUME Inv, O, [Next]_vars PROVE O'
  <2>1. ASSUME NEW r \in Req, Move(r) PROVE O'
    BY <1>2, <2>1, OrderKept
  <2>2. CASE UNCHANGED vars
    BY <1>2, <2>2 DEF HeldInOrder, Behind, InFlight, vars, ctx
  <2> QED BY <1>2, <2>1, <2>2 DEF Next, Move, Idle
<1>3. ASSUME Inv, O PROVE NoWaitCycle
  <2> SUFFICES ASSUME ~NoWaitCycle PROVE FALSE
    OBVIOUS
  <2>1. PICK S : S \subseteq Req /\ S # {} /\ \A r \in S : \E q \in S : WaitsFor(r, q)
    BY DEF NoWaitCycle
  <2>2. ASSUME NEW r \in S
        PROVE  /\ WantedRank(r) \in 1 .. 4
               /\ \E q \in S : WantedRank(q) \in 1 .. 4 /\ WantedRank(r) < WantedRank(q)
    <3>1. PICK q \in S : WaitsFor(r, q)
      BY <2>1
    <3>2. PICK s \in S : WaitsFor(q, s)
      BY <2>1
    <3> QED BY <1>3, <2>1, <3>1, <3>2, WaitingClimbs
  <2>3. \A r \in S : WantedRank(r) \in 1 .. 3
    BY <2>2
  <2>4. \A r \in S : WantedRank(r) \in 1 .. 2
    BY <2>2, <2>3
  <2>5. \A r \in S : WantedRank(r) = 1
    BY <2>2, <2>4
  <2> QED BY <2>1, <2>2, <2>5
<1> QED
  BY <1>1, <1>2, <1>3, Inductive, PTL DEF Spec
=============================================================================
