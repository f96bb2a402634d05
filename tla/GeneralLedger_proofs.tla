------------------------ MODULE GeneralLedger_proofs ------------------------
(***************************************************************************)
(* Proofs about the general ledger, for any number of requests, years,      *)
(* periods and accounts.  The argument is rely-guarantee: a step of request *)
(* r leaves the context of every other request alone and changes a fact     *)
(* that another request may rely on only while it could hold the exclusive  *)
(* lock that protects it (Guarantee); so what a request has established     *)
(* under its locks stays true until it commits (OthersUndisturbed).         *)
(***************************************************************************)
EXTENDS GeneralLedger, TLAPS

Inv == TypeOK /\ IInv

\* A step of r by itself: one of the requests moves.
Move(r) == Begin(r) \/ Step(r) \/ Abort(r)

\* The context and the locks of the other requests do not change.
Frame(r) ==
  \A q \in Req \ {r} :
    /\ pc'[q] = pc[q]
    /\ op'[q] = op[q]
    /\ tgt'[q] = tgt[q]
    /\ date'[q] = date[q]
    /\ acctId'[q] = acctId[q]
    /\ num'[q] = num[q]
    /\ buf'[q] = buf[q]
    /\ held'[q] = held[q]

\* Rows that exist keep their date, source and lines; a posted row stays posted.
RowsPersist ==
  \A e \in Req :
    journal[e].status # "none" =>
      /\ journal'[e].status # "none"
      /\ journal'[e].date = journal[e].date
      /\ journal'[e].source = journal[e].source
      /\ lines'[e] = lines[e]
      /\ journal[e].status \in {"POSTED", "REVERSED"} =>
           journal'[e].status \in {"POSTED", "REVERSED"}

\* The facts that a lock protects change only when nobody else holds it.
Protected(r) ==
  /\ \A e \in Req : IsDraft(e) /\ ~IsDraft(e)' => CanLock(r, Exclusive("entry", e))
  /\ \A y \in Years : ~LockedYear(y) /\ LockedYear(y)' => CanLock(r, Exclusive("year", y))
  /\ \A p \in Periods :
       periodStatus[p] = "OPEN" /\ periodStatus'[p] # "OPEN"
         => CanLock(r, Exclusive("period", p))
  /\ \A y \in Years : nextNumber'[y] # nextNumber[y] => CanLock(r, Exclusive("seq", y))

Guarantee(r) == Frame(r) /\ RowsPersist /\ Protected(r)

-----------------------------------------------------------------------------
(* The initial state. *)

\* A new set of books satisfies the invariant.
LEMMA InitInv == Init => Inv
<1> SUFFICES ASSUME Init PROVE Inv
  OBVIOUS
<1>1. TypeOK
  BY LedgerAssumption DEF Init, TypeOK, EntryRow, NoRow, Sources, ClosingRow, Labels, Ops, Locks
<1>2. LocksCompatible
  BY DEF Init, LocksCompatible
<1>3. \A r \in Req : OpAtStep(r) /\ TargetKnown(r) /\ LocksHeld(r)
  BY DEF Init, OpAtStep, TargetKnown, LocksHeld, InFlight, Guarded, Stamping, Editing
<1>4. \A r \in Req : RowOK(r)
  BY DEF Init, RowOK, NoRow, AlreadyReversed
<1>5. ReversedOnce
  BY DEF Init, ReversedOnce, NoRow
<1>6. ClosingRecordOK
  BY DEF Init, ClosingRecordOK
<1>7. GaplessNumbering
  <2>1. Posted = {}
    BY DEF Init, Posted, NoRow
  <2> QED
    BY <2>1 DEF Init, GaplessNumbering, PostedIn
<1> QED
  BY <1>1, <1>2, <1>3, <1>4, <1>5, <1>6, <1>7 DEF Inv, IInv

-----------------------------------------------------------------------------
(* Locks. *)

\* Whoever holds an exclusive lock could be granted it again: nobody else has it.
LEMMA HolderCanLock ==
  ASSUME LocksCompatible, NEW r \in Req, NEW k, NEW i, Exclusive(k, i) \in held[r]
  PROVE  CanLock(r, Exclusive(k, i))
BY DEF LocksCompatible, CanLock, Conflict, Exclusive

\* The two ways the locks of r change, besides not changing at all.
LEMMA AcquireCompatible ==
  ASSUME TypeOK, LocksCompatible, NEW r \in Req, NEW l, Acquire(r, l)
  PROVE  LocksCompatible'
<1> SUFFICES ASSUME NEW q \in Req, NEW s \in Req, q # s,
                    NEW k \in held'[q], NEW m \in held'[s]
             PROVE  ~Conflict(k, m)
  BY DEF LocksCompatible
<1>1. /\ held'[r] = held[r] \cup {l}
      /\ \A t \in Req \ {r} : held'[t] = held[t]
  BY DEF TypeOK, Acquire
<1>2. CASE k \in held[q] /\ m \in held[s]
  BY <1>2 DEF LocksCompatible
<1>3. CASE k \notin held[q]
  <2>1. q = r /\ k = l /\ m \in held[s]
    BY <1>1, <1>3
  <2>2. ~Conflict(m, l)
    BY <2>1 DEF Acquire, CanLock
  <2> QED
    BY <2>1, <2>2 DEF Conflict
<1>4. CASE m \notin held[s]
  <2>1. s = r /\ m = l /\ k \in held[q]
    BY <1>1, <1>4
  <2> QED
    BY <2>1 DEF Acquire, CanLock
<1> QED
  BY <1>2, <1>3, <1>4

\* Committing and rolling back release every lock of r.
LEMMA ReleaseCompatible ==
  ASSUME TypeOK, LocksCompatible, NEW r \in Req, ReleaseAll(r)
  PROVE  LocksCompatible'
BY DEF TypeOK, LocksCompatible, ReleaseAll

-----------------------------------------------------------------------------
(* Rely-guarantee. *)

\* What a request has established survives any step of another that keeps the
\* guarantee: the protecting lock is held, so the other could not be granted it.
LEMMA OthersUndisturbed ==
  ASSUME Inv, NEW r \in Req, Guarantee(r), NEW q \in Req, q # r
  PROVE  (OpAtStep(q) /\ TargetKnown(q) /\ LocksHeld(q))'
<1> USE DEF Inv, IInv
<1>1. OpAtStep(q) /\ TargetKnown(q) /\ LocksHeld(q) /\ Frame(r) /\ RowsPersist /\ Protected(r)
  BY DEF Guarantee
<1>2. /\ pc'[q] = pc[q] /\ op'[q] = op[q] /\ tgt'[q] = tgt[q] /\ date'[q] = date[q]
      /\ acctId'[q] = acctId[q] /\ num'[q] = num[q] /\ buf'[q] = buf[q] /\ held'[q] = held[q]
  BY <1>1 DEF Frame
<1>3. /\ Year(q)' = Year(q) /\ InFlight(q)' = InFlight(q)
      /\ Guarded(q)' = Guarded(q) /\ Stamping(q)' = Stamping(q) /\ Editing(q)' = Editing(q)
  BY <1>2 DEF Year, InFlight, Guarded, Stamping, Editing
<1>4. OpAtStep(q)'
  BY <1>1, <1>2, <1>3 DEF OpAtStep
<1>5. TargetKnown(q)'
  BY <1>1, <1>2, <1>3 DEF TargetKnown, RowsPersist, Swapped
<1>6. \A k, i : Exclusive(k, i) \in held[q] \/ Share(k, i) \in held[q]
                  => ~CanLock(r, Exclusive(k, i))
  BY DEF CanLock, Conflict, Exclusive, Share
<1>7. InFlight(q) /\ ~Editing(q) => date[q] \in Periods /\ Year(q) \in Years
  BY <1>1, LedgerAssumption DEF TargetKnown, Year
<1>8. Stamping(q) \/ pc[q] \in {"write", "draw"} => InFlight(q) /\ ~Editing(q)
  BY DEF Stamping, Guarded, InFlight, Editing
<1>9. LocksHeld(q)'
  <2>1. op[q] = "postDraft" /\ Stamping(q) =>
          Exclusive("entry", tgt[q]) \in held'[q] /\ IsDraft(tgt[q])'
    BY <1>1, <1>2, <1>6, <1>8 DEF LocksHeld, Protected, TargetKnown
  <2>2. op[q] # "reopenYear" /\ Guarded(q) => ~LockedYear(Year(q))'
    <3>1. SUFFICES ASSUME op[q] # "reopenYear", Guarded(q), LockedYear(Year(q))'
                   PROVE  FALSE
      OBVIOUS
    <3>2. ~LockedYear(Year(q)) /\ Year(q) \in Years
      BY <1>1, <1>7, <1>8, <3>1 DEF LocksHeld, Stamping
    <3>3. LockedYear(Year(q))' <=> (closing'[Year(q)].status = "CLOSED" /\ closing'[Year(q)].entry # Null)
      BY <1>3 DEF LockedYear
    <3>4. CanLock(r, Exclusive("year", Year(q)))
      BY <1>1, <3>1, <3>2, <3>3 DEF Protected, LockedYear
    <3> QED
      BY <1>1, <1>6, <3>1, <3>4 DEF LocksHeld
  <2>3. pc[q] \in {"draw", "write"} => periodStatus'[date[q]] = "OPEN"
    BY <1>1, <1>6, <1>7, <1>8 DEF LocksHeld, Protected
  <2>4. pc[q] = "write" => num[q] = nextNumber'[Year(q)]
    BY <1>1, <1>6, <1>7, <1>8 DEF LocksHeld, Protected
  <2> QED
    BY <1>1, <1>2, <1>3, <2>1, <2>2, <2>3, <2>4 DEF LocksHeld
<1> QED
  BY <1>4, <1>5, <1>9

-----------------------------------------------------------------------------
(* Steps that leave the tables alone. *)

Own(r) == OpAtStep(r) /\ TargetKnown(r) /\ LocksHeld(r)

\* A step that changes no table keeps the invariant if what r then claims to know
\* is true.
LEMMA QuietInv ==
  ASSUME Inv, NEW r \in Req, UNCHANGED <<journal, lines, nextNumber, periodStatus, closing>>,
         Frame(r), TypeOK', LocksCompatible', Own(r)', pc[r] # "done", pc'[r] # "done"
  PROVE  Inv'
<1> USE DEF Inv, IInv
<1>1. Guarantee(r)
  BY DEF Guarantee, RowsPersist, Protected, IsDraft, LockedYear
<1>2. ASSUME NEW q \in Req PROVE Own(q)'
  BY <1>1, OthersUndisturbed DEF Own
<1>3. ASSUME NEW q \in Req PROVE RowOK(q)'
  <2>1. pc'[q] # "done" => pc[q] # "done"
    BY DEF Frame
  <2> QED
    BY <2>1 DEF RowOK, AlreadyReversed
<1>4. ReversedOnce' /\ ClosingRecordOK'
  BY DEF ReversedOnce, ClosingRecordOK
<1>5. GaplessNumbering'
  BY DEF GaplessNumbering, PostedIn, Posted
<1> QED
  BY <1>2, <1>3, <1>4, <1>5 DEF Own

\* A handler that throws, and a transaction that is rolled back, change no table.
LEMMA FailInv ==
  ASSUME Inv, NEW r \in Req, pc[r] # "done", Reject(r) \/ Rollback(r)
  PROVE  Inv'
<1> USE DEF Inv, IInv
<1>1. TypeOK'
  BY DEF TypeOK, Reject, Rollback, Goto, ReleaseAll, Labels, db, ctx
<1>2. LocksCompatible'
  BY ReleaseCompatible DEF Reject, Rollback, LocksCompatible
<1>3. Frame(r) /\ UNCHANGED db /\ pc'[r] = "failed"
  BY DEF TypeOK, Reject, Rollback, Goto, ReleaseAll, db, ctx, Frame
<1>4. Own(r)'
  BY <1>3 DEF Own, OpAtStep, TargetKnown, LocksHeld, InFlight, Guarded, Stamping, Editing
<1> QED
  BY <1>1, <1>2, <1>3, <1>4, QuietInv DEF db

\* Arriving with an operation other than a draft write: the request carries its
\* context to its next step and touches neither table nor lock.
LEMMA CarryInv ==
  ASSUME Inv, NEW r \in Req, NEW o \in Ops, NEW e \in Req \cup {Null}, NEW p \in Periods, NEW v,
         NEW l \in Labels, pc[r] = "start", Carry(r, o, e, p, v), Goto(r, l), UNCHANGED db,
         l \in {"findPeriod", "movements", "loadClosing", "updateOpen", "setOpen"},
         UNCHANGED held,
         l = "findPeriod" => o \in PostingOps,
         l = "movements" <=> o = "closeYear",
         l \in {"loadClosing", "updateOpen"} <=> o = "reopenYear",
         o = "closeYear" => p = LastPeriod[YearOf[p]],
         o = "postDraft" => e \in Req /\ journal[e].status # "none" /\ journal[e].date = p,
         o \in {"reverse", "reopenYear"} /\ l # "updateOpen" =>
           /\ e \in Req /\ journal[e].status \in {"POSTED", "REVERSED"} /\ journal[e].date = p
           /\ o = "reopenYear" => journal[e].source = "CLOSING"
           /\ l # "loadClosing" => v = Swapped(lines[e])
  PROVE  Inv'
<1> USE DEF Inv, IInv
<1>1. TypeOK'
  BY DEF TypeOK, Carry, Goto, db
<1>2. LocksCompatible'
  BY DEF LocksCompatible
<1>3. Frame(r)
  BY DEF TypeOK, Carry, Goto, Frame
<1>4. /\ pc'[r] = l /\ op'[r] = o /\ tgt'[r] = e /\ date'[r] = p /\ buf'[r] = v
  BY DEF TypeOK, Carry, Goto
<1>5. Own(r)'
  <2>1. OpAtStep(r)' /\ LocksHeld(r)'
    BY <1>4 DEF OpAtStep, LocksHeld, Guarded, Stamping, Editing
  <2>2. TargetKnown(r)'
    BY <1>4 DEF TargetKnown, InFlight, Year, db, Swapped
  <2> QED
    BY <2>1, <2>2 DEF Own
<1> QED
  BY <1>1, <1>2, <1>3, <1>4, <1>5, QuietInv DEF db

\* The arrival of a request that reads before its transaction.
LEMMA BeginQuietInv ==
  ASSUME Inv, NEW r \in Req,
         \/ BeginPost(r) \/ BeginOpening(r) \/ BeginPostDraft(r) \/ BeginReverse(r)
         \/ BeginReopenPeriod(r) \/ BeginCloseYear(r) \/ BeginReopenYear(r)
  PROVE  Inv'
<1>0. pc[r] = "start" /\ \A e \in Req : RowOK(e)
  BY DEF BeginPost, BeginOpening, BeginPostDraft, BeginReverse, BeginReopenPeriod,
         BeginCloseYear, BeginReopenYear, Arrives, Inv, IInv
<1>f. CASE Reject(r)
  BY <1>0, <1>f, FailInv
<1> USE DEF Ops, Labels, PostingOps
<1>1. CASE BeginPost(r) /\ ~Reject(r)
  <2>1. PICK v \in Templates, p \in Periods :
          Carry(r, "post", Null, p, v) /\ Goto(r, "findPeriod") /\ UNCHANGED <<db, held>>
    BY <1>1 DEF BeginPost
  <2> QED BY <1>0, <2>1, CarryInv
<1>2. CASE BeginOpening(r) /\ ~Reject(r)
  <2>1. PICK v \in Templates, p \in Periods :
          Carry(r, "opening", Null, p, Plugged(v)) /\ Goto(r, "findPeriod") /\ UNCHANGED <<db, held>>
    BY <1>2 DEF BeginOpening
  <2> QED BY <1>0, <2>1, CarryInv
<1>3. CASE BeginPostDraft(r) /\ ~Reject(r)
  <2>1. PICK e \in Req :
          /\ journal[e].status # "none"
          /\ Carry(r, "postDraft", e, journal[e].date, NoLines)
          /\ Goto(r, "findPeriod") /\ UNCHANGED <<db, held>>
    BY <1>3 DEF BeginPostDraft
  <2>2. journal[e].date \in Periods
    BY <1>0, <2>1 DEF RowOK
  <2> QED BY <1>0, <2>1, <2>2, CarryInv
<1>4. CASE BeginReverse(r) /\ ~Reject(r)
  <2>1. PICK e \in Req :
          /\ journal[e].status = "POSTED"
          /\ Carry(r, "reverse", e, journal[e].date, Swapped(lines[e]))
          /\ Goto(r, "findPeriod") /\ UNCHANGED <<db, held>>
    BY <1>4 DEF BeginReverse
  <2>2. journal[e].date \in Periods
    BY <1>0, <2>1 DEF RowOK
  <2> QED BY <1>0, <2>1, <2>2, CarryInv
<1>5. CASE BeginReopenPeriod(r) /\ ~Reject(r)
  <2>1. PICK p \in Periods :
          Carry(r, "reopenPeriod", Null, p, NoLines) /\ Goto(r, "setOpen") /\ UNCHANGED <<db, held>>
    BY <1>5 DEF BeginReopenPeriod
  <2> QED BY <1>0, <2>1, CarryInv
<1>6. CASE BeginCloseYear(r) /\ ~Reject(r)
  <2>1. PICK y \in Years :
          /\ Carry(r, "closeYear", Null, LastPeriod[y], NoLines)
          /\ Goto(r, "movements") /\ UNCHANGED <<db, held>>
    BY <1>6 DEF BeginCloseYear
  <2>2. LastPeriod[y] \in Periods /\ YearOf[LastPeriod[y]] = y
    BY YearEndAssumption
  <2> QED BY <1>0, <2>1, <2>2, CarryInv
<1>7. CASE BeginReopenYear(r) /\ ~Reject(r)
  <2>1. PICK y \in Years :
          /\ closing[y].status = "CLOSED"
          /\ Carry(r, "reopenYear", closing[y].entry, LastPeriod[y], NoLines)
          /\ Goto(r, IF closing[y].entry = Null THEN "updateOpen" ELSE "loadClosing")
          /\ UNCHANGED <<db, held>>
    BY <1>7 DEF BeginReopenYear
  <2>2. LastPeriod[y] \in Periods
    BY YearEndAssumption
  <2>3. closing[y].entry \in Req \cup {Null}
    BY DEF Inv, TypeOK, ClosingRow
  <2>4. closing[y].entry # Null =>
          /\ journal[closing[y].entry].source = "CLOSING"
          /\ journal[closing[y].entry].status \in {"POSTED", "REVERSED"}
          /\ journal[closing[y].entry].date = LastPeriod[y]
    BY DEF Inv, IInv, ClosingRecordOK
  <2>5. CASE closing[y].entry = Null
    BY <1>0, <2>1, <2>2, <2>3, <2>5, CarryInv
  <2>6. CASE closing[y].entry # Null
    BY <1>0, <2>1, <2>2, <2>3, <2>4, <2>6, CarryInv
  <2> QED BY <2>5, <2>6
<1> QED
  BY <1>f, <1>1, <1>2, <1>3, <1>4, <1>5, <1>6, <1>7

\* Moving on without a lock: the new step knows no more than the old one, or what
\* the step has just read.
LEMMA GotoInv ==
  ASSUME Inv, NEW r \in Req, NEW l \in Labels, Goto(r, l), UNCHANGED <<db, held, op, tgt, date, acctId, num>>,
         DOMAIN buf' = Req, \A q \in Req \ {r} : buf'[q] = buf[q],
         pc[r] # "done", l # "done", Own(r)'
  PROVE  Inv'
<1> USE DEF Inv, IInv
<1>1. TypeOK'
  BY DEF TypeOK, Goto, db
<1>2. LocksCompatible'
  BY DEF LocksCompatible
<1>3. Frame(r) /\ pc'[r] = l
  BY DEF TypeOK, Goto, Frame
<1> QED
  BY <1>1, <1>2, <1>3, QuietInv DEF db

\* The reads of preparePosting, prepareReversal, postDraft and close.
LEMMA PrepareInv ==
  ASSUME Inv, NEW r \in Req, Prepare(r)
  PROVE  Inv'
<1>0. /\ pc[r] # "done" /\ Own(r) /\ DOMAIN pc = Req /\ DOMAIN buf = Req
      /\ pc \in [Req -> Labels]
  BY DEF Prepare, ReadMovements, LoadClosing, FindOpenPeriod, FindClosedYear,
         AssertPostableAccounts, CountLines, Inv, IInv, Own, TypeOK
<1>f. CASE Reject(r)
  BY <1>0, <1>f, FailInv
<1> USE DEF Labels
<1>1. CASE ReadMovements(r)
  <2>1. PICK l \in {"upsertClosed", "findPeriod", "failed"} : Goto(r, l)
    BY <1>1 DEF ReadMovements
  <2>2. /\ pc[r] = "movements" /\ UNCHANGED <<db, held, op, tgt, date, acctId, num>>
        /\ DOMAIN buf' = Req /\ \A q \in Req \ {r} : buf'[q] = buf[q]
    BY <1>0, <1>1 DEF ReadMovements, ctx
  <2>3. Own(r)'
    BY <1>0, <2>1, <2>2 DEF Own, OpAtStep, TargetKnown, LocksHeld, InFlight, Guarded, Stamping, Editing,
       Goto, Year, db, PostingOps
  <2> QED BY <1>0, <2>1, <2>2, <2>3, GotoInv
<1>2. CASE LoadClosing(r) /\ ~Reject(r)
  <2>1. /\ pc[r] = "loadClosing" /\ Goto(r, "findPeriod")
        /\ buf' = [buf EXCEPT ![r] = Swapped(lines[tgt[r]])]
        /\ UNCHANGED <<db, held, op, tgt, date, acctId, num>>
    BY <1>2 DEF LoadClosing
  <2>2. DOMAIN buf' = Req /\ \A q \in Req \ {r} : buf'[q] = buf[q]
    BY <1>0, <2>1
  <2>3. Own(r)'
    BY <1>0, <2>1 DEF Own, OpAtStep, TargetKnown, LocksHeld, InFlight, Guarded, Stamping, Editing,
       Goto, Year, db, PostingOps, Swapped
  <2> QED BY <1>0, <2>1, <2>2, <2>3, GotoInv
<1>3. CASE FindOpenPeriod(r, AfterFindPeriod(op[r])) /\ ~Reject(r)
  <2>1. pc[r] = "findPeriod" /\ Goto(r, AfterFindPeriod(op[r])) /\ UNCHANGED <<db, held, ctx>>
    BY <1>3 DEF FindOpenPeriod
  <2>2. Own(r)' /\ AfterFindPeriod(op[r]) \in Labels \ {"done"}
    BY <1>0, <2>1 DEF Own, OpAtStep, TargetKnown, LocksHeld, InFlight, Guarded, Stamping, Editing,
       Goto, Year, db, ctx, PostingOps, Swapped, AfterFindPeriod
  <2> QED BY <1>0, <2>1, <2>2, GotoInv DEF ctx
<1>4. CASE FindClosedYear(r, AfterFindClosed(op[r])) /\ ~Reject(r)
  <2>1. pc[r] = "findClosed" /\ Goto(r, AfterFindClosed(op[r])) /\ UNCHANGED <<db, held, ctx>>
    BY <1>4 DEF FindClosedYear
  <2>2. Own(r)' /\ AfterFindClosed(op[r]) \in Labels \ {"done"}
    BY <1>0, <2>1 DEF Own, OpAtStep, TargetKnown, LocksHeld, InFlight, Guarded, Stamping, Editing,
       Goto, Year, db, ctx, PostingOps, Swapped, AfterFindClosed
  <2> QED BY <1>0, <2>1, <2>2, GotoInv DEF ctx
<1>5. CASE AssertPostableAccounts(r, ToPost(r), AfterAccounts(op[r])) /\ ~Reject(r)
  <2>1. pc[r] = "accounts" /\ Goto(r, AfterAccounts(op[r])) /\ UNCHANGED <<db, held, ctx>>
    BY <1>5 DEF AssertPostableAccounts
  <2>2. Own(r)' /\ AfterAccounts(op[r]) \in Labels \ {"done"}
    BY <1>0, <2>1 DEF Own, OpAtStep, TargetKnown, LocksHeld, InFlight, Guarded, Stamping, Editing,
       Goto, Year, db, ctx, PostingOps, Swapped, AfterAccounts
  <2> QED BY <1>0, <2>1, <2>2, GotoInv DEF ctx
<1>6. CASE CountLines(r) /\ ~Reject(r)
  <2>1. pc[r] = "countLines" /\ Goto(r, "tombstone") /\ UNCHANGED <<db, held, ctx>>
    BY <1>6 DEF CountLines
  <2>2. Own(r)'
    BY <1>0, <2>1 DEF Own, OpAtStep, TargetKnown, LocksHeld, InFlight, Guarded, Stamping, Editing,
       Goto, ctx
  <2> QED BY <1>0, <2>1, <2>2, GotoInv DEF ctx
<1> QED
  BY <1>f, <1>1, <1>2, <1>3, <1>4, <1>5, <1>6 DEF Prepare

\* Moving on with one more lock.
LEMMA AcquireInv ==
  ASSUME Inv, NEW r \in Req, NEW l \in Labels, NEW k \in Locks, Goto(r, l), Acquire(r, k),
         UNCHANGED <<db, op, tgt, date, acctId, buf>>,
         num' \in [Req -> Nat], \A q \in Req \ {r} : num'[q] = num[q],
         pc[r] # "done", l # "done", Own(r)'
  PROVE  Inv'
<1> USE DEF Inv, IInv
<1>1. TypeOK'
  BY DEF TypeOK, Goto, db, Acquire
<1>2. LocksCompatible'
  BY AcquireCompatible
<1>3. Frame(r) /\ pc'[r] = l
  BY DEF TypeOK, Goto, Frame, Acquire
<1> QED
  BY <1>1, <1>2, <1>3, QuietInv DEF db

\* The statements of lockAndReadClosingStatus, assertPostablePeriodInTx,
\* nextSequenceNumber and the lock of a draft.
LEMMA GuardInv ==
  ASSUME Inv, NEW r \in Req, Guard(r)
  PROVE  Inv'
<1>0. /\ pc[r] \in {"lockDraft", "lockYearX", "recheckStatus", "lockYear", "recheckYear",
                    "lockPeriod", "draw"}
      /\ Own(r) /\ TypeOK /\ date[r] \in Periods /\ Year(r) \in Years
      /\ op[r] = "postDraft" => tgt[r] \in Req
  BY LedgerAssumption
     DEF Guard, LockDraft, LockYearExclusive, RecheckStatus, LockYearShared, RecheckYear,
         LockPeriodShared, NextNumber, Inv, IInv, Own, TargetKnown, InFlight, Editing, Year
<1>f. CASE Rollback(r)
  BY <1>0, <1>f, FailInv
<1> USE DEF Labels
<1>1. CASE LockDraft(r) /\ ~Rollback(r)
  <2>1. /\ pc[r] = "lockDraft" /\ IsDraft(tgt[r]) /\ Acquire(r, Exclusive("entry", tgt[r]))
        /\ Goto(r, "lockYear") /\ UNCHANGED <<db, ctx>>
    BY <1>1 DEF LockDraft
  <2>2. Exclusive("entry", tgt[r]) \in Locks
    BY <1>0, <2>1 DEF Own, OpAtStep, Exclusive, Locks
  <2>3. Own(r)'
    BY <1>0, <2>1 DEF Own, OpAtStep, TargetKnown, LocksHeld, InFlight, Guarded, Stamping, Editing,
       Goto, Acquire, Year, db, ctx, PostingOps, TypeOK, IsDraft
  <2> QED BY <1>0, <2>1, <2>2, <2>3, AcquireInv DEF ctx, TypeOK
<1>2. CASE LockYearExclusive(r)
  <2>1. Exclusive("year", Year(r)) \in Locks
    BY <1>0 DEF Exclusive, Locks
  <2>2. Own(r)'
    BY <1>0, <1>2 DEF LockYearExclusive, Own, OpAtStep, TargetKnown, LocksHeld, InFlight,
       Guarded, Stamping, Editing, Goto, Acquire, Year, db, ctx, PostingOps, TypeOK
  <2> QED BY <1>0, <1>2, <2>1, <2>2, AcquireInv DEF LockYearExclusive, ctx, TypeOK
<1>3. CASE RecheckStatus(r) /\ ~Rollback(r)
  <2>1. PICK l \in {"lockYear", "lockPeriod"} :
          /\ pc[r] = "recheckStatus" /\ Goto(r, l) /\ UNCHANGED <<db, ctx, held>>
          /\ l = "lockYear" <=> op[r] = "closeYear"
    BY <1>3 DEF RecheckStatus
  <2>2. Own(r)'
    BY <1>0, <2>1 DEF Own, OpAtStep, TargetKnown, LocksHeld, InFlight,
       Guarded, Stamping, Editing, Goto, Year, db, ctx, PostingOps, TypeOK, Swapped
  <2> QED BY <1>0, <2>1, <2>2, GotoInv DEF ctx, TypeOK
<1>4. CASE LockYearShared(r)
  <2>1. Share("year", Year(r)) \in Locks
    BY <1>0 DEF Share, Locks
  <2>2. Own(r)'
    BY <1>0, <1>4 DEF LockYearShared, Own, OpAtStep, TargetKnown, LocksHeld, InFlight,
       Guarded, Stamping, Editing, Goto, Acquire, Year, db, ctx, PostingOps, TypeOK, IsDraft
  <2> QED BY <1>0, <1>4, <2>1, <2>2, AcquireInv DEF LockYearShared, ctx, TypeOK
<1>5. CASE RecheckYear(r) /\ ~Rollback(r)
  <2>1. /\ pc[r] = "recheckYear" /\ closing[Year(r)].status # "CLOSED"
        /\ Goto(r, "lockPeriod") /\ UNCHANGED <<db, ctx, held>>
    BY <1>5 DEF RecheckYear
  <2>2. Own(r)'
    BY <1>0, <2>1 DEF Own, OpAtStep, TargetKnown, LocksHeld, InFlight,
       Guarded, Stamping, Editing, Goto, Year, db, ctx, PostingOps, TypeOK, IsDraft, LockedYear
  <2> QED BY <1>0, <2>1, <2>2, GotoInv DEF ctx, TypeOK
<1>6. CASE LockPeriodShared(r) /\ ~Rollback(r)
  <2>1. /\ pc[r] = "lockPeriod" /\ periodStatus[date[r]] = "OPEN"
        /\ Acquire(r, Share("period", date[r]))
        /\ Goto(r, "draw") /\ UNCHANGED <<db, ctx>>
    BY <1>6 DEF LockPeriodShared
  <2>2. Share("period", date[r]) \in Locks
    BY <1>0 DEF Share, Locks
  <2>3. Own(r)'
    BY <1>0, <2>1 DEF Own, OpAtStep, TargetKnown, LocksHeld, InFlight, Guarded, Stamping, Editing,
       Goto, Acquire, Year, db, ctx, PostingOps, TypeOK, IsDraft, LockedYear
  <2> QED BY <1>0, <2>1, <2>2, <2>3, AcquireInv DEF ctx, TypeOK
<1>7. CASE NextNumber(r)
  <2>1. Exclusive("seq", Year(r)) \in Locks
    BY <1>0 DEF Exclusive, Locks
  <2>2. num' \in [Req -> Nat] /\ \A q \in Req \ {r} : num'[q] = num[q]
    BY <1>0, <1>7 DEF NextNumber, TypeOK
  <2>3. Own(r)'
    BY <1>0, <1>7 DEF NextNumber, Own, OpAtStep, TargetKnown, LocksHeld, InFlight, Guarded,
       Stamping, Editing, Goto, Acquire, Year, db, ctx, PostingOps, TypeOK, IsDraft, LockedYear
  <2> QED BY <1>0, <1>7, <2>1, <2>2, <2>3, AcquireInv DEF NextNumber
<1> QED
  BY <1>f, <1>1, <1>2, <1>3, <1>4, <1>5, <1>6, <1>7 DEF Guard

\* PeriodsService.close locks the period as its first statement.
LEMMA BeginClosePeriodInv ==
  ASSUME Inv, NEW r \in Req, BeginClosePeriod(r)
  PROVE  Inv'
<1>0. pc[r] = "start" /\ TypeOK /\ LocksCompatible
  BY DEF BeginClosePeriod, Arrives, Inv, IInv
<1>1. CASE Reject(r)
  BY <1>0, <1>1, FailInv
<1>2. CASE ~Reject(r)
  <2>1. PICK p \in Periods :
          /\ Acquire(r, Exclusive("period", p)) /\ Carry(r, "closePeriod", Null, p, NoLines)
          /\ Goto(r, "setClosed") /\ UNCHANGED db
    BY <1>2 DEF BeginClosePeriod
  <2>2. Exclusive("period", p) \in Locks
    BY DEF Exclusive, Locks
  <2>3. TypeOK'
    BY <1>0, <2>1, <2>2 DEF TypeOK, Goto, Carry, Acquire, db, Labels, Ops
  <2>4. LocksCompatible'
    BY <1>0, <2>1, AcquireCompatible
  <2>5. Frame(r)
    BY <1>0, <2>1 DEF TypeOK, Goto, Carry, Acquire, Frame
  <2>6. /\ pc'[r] = "setClosed" /\ op'[r] = "closePeriod" /\ date'[r] = p
        /\ Exclusive("period", p) \in held'[r]
    BY <1>0, <2>1 DEF TypeOK, Goto, Carry, Acquire
  <2>7. Own(r)'
    BY <2>6 DEF Own, OpAtStep, TargetKnown, LocksHeld, InFlight, Guarded, Stamping, Editing
  <2> QED
    BY <1>0, <2>1, <2>3, <2>4, <2>5, <2>6, <2>7, QuietInv DEF db
<1> QED
  BY <1>1, <1>2

\* AccountsService.update and softDelete find their account first.
LEMMA BeginAccountInv ==
  ASSUME Inv, NEW r \in Req, NEW o \in {"updateAccount", "deleteAccount"},
         NEW l \in {"setActive", "countLines"}, BeginAccount(r, o, l)
  PROVE  Inv'
<1>0. pc[r] = "start" /\ TypeOK /\ LocksCompatible
  BY DEF BeginAccount, Arrives, Inv, IInv
<1>1. CASE Reject(r)
  BY <1>0, <1>1, FailInv
<1>2. CASE ~Reject(r)
  <2>1. PICK a \in Edited :
          /\ op' = [op EXCEPT ![r] = o] /\ acctId' = [acctId EXCEPT ![r] = a]
          /\ Goto(r, l) /\ UNCHANGED <<db, held, tgt, date, num, buf>>
    BY <1>2 DEF BeginAccount
  <2>2. a \in Accounts
    BY ChartAssumption
  <2>3. TypeOK'
    BY <1>0, <2>1, <2>2 DEF TypeOK, Goto, db, Labels, Ops
  <2>4. LocksCompatible'
    BY <1>0, <2>1 DEF LocksCompatible
  <2>5. Frame(r) /\ pc'[r] = l /\ op'[r] = o /\ acctId'[r] = a
    BY <1>0, <2>1 DEF TypeOK, Goto, Frame
  <2>6. Own(r)'
    BY <2>2, <2>5 DEF Own, OpAtStep, TargetKnown, LocksHeld, InFlight, Guarded, Stamping, Editing
  <2> QED
    BY <1>0, <2>1, <2>3, <2>4, <2>5, <2>6, QuietInv DEF db
<1> QED
  BY <1>1, <1>2

-----------------------------------------------------------------------------
(* Steps that write. *)

\* A finished request relies on nothing.
LEMMA DoneInv ==
  ASSUME Inv, NEW r \in Req, Guarantee(r), pc'[r] = "done", TypeOK', LocksCompatible',
         \A e \in Req : RowOK(e)', ReversedOnce', ClosingRecordOK', GaplessNumbering'
  PROVE  Inv'
<1>1. Own(r)'
  BY DEF Own, OpAtStep, TargetKnown, LocksHeld, InFlight, Guarded, Stamping, Editing
<1>2. ASSUME NEW q \in Req PROVE Own(q)'
  BY <1>1, OthersUndisturbed DEF Own
<1> QED
  BY <1>2 DEF Inv, IInv, Own

\* The journal stays as it is.
LEMMA JournalSameInv ==
  ASSUME Inv, NEW r \in Req, UNCHANGED <<journal, lines, nextNumber, ctx>>,
         Goto(r, "done"), UNCHANGED held \/ ReleaseAll(r), TypeOK', Protected(r),
         ClosingRecordOK'
  PROVE  Inv'
<1> USE DEF Inv, IInv
<1>1. LocksCompatible'
  BY ReleaseCompatible DEF LocksCompatible
<1>2. Frame(r) /\ pc'[r] = "done"
  BY DEF TypeOK, Goto, ReleaseAll, Frame, ctx
<1>3. RowsPersist
  BY DEF RowsPersist
<1>4. ASSUME NEW e \in Req PROVE RowOK(e)'
  BY <1>2 DEF RowOK, Frame, AlreadyReversed
<1>5. ReversedOnce' /\ GaplessNumbering'
  BY DEF ReversedOnce, GaplessNumbering, PostedIn, Posted
<1> QED
  BY <1>1, <1>2, <1>3, <1>4, <1>5, DoneInv DEF Guarantee

\* The writes to year_end_closings and accounting_periods alone.
LEMMA ClosingWritesInv ==
  ASSUME Inv, NEW r \in Req,
         UpsertClosed(r) \/ UpdateOpen(r) \/ SetPeriodClosed(r) \/ SetPeriodOpen(r)
  PROVE  Inv'
<1>0. TypeOK /\ Own(r) /\ LocksCompatible /\ ClosingRecordOK
  BY DEF Inv, IInv, Own
<1>1. date[r] \in Periods /\ Year(r) \in Years
  BY <1>0, LedgerAssumption DEF UpsertClosed, UpdateOpen, SetPeriodClosed, SetPeriodOpen, Own,
     TargetKnown, InFlight, Editing, Year
<1>2. CASE UpsertClosed(r)
  <2>1. TypeOK'
    BY <1>0, <1>1, <1>2 DEF UpsertClosed, TypeOK, ClosingRow, Goto, Labels, ctx
  <2>2. Protected(r)
    BY <1>0, <1>1, <1>2 DEF UpsertClosed, Protected, LockedYear, IsDraft, TypeOK
  <2>3. ClosingRecordOK'
    BY <1>0, <1>1, <1>2 DEF UpsertClosed, ClosingRecordOK, TypeOK
  <2> QED BY <1>2, <2>1, <2>2, <2>3, JournalSameInv DEF UpsertClosed
<1>3. CASE UpdateOpen(r)
  <2>1. TypeOK'
    BY <1>0, <1>1, <1>3 DEF UpdateOpen, TypeOK, ClosingRow, Goto, Labels, ctx
  <2>2. Protected(r)
    BY <1>0, <1>1, <1>3 DEF UpdateOpen, Protected, LockedYear, IsDraft, TypeOK, ClosingRow
  <2>3. ClosingRecordOK'
    BY <1>0, <1>1, <1>3 DEF UpdateOpen, ClosingRecordOK, TypeOK, ClosingRow
  <2> QED BY <1>3, <2>1, <2>2, <2>3, JournalSameInv DEF UpdateOpen
<1>4. CASE SetPeriodClosed(r)
  <2>1. TypeOK'
    BY <1>0, <1>1, <1>4 DEF SetPeriodClosed, TypeOK, Goto, Commit, ReleaseAll, Labels, ctx
  <2>2. CanLock(r, Exclusive("period", date[r]))
    BY <1>0, <1>4, HolderCanLock DEF SetPeriodClosed, Own, LocksHeld
  <2>3. Protected(r)
    BY <1>0, <1>1, <1>4, <2>2 DEF SetPeriodClosed, Protected, LockedYear, IsDraft, TypeOK
  <2>4. ClosingRecordOK'
    BY <1>0, <1>4 DEF SetPeriodClosed, ClosingRecordOK
  <2> QED BY <1>4, <2>1, <2>3, <2>4, JournalSameInv DEF SetPeriodClosed, Commit
<1>5. CASE SetPeriodOpen(r)
  <2>1. TypeOK'
    BY <1>0, <1>1, <1>5 DEF SetPeriodOpen, TypeOK, Goto, Labels, ctx
  <2>2. Protected(r)
    BY <1>0, <1>1, <1>5 DEF SetPeriodOpen, Protected, LockedYear, IsDraft, TypeOK
  <2>3. ClosingRecordOK'
    BY <1>0, <1>5 DEF SetPeriodOpen, ClosingRecordOK
  <2> QED BY <1>5, <2>1, <2>2, <2>3, JournalSameInv DEF SetPeriodOpen
<1> QED
  BY <1>2, <1>3, <1>4, <1>5

\* The writes of AccountsService touch accounts alone.
LEMMA AccountWritesInv ==
  ASSUME Inv, NEW r \in Req, UpdateAccount(r) \/ TombstoneAccount(r)
  PROVE  Inv'
<1>0. TypeOK /\ ClosingRecordOK /\ pc[r] # "done"
  BY DEF Inv, IInv, UpdateAccount, TombstoneAccount
<1>1. PICK s \in {"active", "inactive", "deleted"} : SetAccount(r, s)
  BY DEF UpdateAccount, TombstoneAccount
<1>2. CASE Reject(r)
  BY <1>0, <1>2, FailInv
<1>3. CASE ~Reject(r)
  <2>1. /\ acct' = [acct EXCEPT ![acctId[r]] = s] /\ Goto(r, "done")
        /\ UNCHANGED <<journal, lines, nextNumber, periodStatus, closing, ctx, held>>
    BY <1>1, <1>3 DEF SetAccount
  <2>2. TypeOK'
    BY <1>0, <2>1 DEF TypeOK, Goto, Labels, ctx
  <2>3. Protected(r) /\ ClosingRecordOK'
    BY <1>0, <2>1 DEF Protected, IsDraft, LockedYear, ClosingRecordOK
  <2> QED BY <2>1, <2>2, <2>3, JournalSameInv
<1> QED
  BY <1>2, <1>3

\* Numbering depends only on the posted rows.
LEMMA SamePostedGapless ==
  ASSUME GaplessNumbering, UNCHANGED nextNumber, Posted' = Posted,
         \A e \in Posted : journal'[e] = journal[e]
  PROVE  GaplessNumbering'
<1>1. ASSUME NEW y \in Years
      PROVE  /\ PostedIn(y)' = PostedIn(y)
             /\ {journal'[e].number : e \in PostedIn(y)'} = {journal[e].number : e \in PostedIn(y)}
  BY DEF PostedIn
<1>2. \A y \in Years : \A e \in PostedIn(y) : journal'[e] = journal[e]
  BY DEF PostedIn
<1> QED
  BY <1>1, <1>2 DEF GaplessNumbering

\* Writing a row that is a draft before and after posts nothing.
LEMMA SameRowsSamePosted ==
  ASSUME NEW d \in Req, \A e \in Req \ {d} : journal'[e] = journal[e],
         journal[d].status \notin {"POSTED", "REVERSED"},
         journal'[d].status \notin {"POSTED", "REVERSED"}
  PROVE  Posted' = Posted /\ \A e \in Posted : journal'[e] = journal[e]
<1>1. \A e \in Req : e \in Posted' <=> e \in Posted
  BY DEF Posted
<1>2. Posted \subseteq Req /\ Posted' \subseteq Req /\ d \notin Posted
  BY DEF Posted
<1> QED
  BY <1>1, <1>2

\* createDraft and softDeleteDraft.
LEMMA DraftWritesInv ==
  ASSUME Inv, NEW r \in Req, CreateDraft(r) \/ DeleteDraft(r)
  PROVE  Inv'
<1>0. /\ TypeOK /\ LocksCompatible /\ ClosingRecordOK /\ ReversedOnce /\ GaplessNumbering
      /\ \A e \in Req : RowOK(e)
      /\ pc[r] = "start"
  BY DEF Inv, IInv, CreateDraft, DeleteDraft, Arrives
<1>1. CASE Reject(r)
  BY <1>0, <1>1, FailInv
<1>2. CASE CreateDraft(r)
  <2>1. PICK v \in Templates, p \in Periods :
          /\ journal' = [journal EXCEPT ![r] = DraftRow(r, p)]
          /\ lines' = [lines EXCEPT ![r] = v]
          /\ Goto(r, "done")
          /\ UNCHANGED <<nextNumber, periodStatus, closing, acct, ctx, held>>
    BY <1>2 DEF CreateDraft
  <2>2. journal[r] = NoRow
    BY <1>0 DEF RowOK
  <2>3. /\ journal'[r] = DraftRow(r, p)
        /\ \A e \in Req \ {r} : journal'[e] = journal[e] /\ lines'[e] = lines[e] /\ pc'[e] = pc[e]
        /\ pc'[r] = "done"
    BY <1>0, <2>1 DEF TypeOK, Goto
  <2>4. /\ journal'[r].status = "DRAFT" /\ journal'[r].date = p /\ journal'[r].reversalOf = Null
        /\ journal'[r].deletedAt = Null /\ journal'[r].source = "MANUAL" /\ journal'[r] \in EntryRow
    BY <2>3, LedgerAssumption DEF DraftRow, EntryRow, Sources
  <2>5. TypeOK'
    BY <1>0, <2>1, <2>4 DEF TypeOK, Goto, Labels, ctx
  <2>6. Guarantee(r)
    BY <1>0, <2>1, <2>2, <2>3 DEF Guarantee, Frame, RowsPersist, Protected, IsDraft, LockedYear,
       NoRow, TypeOK, Goto, ctx
  <2>7. LocksCompatible'
    BY <1>0, <2>1 DEF LocksCompatible
  <2>8. \A e \in Req : journal[e].reversalOf # r /\ journal'[e].reversalOf = journal[e].reversalOf
    <3>1. journal[r].status = "none" /\ journal[r].reversalOf = Null
      BY <2>2 DEF NoRow
    <3> QED BY <1>0, <2>3, <2>4, <3>1, LedgerAssumption DEF RowOK
  <2>9. ASSUME NEW e \in Req PROVE RowOK(e)'
    <3>1. RowOK(e) /\ RowOK(r)
      BY <1>0
    <3>2. CASE e = r
      BY <2>3, <2>4, <3>2 DEF RowOK
    <3>3. CASE e # r
      <4>1. journal'[e] = journal[e] /\ lines'[e] = lines[e] /\ pc'[e] = pc[e]
        BY <2>3, <3>3
      <4>2. AlreadyReversed(e)' <=> AlreadyReversed(e)
        BY <2>8 DEF AlreadyReversed
      <4>3. journal[e].reversalOf # Null =>
              /\ journal[e].reversalOf \in Req \ {r}
              /\ journal'[journal[e].reversalOf] = journal[journal[e].reversalOf]
              /\ lines'[journal[e].reversalOf] = lines[journal[e].reversalOf]
        BY <1>0, <2>3, <2>8 DEF TypeOK, EntryRow
      <4> QED BY <3>1, <4>1, <4>2, <4>3 DEF RowOK
    <3> QED BY <3>2, <3>3
  <2>10. ReversedOnce'
    BY <1>0, <2>8 DEF ReversedOnce
  <2>11. ClosingRecordOK'
    BY <1>0, <2>1, <2>2, <2>3 DEF ClosingRecordOK, NoRow, TypeOK, ClosingRow
  <2>12. Posted' = Posted /\ \A e \in Posted : journal'[e] = journal[e]
    <3>1. journal[r].status = "none"
      BY <2>2 DEF NoRow
    <3> QED BY <2>3, <2>4, <3>1, SameRowsSamePosted
  <2>13. GaplessNumbering'
    BY <1>0, <2>1, <2>12, SamePostedGapless
  <2> QED BY <2>3, <2>5, <2>6, <2>7, <2>9, <2>10, <2>11, <2>13, DoneInv
<1>3. CASE DeleteDraft(r) /\ ~Reject(r)
  <2>1. PICK d \in Req :
          /\ CanLock(r, Exclusive("entry", d))
          /\ IsDraft(d)
          /\ journal' = [journal EXCEPT ![d].deletedAt = "set"]
          /\ Goto(r, "done")
          /\ UNCHANGED <<lines, nextNumber, periodStatus, closing, acct, ctx, held>>
    BY <1>3 DEF DeleteDraft
  <2>2. /\ journal'[d] = [journal[d] EXCEPT !.deletedAt = "set"] /\ journal[d] \in EntryRow
        /\ \A e \in Req \ {d} : journal'[e] = journal[e]
        /\ \A e \in Req \ {r} : pc'[e] = pc[e]
        /\ pc'[r] = "done"
    BY <1>0, <2>1 DEF TypeOK, Goto
  <2>3. /\ journal'[d].status = "DRAFT" /\ journal'[d].date = journal[d].date
        /\ journal'[d].reversalOf = journal[d].reversalOf /\ journal'[d].source = journal[d].source
        /\ journal'[d] \in EntryRow /\ journal[d].status = "DRAFT"
    BY <2>1, <2>2 DEF EntryRow, IsDraft
  <2>4. TypeOK'
    BY <1>0, <2>1, <2>2, <2>3 DEF TypeOK, Goto, Labels, ctx
  <2>5. Guarantee(r)
    BY <1>0, <2>1, <2>2, <2>3 DEF Guarantee, Frame, RowsPersist, Protected, IsDraft, LockedYear, ctx
  <2>6. LocksCompatible'
    BY <1>0, <2>1 DEF LocksCompatible
  <2>7. \A e \in Req : journal'[e].reversalOf = journal[e].reversalOf
                         /\ journal'[e].status = journal[e].status
                         /\ journal'[e].date = journal[e].date
                         /\ journal'[e].source = journal[e].source
    BY <2>2, <2>3
  <2>8. ASSUME NEW e \in Req PROVE RowOK(e)'
    <3>1. RowOK(e) /\ RowOK(d) /\ pc[d] = "done"
      BY <1>0, <2>3 DEF RowOK, NoRow
    <3>2. AlreadyReversed(e)' <=> AlreadyReversed(e)
      BY <2>7 DEF AlreadyReversed
    <3>3. journal[e].reversalOf # Null => journal[e].reversalOf \in Req
      BY <1>0 DEF TypeOK, EntryRow
    <3>4. CASE e = d
      BY <2>1, <2>2, <2>3, <2>7, <3>1, <3>2, <3>3, <3>4 DEF RowOK
    <3>5. CASE e # d
      BY <2>1, <2>2, <2>7, <3>1, <3>2, <3>3, <3>5 DEF RowOK
    <3> QED BY <3>4, <3>5
  <2>9. ReversedOnce'
    BY <1>0, <2>7 DEF ReversedOnce
  <2>10. ClosingRecordOK'
    BY <1>0, <2>1, <2>7 DEF ClosingRecordOK, TypeOK, ClosingRow
  <2>11. Posted' = Posted /\ \A e \in Posted : journal'[e] = journal[e]
    BY <2>2, <2>3, SameRowsSamePosted
  <2>12. GaplessNumbering'
    BY <1>0, <2>1, <2>11, SamePostedGapless
  <2> QED BY <2>2, <2>4, <2>5, <2>6, <2>8, <2>9, <2>10, <2>12, DoneInv
<1> QED
  BY <1>1, <1>2, <1>3

\* One more entry with the next number keeps the numbering gapless.
LEMMA AppendGapless ==
  ASSUME GaplessNumbering, TypeOK, NEW e \in Req, e \notin Posted, NEW y \in Years,
         Posted' = Posted \cup {e},
         YearOf[journal'[e].date] = y, journal'[e].number = nextNumber[y],
         \A f \in Posted : journal'[f].number = journal[f].number
                             /\ journal'[f].date = journal[f].date,
         nextNumber' = [nextNumber EXCEPT ![y] = nextNumber[y] + 1]
  PROVE  GaplessNumbering'
<1> SUFFICES ASSUME NEW z \in Years
             PROVE  /\ {journal'[f].number : f \in PostedIn(z)'} = 1 .. (nextNumber'[z] - 1)
                    /\ \A f, g \in PostedIn(z)' : journal'[f].number = journal'[g].number => f = g
  BY DEF GaplessNumbering
<1>1. /\ {journal[f].number : f \in PostedIn(z)} = 1 .. (nextNumber[z] - 1)
      /\ \A f, g \in PostedIn(z) : journal[f].number = journal[g].number => f = g
      /\ nextNumber[z] \in Nat \ {0} /\ nextNumber[y] \in Nat \ {0}
  BY DEF GaplessNumbering, TypeOK
<1>2. \A f \in PostedIn(z) : journal'[f].number = journal[f].number /\ f # e
  BY DEF PostedIn
<1>3. CASE z # y
  <2>1. PostedIn(z)' = PostedIn(z)
    BY <1>3 DEF PostedIn
  <2>2. nextNumber'[z] = nextNumber[z]
    BY <1>3 DEF TypeOK
  <2>3. {journal'[f].number : f \in PostedIn(z)} = {journal[f].number : f \in PostedIn(z)}
    BY <1>2
  <2> QED
    BY <1>1, <1>2, <2>1, <2>2, <2>3
<1>4. CASE z = y
  <2>1. PostedIn(z)' = PostedIn(z) \cup {e}
    BY <1>4 DEF PostedIn
  <2>2. nextNumber'[z] = nextNumber[z] + 1
    BY <1>4 DEF TypeOK
  <2>3. {journal'[f].number : f \in PostedIn(z)'} =
          {journal[f].number : f \in PostedIn(z)} \cup {nextNumber[z]}
    BY <1>2, <1>4, <2>1
  <2>4. (1 .. (nextNumber[z] - 1)) \cup {nextNumber[z]} = 1 .. nextNumber[z]
    BY <1>1
  <2>5. \A f \in PostedIn(z) : journal[f].number \in 1 .. (nextNumber[z] - 1)
    BY <1>1
  <2>6. \A f \in PostedIn(z) : journal[f].number # nextNumber[z]
    BY <1>1, <2>5
  <2>7. \A f, g \in PostedIn(z)' : journal'[f].number = journal'[g].number => f = g
    BY <1>1, <1>2, <1>4, <2>1, <2>6
  <2> QED
    BY <1>1, <2>2, <2>3, <2>4, <2>7
<1> QED
  BY <1>3, <1>4

\* What every request knows when it writes.
LEMMA WriterKnows ==
  ASSUME Inv, NEW r \in Req, pc[r] = "write"
  PROVE  /\ TypeOK /\ LocksCompatible /\ ClosingRecordOK /\ ReversedOnce /\ GaplessNumbering
         /\ \A e \in Req : RowOK(e)
         /\ Own(r) /\ InFlight(r) /\ Guarded(r) /\ Stamping(r) /\ ~Editing(r)
         /\ journal[r] = NoRow /\ journal[r].status = "none" /\ journal[r].reversalOf = Null
         /\ date[r] \in Periods /\ Year(r) \in Years
         /\ num[r] = nextNumber[Year(r)] /\ num[r] \in Nat
         /\ CanLock(r, Exclusive("seq", Year(r)))
         /\ r # Null
<1>1. /\ TypeOK /\ LocksCompatible /\ ClosingRecordOK /\ ReversedOnce /\ GaplessNumbering
      /\ \A e \in Req : RowOK(e)
      /\ Own(r) /\ InFlight(r) /\ Guarded(r) /\ Stamping(r) /\ ~Editing(r)
  BY DEF Inv, IInv, Own, InFlight, Guarded, Stamping, Editing
<1>2. journal[r] = NoRow
  BY <1>1 DEF RowOK
<1>3. journal[r].status = "none" /\ journal[r].reversalOf = Null
  BY <1>2 DEF NoRow
<1>4. date[r] \in Periods /\ Year(r) \in Years
  BY <1>1, LedgerAssumption DEF Own, TargetKnown, Year
<1>5. num[r] = nextNumber[Year(r)] /\ Exclusive("seq", Year(r)) \in held[r]
  BY <1>1 DEF Own, LocksHeld
<1>6. CanLock(r, Exclusive("seq", Year(r)))
  BY <1>1, <1>5, HolderCanLock
<1> QED
  BY <1>1, <1>2, <1>3, <1>4, <1>5, <1>6, LedgerAssumption DEF TypeOK

\* The locks and the context when a transaction commits.
LEMMA CommitFrame ==
  ASSUME TypeOK, LocksCompatible, NEW r \in Req, Commit(r), UNCHANGED ctx
  PROVE  Frame(r) /\ LocksCompatible' /\ pc'[r] = "done" /\ \A q \in Req \ {r} : pc'[q] = pc[q]
BY ReleaseCompatible DEF TypeOK, Commit, Goto, ReleaseAll, Frame, ctx

\* The types of the control variables when a transaction commits.
LEMMA CommitTypes ==
  ASSUME TypeOK, NEW r \in Req, Commit(r)
  PROVE  pc' \in [Req -> Labels] /\ held' \in [Req -> SUBSET Locks]
BY DEF TypeOK, Commit, Goto, ReleaseAll, Labels

\* createPostedEntryInTx, by createAndPost, postOpeningBalances and close.
LEMMA CreateInv ==
  ASSUME Inv, NEW r \in Req, pc[r] = "write", NEW s \in Sources, CreatePostedEntry(r, s),
         Commit(r), UNCHANGED <<periodStatus, acct, ctx>>,
         \/ UNCHANGED closing
         \/ /\ op[r] = "closeYear" /\ s = "CLOSING"
            /\ closing' = [closing EXCEPT ![Year(r)] = [status |-> "CLOSED", entry |-> r]]
  PROVE  Inv'
<1>0. /\ TypeOK /\ LocksCompatible /\ ClosingRecordOK /\ ReversedOnce /\ GaplessNumbering
      /\ \A e \in Req : RowOK(e)
      /\ Own(r) /\ InFlight(r) /\ Stamping(r)
      /\ journal[r].status = "none" /\ journal[r].reversalOf = Null
      /\ date[r] \in Periods /\ Year(r) \in Years
      /\ num[r] = nextNumber[Year(r)] /\ num[r] \in Nat
      /\ CanLock(r, Exclusive("seq", Year(r)))
      /\ r # Null
  BY WriterKnows
<1>1. /\ journal'[r] = PostedRow(r, s, Null)
      /\ \A e \in Req \ {r} : journal'[e] = journal[e] /\ lines'[e] = lines[e]
      /\ nextNumber' = [nextNumber EXCEPT ![Year(r)] = nextNumber[Year(r)] + 1]
  BY <1>0 DEF CreatePostedEntry, Increment, TypeOK
<1>2. /\ journal'[r].status = "POSTED" /\ journal'[r].deletedAt = Null /\ journal'[r].source = s
      /\ journal'[r].date = date[r] /\ journal'[r].number = num[r] /\ journal'[r].reversalOf = Null
      /\ journal'[r] \in EntryRow
  BY <1>0, <1>1, LedgerAssumption DEF PostedRow, EntryRow
<1>3. Frame(r) /\ LocksCompatible' /\ pc'[r] = "done" /\ \A q \in Req \ {r} : pc'[q] = pc[q]
  BY <1>0, CommitFrame
<1>4. TypeOK'
  <2>1. closing' \in [Years -> ClosingRow]
    BY <1>0 DEF TypeOK, ClosingRow
  <2>2. journal' \in [Req -> EntryRow] /\ DOMAIN lines' = Req
    BY <1>0, <1>1, <1>2 DEF TypeOK, CreatePostedEntry
  <2>3. nextNumber' \in [Years -> Nat \ {0}]
    BY <1>0, <1>1 DEF TypeOK
  <2> QED
    BY <1>0, <2>1, <2>2, <2>3, CommitTypes DEF TypeOK, ctx
<1>5. RowsPersist
  BY <1>0, <1>1 DEF RowsPersist
<1>6. Protected(r)
  <2>1. \A e \in Req : IsDraft(e) => IsDraft(e)'
    BY <1>0, <1>1 DEF IsDraft
  <2>2. ASSUME NEW y \in Years, ~LockedYear(y), LockedYear(y)'
        PROVE  CanLock(r, Exclusive("year", y))
    <3>1. op[r] = "closeYear" /\ y = Year(r)
      BY <1>0, <2>2 DEF LockedYear, TypeOK
    <3>2. Exclusive("year", Year(r)) \in held[r]
      BY <1>0, <3>1 DEF Own, LocksHeld
    <3> QED BY <1>0, <3>1, <3>2, HolderCanLock
  <2>3. \A y \in Years : nextNumber'[y] # nextNumber[y] => y = Year(r)
    BY <1>0, <1>1 DEF TypeOK
  <2> QED
    BY <1>0, <2>1, <2>2, <2>3 DEF Protected
<1>7. \A e \in Req : journal'[e].reversalOf = journal[e].reversalOf /\ journal[e].reversalOf # r
  BY <1>0, <1>1, <1>2 DEF RowOK
<1>8. ASSUME NEW e \in Req PROVE RowOK(e)'
  <2>1. CASE e = r
    BY <1>2, <1>3, <1>0, <2>1 DEF RowOK
  <2>2. CASE e # r
    <3>1. journal'[e] = journal[e] /\ lines'[e] = lines[e] /\ pc'[e] = pc[e] /\ RowOK(e)
      BY <1>0, <1>1, <1>3, <2>2
    <3>2. AlreadyReversed(e)' <=> AlreadyReversed(e)
      BY <1>7 DEF AlreadyReversed
    <3>3. journal[e].reversalOf # Null =>
            /\ journal'[journal[e].reversalOf] = journal[journal[e].reversalOf]
            /\ lines'[journal[e].reversalOf] = lines[journal[e].reversalOf]
      BY <1>0, <1>1, <1>7 DEF TypeOK, EntryRow
    <3> QED BY <3>1, <3>2, <3>3 DEF RowOK
  <2> QED BY <2>1, <2>2
<1>9. ReversedOnce'
  BY <1>0, <1>7 DEF ReversedOnce
<1>10. ClosingRecordOK'
  <2> SUFFICES ASSUME NEW y \in Years, closing'[y].entry # Null
               PROVE  /\ journal'[closing'[y].entry].source = "CLOSING"
                      /\ journal'[closing'[y].entry].status \in {"POSTED", "REVERSED"}
                      /\ journal'[closing'[y].entry].date = LastPeriod[y]
                      /\ closing'[y].status = "CLOSED" => journal'[closing'[y].entry].status = "POSTED"
    BY DEF ClosingRecordOK
  <2>1. CASE closing'[y] = closing[y]
    <3>1. closing[y].entry \in Req \ {r}
      BY <1>0, <2>1 DEF ClosingRecordOK, TypeOK, ClosingRow
    <3> QED BY <1>0, <1>1, <2>1, <3>1 DEF ClosingRecordOK
  <2>2. CASE closing'[y] # closing[y]
    <3>1. closing'[y] = [status |-> "CLOSED", entry |-> r] /\ y = Year(r) /\ op[r] = "closeYear"
          /\ s = "CLOSING"
      BY <1>0, <2>2 DEF TypeOK
    <3>2. date[r] = LastPeriod[y]
      BY <1>0, <3>1 DEF Own, TargetKnown
    <3> QED BY <1>2, <3>1, <3>2
  <2> QED BY <2>1, <2>2
<1>11. GaplessNumbering'
  <2>1. r \notin Posted /\ Posted' = Posted \cup {r}
    BY <1>0, <1>1, <1>2 DEF Posted
  <2>2. \A f \in Posted : journal'[f] = journal[f]
    BY <1>1, <2>1 DEF Posted
  <2>3. YearOf[journal'[r].date] = Year(r) /\ journal'[r].number = nextNumber[Year(r)]
    BY <1>0, <1>2 DEF Year
  <2> QED
    BY <1>0, <1>1, <2>1, <2>2, <2>3, AppendGapless
<1> QED
  BY <1>3, <1>4, <1>5, <1>6, <1>8, <1>9, <1>10, <1>11, DoneInv DEF Guarantee

\* Writing one unposted row as POSTED adds that entry to the posted ones.
LEMMA OneRowPosted ==
  ASSUME NEW d \in Req, \A e \in Req \ {d} : journal'[e] = journal[e],
         journal[d].status \notin {"POSTED", "REVERSED"},
         journal'[d].status = "POSTED", journal'[d].deletedAt = Null
  PROVE  d \notin Posted /\ Posted' = Posted \cup {d}
<1>1. \A e \in Req : e \in Posted' <=> e \in Posted \cup {d}
  BY DEF Posted
<1>2. Posted \subseteq Req /\ Posted' \subseteq Req /\ d \notin Posted
  BY DEF Posted
<1> QED
  BY <1>1, <1>2

\* The update of postDraft: the lock on the draft keeps it a draft until here.
LEMMA WriteDraftPostedInv ==
  ASSUME Inv, NEW r \in Req, WriteDraftPosted(r)
  PROVE  Inv'
<1> DEFINE d == tgt[r]
<1>0. /\ TypeOK /\ LocksCompatible /\ ClosingRecordOK /\ ReversedOnce /\ GaplessNumbering
      /\ \A e \in Req : RowOK(e)
      /\ Own(r) /\ InFlight(r) /\ Stamping(r)
      /\ date[r] \in Periods /\ Year(r) \in Years
      /\ num[r] = nextNumber[Year(r)] /\ num[r] \in Nat
      /\ CanLock(r, Exclusive("seq", Year(r)))
  BY WriterKnows DEF WriteDraftPosted
<1>1. /\ d \in Req /\ IsDraft(d) /\ journal[d].date = date[r] /\ journal[d] \in EntryRow
      /\ CanLock(r, Exclusive("entry", d))
  BY <1>0, HolderCanLock DEF WriteDraftPosted, Own, TargetKnown, LocksHeld, TypeOK
<1>2. /\ journal'[d] = [journal[d] EXCEPT !.status = "POSTED", !.number = num[r],
                                           !.postedBy = UserOf[r]]
      /\ \A e \in Req \ {d} : journal'[e] = journal[e]
      /\ lines' = lines /\ closing' = closing /\ acct' = acct /\ periodStatus' = periodStatus /\ ctx' = ctx
      /\ nextNumber' = [nextNumber EXCEPT ![Year(r)] = nextNumber[Year(r)] + 1]
  BY <1>0, <1>1 DEF WriteDraftPosted, Increment, TypeOK
<1>3. /\ journal'[d].status = "POSTED" /\ journal'[d].deletedAt = Null
      /\ journal'[d].source = journal[d].source
      /\ journal'[d].date = date[r] /\ journal'[d].number = num[r]
      /\ journal'[d].reversalOf = journal[d].reversalOf
      /\ journal'[d] \in EntryRow
  <2>1. UserOf[r] \in Users
    BY LedgerAssumption
  <2> QED
    BY <1>0, <1>1, <1>2, <2>1 DEF EntryRow, IsDraft
<1>4. Frame(r) /\ LocksCompatible' /\ pc'[r] = "done" /\ \A q \in Req \ {r} : pc'[q] = pc[q]
  BY <1>0, <1>2, CommitFrame DEF WriteDraftPosted
<1>5. TypeOK'
  <2>1. journal' \in [Req -> EntryRow]
    BY <1>0, <1>1, <1>2, <1>3 DEF TypeOK, WriteDraftPosted
  <2>2. nextNumber' \in [Years -> Nat \ {0}]
    BY <1>0, <1>2 DEF TypeOK
  <2>3. pc' \in [Req -> Labels] /\ held' \in [Req -> SUBSET Locks]
    BY <1>0, CommitTypes DEF WriteDraftPosted
  <2> QED
    BY <1>0, <1>2, <2>1, <2>2, <2>3 DEF TypeOK, ctx
<1>6. RowsPersist
  BY <1>0, <1>1, <1>2, <1>3 DEF RowsPersist
<1>7. Protected(r)
  <2>1. \A e \in Req : IsDraft(e) /\ ~IsDraft(e)' => e = d
    BY <1>2 DEF IsDraft
  <2>2. \A y \in Years : nextNumber'[y] # nextNumber[y] => y = Year(r)
    BY <1>0, <1>2 DEF TypeOK
  <2> QED
    BY <1>0, <1>1, <1>2, <2>1, <2>2 DEF Protected, LockedYear
<1>8. \A e \in Req : /\ journal'[e].reversalOf = journal[e].reversalOf
                     /\ journal'[e].source = journal[e].source
                     /\ journal[e].status # "none" => journal'[e].date = journal[e].date
                     /\ journal[e].status \in {"POSTED", "REVERSED"} => journal'[e].status = journal[e].status
                     /\ journal[e].reversalOf # d
  <2>1. journal[d].status = "DRAFT" /\ d # Null
    BY <1>1, LedgerAssumption DEF IsDraft
  <2> QED
    <3>1. \A e \in Req : journal[e].reversalOf # d
      BY <1>0, <2>1 DEF RowOK
    <3>2. journal'[d].reversalOf = journal[d].reversalOf /\ journal'[d].source = journal[d].source
          /\ journal'[d].date = journal[d].date
      BY <1>1, <1>3
    <3> QED
      BY <1>1, <1>2, <2>1, <3>1, <3>2
<1>9. ASSUME NEW e \in Req PROVE RowOK(e)'
  <2>1. RowOK(e) /\ RowOK(d)
    BY <1>0, <1>1
  <2>2. AlreadyReversed(e)' <=> AlreadyReversed(e)
    BY <1>8 DEF AlreadyReversed
  <2>3. CASE e = d
    <3>1. journal[d].status = "DRAFT" /\ pc[d] = "done" /\ d # r
      BY <1>1, <1>0, <2>1, WriterKnows DEF IsDraft, RowOK, NoRow, WriteDraftPosted
    <3>2. pc'[d] = "done"
      BY <1>4, <1>1, <3>1
    <3> QED BY <1>0, <1>3, <2>1, <2>3, <3>1, <3>2 DEF RowOK
  <2>4. CASE e # d
    <3>1. journal'[e] = journal[e]
      BY <1>2, <2>4
    <3>2. pc'[e] # "done" => pc[e] # "done"
      BY <1>4
    <3>3. journal[e].reversalOf # Null =>
            /\ journal'[journal[e].reversalOf] = journal[journal[e].reversalOf]
      BY <1>0, <1>2, <1>8 DEF TypeOK, EntryRow
    <3> QED BY <1>2, <2>1, <2>2, <3>1, <3>2, <3>3 DEF RowOK
  <2> QED BY <2>3, <2>4
<1>10. ReversedOnce'
  BY <1>0, <1>8 DEF ReversedOnce
<1>11. ClosingRecordOK'
  <2> SUFFICES ASSUME NEW y \in Years, closing'[y].entry # Null
               PROVE  /\ journal'[closing'[y].entry].source = "CLOSING"
                      /\ journal'[closing'[y].entry].status \in {"POSTED", "REVERSED"}
                      /\ journal'[closing'[y].entry].date = LastPeriod[y]
                      /\ closing'[y].status = "CLOSED" => journal'[closing'[y].entry].status = "POSTED"
    BY DEF ClosingRecordOK
  <2>1. closing' = closing
    BY <1>2
  <2>2. closing[y].entry \in Req
    BY <1>0, <2>1 DEF TypeOK, ClosingRow
  <2>3. /\ journal[closing[y].entry].source = "CLOSING"
        /\ journal[closing[y].entry].status \in {"POSTED", "REVERSED"}
        /\ journal[closing[y].entry].date = LastPeriod[y]
        /\ closing[y].status = "CLOSED" => journal[closing[y].entry].status = "POSTED"
    BY <1>0, <2>1 DEF ClosingRecordOK
  <2> QED
    BY <1>8, <2>1, <2>2, <2>3
<1>12. GaplessNumbering'
  <2>1. d \notin Posted /\ Posted' = Posted \cup {d}
    BY <1>1, <1>2, <1>3, OneRowPosted DEF IsDraft
  <2>2. \A f \in Posted : journal'[f] = journal[f]
    BY <1>2, <2>1 DEF Posted
  <2>3. YearOf[journal'[d].date] = Year(r) /\ journal'[d].number = nextNumber[Year(r)]
    BY <1>0, <1>3 DEF Year
  <2> HIDE DEF d
  <2> QED
    BY <1>0, <1>1, <1>2, <2>1, <2>2, <2>3, AppendGapless
<1> QED
  BY <1>4, <1>5, <1>6, <1>7, <1>9, <1>10, <1>11, <1>12, DoneInv DEF Guarantee

\* reverseInTx, by reverse and by reopen: the original is still POSTED because
\* the unique index has not been hit.
LEMMA ReversalInv ==
  ASSUME Inv, NEW r \in Req, pc[r] = "write", ~AlreadyReversed(tgt[r]), CreateReversal(r),
         Commit(r), UNCHANGED <<periodStatus, acct, ctx>>,
         \/ op[r] = "reverse" /\ UNCHANGED closing
         \/ op[r] = "reopenYear" /\ closing' = [closing EXCEPT ![Year(r)].status = "OPEN"]
  PROVE  Inv'
<1>0. /\ TypeOK /\ LocksCompatible /\ ClosingRecordOK /\ ReversedOnce /\ GaplessNumbering
      /\ \A e \in Req : RowOK(e)
      /\ Own(r) /\ InFlight(r) /\ Guarded(r)
      /\ journal[r].status = "none" /\ journal[r].reversalOf = Null
      /\ date[r] \in Periods /\ Year(r) \in Years
      /\ num[r] = nextNumber[Year(r)] /\ num[r] \in Nat
      /\ CanLock(r, Exclusive("seq", Year(r)))
      /\ r # Null
  BY WriterKnows
<1>p. PICK o \in Req : o = tgt[r]
  BY <1>0 DEF Own, TargetKnown
<1>1. /\ o \in Req /\ o # r /\ o # Null /\ journal[o].date = date[r] /\ journal[o] \in EntryRow
      /\ journal[o].status = "POSTED" /\ buf[r] = Swapped(lines[o])
      /\ \A e \in Req : journal[e].reversalOf # o
  BY <1>0, <1>p, LedgerAssumption DEF Own, TargetKnown, TypeOK, RowOK, AlreadyReversed
<1>2. /\ journal'[r] = PostedRow(r, "REVERSAL", o)
      /\ journal'[o] = [journal[o] EXCEPT !.status = "REVERSED"]
      /\ \A e \in Req \ {r, o} : journal'[e] = journal[e]
      /\ lines'[r] = buf[r] /\ \A e \in Req \ {r} : lines'[e] = lines[e]
      /\ nextNumber' = [nextNumber EXCEPT ![Year(r)] = nextNumber[Year(r)] + 1]
  BY <1>0, <1>p, <1>1 DEF CreateReversal, Increment, TypeOK
<1>3. /\ journal'[r].status = "POSTED" /\ journal'[r].deletedAt = Null
      /\ journal'[r].source = "REVERSAL" /\ journal'[r].date = date[r]
      /\ journal'[r].number = num[r] /\ journal'[r].reversalOf = o
      /\ journal'[r] \in EntryRow
  BY <1>0, <1>1, <1>2, LedgerAssumption DEF PostedRow, EntryRow, Sources
<1>4. /\ journal'[o].status = "REVERSED" /\ journal'[o].deletedAt = journal[o].deletedAt
      /\ journal'[o].source = journal[o].source /\ journal'[o].date = journal[o].date
      /\ journal'[o].number = journal[o].number
      /\ journal'[o].reversalOf = journal[o].reversalOf
      /\ journal'[o] \in EntryRow
  BY <1>1, <1>2 DEF EntryRow
<1>5. Frame(r) /\ LocksCompatible' /\ pc'[r] = "done" /\ \A q \in Req \ {r} : pc'[q] = pc[q]
  BY <1>0, CommitFrame
<1>6. TypeOK'
  <2>1. journal' \in [Req -> EntryRow] /\ DOMAIN lines' = Req
    BY <1>0, <1>1, <1>2, <1>3, <1>4 DEF TypeOK, CreateReversal
  <2>2. nextNumber' \in [Years -> Nat \ {0}]
    BY <1>0, <1>2 DEF TypeOK
  <2>3. pc' \in [Req -> Labels] /\ held' \in [Req -> SUBSET Locks]
    BY <1>0, CommitTypes
  <2>4. closing' \in [Years -> ClosingRow]
    BY <1>0 DEF TypeOK, ClosingRow
  <2> QED
    BY <1>0, <2>1, <2>2, <2>3, <2>4 DEF TypeOK, ctx
<1>7. \A e \in Req \ {r} : /\ journal'[e].date = journal[e].date
                           /\ journal'[e].source = journal[e].source
                           /\ journal'[e].number = journal[e].number
                           /\ journal'[e].deletedAt = journal[e].deletedAt
                           /\ journal'[e].reversalOf = journal[e].reversalOf
                           /\ e # o => journal'[e].status = journal[e].status
  BY <1>1, <1>2, <1>4
<1>8. RowsPersist
  <2> SUFFICES ASSUME NEW e \in Req, journal[e].status # "none"
               PROVE  /\ journal'[e].status # "none"
                      /\ journal'[e].date = journal[e].date
                      /\ journal'[e].source = journal[e].source
                      /\ lines'[e] = lines[e]
                      /\ journal[e].status \in {"POSTED", "REVERSED"} =>
                           journal'[e].status \in {"POSTED", "REVERSED"}
    BY DEF RowsPersist
  <2>1. e # r
    BY <1>0
  <2> QED BY <1>2, <1>4, <1>7, <2>1
<1>9. Protected(r)
  <2>1. \A e \in Req : IsDraft(e) => IsDraft(e)'
    BY <1>0, <1>1, <1>2 DEF IsDraft
  <2>2. \A y \in Years : LockedYear(y)' => LockedYear(y)
    BY <1>0 DEF LockedYear, TypeOK, ClosingRow
  <2>3. \A y \in Years : nextNumber'[y] # nextNumber[y] => y = Year(r)
    BY <1>0, <1>2 DEF TypeOK
  <2> QED
    BY <1>0, <2>1, <2>2, <2>3 DEF Protected
<1>10. ASSUME NEW e \in Req PROVE RowOK(e)'
  <2>0. RowOK(e) /\ \A f \in Req : journal[f].reversalOf # r
    BY <1>0 DEF RowOK
  <2>1. CASE e = r
    <3>1. lines'[r] = Swapped(lines'[o])
      BY <1>1, <1>2
    <3> QED BY <1>0, <1>1, <1>3, <1>4, <1>5, <2>1, <3>1 DEF RowOK
  <2>2. journal[e].reversalOf # Null =>
          /\ journal[e].reversalOf \in Req \ {r, o}
          /\ journal'[journal[e].reversalOf] = journal[journal[e].reversalOf]
          /\ lines'[journal[e].reversalOf] = lines[journal[e].reversalOf]
    BY <1>0, <1>1, <1>2, <2>0 DEF TypeOK, EntryRow
  <2>3. CASE e = o
    <3>1. AlreadyReversed(o)'
      BY <1>3 DEF AlreadyReversed
    <3>2. pc[o] = "done" /\ pc'[o] = "done"
      BY <1>0, <1>1, <1>5 DEF RowOK, NoRow
    <3>3. lines'[o] = lines[o]
      BY <1>1, <1>2
    <3> QED BY <1>0, <1>1, <1>4, <2>0, <2>2, <2>3, <3>1, <3>2, <3>3 DEF RowOK
  <2>4. CASE e \notin {r, o}
    <3>1. journal'[e] = journal[e] /\ lines'[e] = lines[e] /\ pc'[e] = pc[e]
      BY <1>2, <1>5, <2>4
    <3>2. AlreadyReversed(e) => AlreadyReversed(e)'
      BY <1>0, <1>7, LedgerAssumption DEF AlreadyReversed
    <3> QED BY <2>0, <2>2, <3>1, <3>2 DEF RowOK
  <2> QED BY <2>1, <2>3, <2>4
<1>11. ReversedOnce'
  BY <1>0, <1>1, <1>3, <1>7 DEF ReversedOnce
<1>12. ClosingRecordOK'
  <2> SUFFICES ASSUME NEW y \in Years, closing'[y].entry # Null
               PROVE  /\ journal'[closing'[y].entry].source = "CLOSING"
                      /\ journal'[closing'[y].entry].status \in {"POSTED", "REVERSED"}
                      /\ journal'[closing'[y].entry].date = LastPeriod[y]
                      /\ closing'[y].status = "CLOSED" => journal'[closing'[y].entry].status = "POSTED"
    BY DEF ClosingRecordOK
  <2>1. /\ closing'[y].entry = closing[y].entry
        /\ closing'[y].status = "CLOSED" => closing[y].status = "CLOSED"
        /\ op[r] = "reopenYear" => closing'[Year(r)].status = "OPEN"
    <3>1. CASE op[r] = "reverse" /\ UNCHANGED closing
      BY <3>1
    <3>2. CASE op[r] = "reopenYear" /\ closing' = [closing EXCEPT ![Year(r)].status = "OPEN"]
      <4>1. closing[Year(r)] \in ClosingRow /\ closing[y] \in ClosingRow
        BY <1>0 DEF TypeOK
      <4>2. /\ closing'[Year(r)] = [closing[Year(r)] EXCEPT !.status = "OPEN"]
            /\ y # Year(r) => closing'[y] = closing[y]
        BY <1>0, <3>2 DEF TypeOK
      <4> QED BY <4>1, <4>2 DEF ClosingRow
    <3> QED BY <3>1, <3>2
  <2>2. closing[y].entry \in Req \ {r}
    BY <1>0, <2>1 DEF ClosingRecordOK, TypeOK, ClosingRow
  <2>3. ASSUME closing[y].entry = o, closing'[y].status = "CLOSED" PROVE FALSE
    <3>1. y = Year(r)
      BY <1>0, <1>1, <2>1, <2>3, YearEndAssumption DEF ClosingRecordOK, Year
    <3>2. LockedYear(Year(r))
      BY <1>1, <2>1, <2>3, <3>1 DEF LockedYear
    <3>3. op[r] # "reopenYear" => ~LockedYear(Year(r))
      BY <1>0 DEF Own, LocksHeld
    <3> QED BY <2>1, <2>3, <3>1, <3>2, <3>3
  <2> QED
    BY <1>0, <1>4, <1>7, <2>1, <2>2, <2>3 DEF ClosingRecordOK
<1>13. GaplessNumbering'
  <2>1. r \notin Posted /\ Posted' = Posted \cup {r}
    <3>1. \A e \in Req : e \in Posted' <=> e \in Posted \cup {r}
      <4>1. o \in Posted <=> o \in Posted'
        BY <1>1, <1>4 DEF Posted
      <4>2. r \in Posted'
        BY <1>3 DEF Posted
      <4>3. \A e \in Req \ {r, o} : e \in Posted <=> e \in Posted'
        BY <1>2 DEF Posted
      <4> QED BY <4>1, <4>2, <4>3
    <3>2. Posted \subseteq Req /\ Posted' \subseteq Req /\ r \notin Posted
      BY <1>0 DEF Posted
    <3> QED BY <3>1, <3>2
  <2>2. \A f \in Posted : journal'[f].number = journal[f].number /\ journal'[f].date = journal[f].date
    BY <1>7, <2>1 DEF Posted
  <2>3. YearOf[journal'[r].date] = Year(r) /\ journal'[r].number = nextNumber[Year(r)]
    BY <1>0, <1>3 DEF Year
  <2> QED
    BY <1>0, <1>2, <2>1, <2>2, <2>3, AppendGapless
<1> QED
  BY <1>5, <1>6, <1>8, <1>9, <1>10, <1>11, <1>12, <1>13, DoneInv DEF Guarantee

-----------------------------------------------------------------------------
(* Every step, and the invariants. *)

\* Every step that commits.
LEMMA WriteInv ==
  ASSUME Inv, NEW r \in Req, Write(r)
  PROVE  Inv'
<1>1. CASE WritePosted(r)
  <2>1. PICK s \in {"MANUAL", "OPENING"} : CreatePostedEntry(r, s)
    BY <1>1 DEF WritePosted
  <2> QED BY <1>1, <2>1, CreateInv DEF WritePosted, Sources
<1>2. CASE WriteClosing(r)
  BY <1>2, CreateInv DEF WriteClosing, Sources
<1>3. CASE WriteDraftPosted(r)
  BY <1>3, WriteDraftPostedInv
<1>4. CASE WriteReversal(r)
  <2>1. CASE AlreadyReversed(tgt[r])
    BY <1>4, <2>1, FailInv DEF WriteReversal
  <2>2. CASE ~AlreadyReversed(tgt[r])
    BY <1>4, <2>2, ReversalInv DEF WriteReversal
  <2> QED BY <2>1, <2>2
<1>5. CASE WriteReopened(r)
  <2>1. CASE AlreadyReversed(tgt[r])
    BY <1>5, <2>1, FailInv DEF WriteReopened
  <2>2. CASE ~AlreadyReversed(tgt[r])
    BY <1>5, <2>2, ReversalInv DEF WriteReopened
  <2> QED BY <2>1, <2>2
<1>6. CASE UpsertClosed(r) \/ UpdateOpen(r) \/ SetPeriodClosed(r) \/ SetPeriodOpen(r)
  BY <1>6, ClosingWritesInv
<1>7. CASE UpdateAccount(r) \/ TombstoneAccount(r)
  BY <1>7, AccountWritesInv
<1> QED
  BY <1>1, <1>2, <1>3, <1>4, <1>5, <1>6, <1>7 DEF Write

\* The invariant is inductive.
LEMMA NextInv == Inv /\ [Next]_vars => Inv'
<1> SUFFICES ASSUME Inv, [Next]_vars PROVE Inv'
  OBVIOUS
<1>1. ASSUME NEW r \in Req, Move(r) PROVE Inv'
  <2>1. CASE Begin(r)
    BY <2>1, BeginQuietInv, BeginClosePeriodInv, BeginAccountInv, DraftWritesInv
       DEF Begin, BeginUpdateAccount, BeginDeleteAccount
  <2>2. CASE Prepare(r)
    BY <2>2, PrepareInv
  <2>3. CASE Guard(r)
    BY <2>3, GuardInv
  <2>4. CASE Write(r)
    BY <2>4, WriteInv
  <2>5. CASE Abort(r)
    BY <2>5, FailInv DEF Abort, InTransaction
  <2> QED BY <1>1, <2>1, <2>2, <2>3, <2>4, <2>5 DEF Move, Step
<1>2. CASE UNCHANGED vars
  <2>1. TypeOK'
    BY <1>2 DEF Inv, TypeOK, vars, db, ctx
  <2>2. LocksCompatible' /\ ReversedOnce' /\ ClosingRecordOK'
    BY <1>2 DEF Inv, IInv, LocksCompatible, ReversedOnce, ClosingRecordOK, vars, db, ctx
  <2>3. \A r \in Req : (OpAtStep(r) /\ TargetKnown(r) /\ LocksHeld(r) /\ RowOK(r))'
    BY <1>2 DEF Inv, IInv, OpAtStep, TargetKnown, LocksHeld, RowOK, InFlight, Guarded, Stamping, Editing,
       Year, LockedYear, IsDraft, AlreadyReversed, Swapped, vars, db, ctx
  <2>4. GaplessNumbering'
    BY <1>2 DEF Inv, IInv, GaplessNumbering, PostedIn, Posted, vars, db
  <2> QED BY <2>1, <2>2, <2>3, <2>4 DEF Inv, IInv
<1> QED
  BY <1>1, <1>2 DEF Next, Idle, Move

\* The inductive invariant holds in every reachable state.
THEOREM Inductive == Spec => []Inv
BY InitInv, NextInv, PTL DEF Spec

\* Type correctness of every table, context and lock set.
THEOREM TypeCorrect == Spec => []TypeOK
<1>1. Inv => TypeOK
  BY DEF Inv
<1> QED
  BY <1>1, Inductive, PTL

\* nextSequenceNumber and stampPostedInTx: the numbers of a fiscal year's posted
\* entries are 1, 2, ... without a gap or a duplicate, for any number of
\* concurrent requests, any of which may roll back at any statement.
THEOREM Gapless == Spec => []GaplessNumbering
<1>1. Inv => GaplessNumbering
  BY DEF Inv, IInv
<1> QED
  BY <1>1, Inductive, PTL

\* reverseInTx: REVERSED means reversed exactly once, in the same period, line by
\* line.
THEOREM ReversedExactlyOnce == Spec => []ReversalsCancel
<1>1. ASSUME Inv PROVE ReversalsCancel
  <2>0. TypeOK /\ ReversedOnce /\ \A e \in Req : RowOK(e)
    BY <1>1 DEF Inv, IInv
  <2>1. ASSUME NEW q \in Req, journal[q].reversalOf # Null PROVE q \in Posted
    BY <2>0, <2>1 DEF RowOK, Posted, TypeOK, EntryRow
  <2>2. ASSUME NEW e \in Req
        PROVE  journal[e].status = "REVERSED" <=> \E q \in Posted : journal[q].reversalOf = e
    <3>1. e # Null
      BY LedgerAssumption
    <3>2. ASSUME journal[e].status = "REVERSED" PROVE \E q \in Posted : journal[q].reversalOf = e
      BY <2>0, <2>1, <3>1, <3>2 DEF RowOK, AlreadyReversed
    <3>3. ASSUME NEW q \in Posted, journal[q].reversalOf = e PROVE journal[e].status = "REVERSED"
      BY <2>0, <3>1, <3>3 DEF RowOK, Posted
    <3> QED BY <3>2, <3>3
  <2>3. \A q \in Posted :
          journal[q].reversalOf # Null =>
            /\ journal[q].date = journal[journal[q].reversalOf].date
            /\ lines[q] = Swapped(lines[journal[q].reversalOf])
            /\ \A p \in Posted : journal[p].reversalOf = journal[q].reversalOf => p = q
    BY <2>0 DEF RowOK, ReversedOnce, Posted
  <2> QED BY <2>2, <2>3 DEF ReversalsCancel
<1> QED
  BY <1>1, Inductive, PTL

\* YearEndCloseService: a year locked by a closing entry keeps that entry, posted
\* in that year and unreversed.
THEOREM ClosingStands == Spec => []ClosingEntryStands
<1>1. ASSUME Inv PROVE ClosingEntryStands
  BY <1>1, YearEndAssumption DEF Inv, IInv, ClosingRecordOK, ClosingEntryStands, LockedYear
<1> QED
  BY <1>1, Inductive, PTL

-----------------------------------------------------------------------------
(* Action properties. *)

\* Only these steps change the journal or its lines.
LEMMA WhoWrites ==
  ASSUME Inv, NEW r \in Req, Move(r)
  PROVE  \/ UNCHANGED <<journal, lines>>
         \/ CreateDraft(r)
         \/ DeleteDraft(r)
         \/ WritePosted(r)
         \/ WriteClosing(r)
         \/ WriteDraftPosted(r)
         \/ WriteReversal(r) /\ CreateReversal(r)
         \/ WriteReopened(r) /\ CreateReversal(r)
<1>1. Reject(r) \/ Rollback(r) => UNCHANGED <<journal, lines>>
  BY DEF Reject, Rollback, db
<1>2. CASE Begin(r)
  BY <1>1, <1>2 DEF Begin, BeginPost, BeginOpening, BeginPostDraft, BeginReverse,
     BeginClosePeriod, BeginReopenPeriod, BeginCloseYear, BeginReopenYear, BeginUpdateAccount,
     BeginDeleteAccount, BeginAccount, db
<1>3. CASE Prepare(r)
  BY <1>1, <1>3 DEF Prepare, ReadMovements, LoadClosing, FindOpenPeriod, FindClosedYear,
     AssertPostableAccounts, CountLines, db
<1>4. CASE Guard(r)
  BY <1>1, <1>4 DEF Guard, LockDraft, LockYearExclusive, RecheckStatus, LockYearShared,
     RecheckYear, LockPeriodShared, NextNumber, db
<1>5. CASE Write(r)
  <2>1. CASE WriteReversal(r)
    BY <1>1, <2>1 DEF WriteReversal
  <2>2. CASE WriteReopened(r)
    BY <1>1, <2>2 DEF WriteReopened
  <2> QED
    BY <1>1, <1>5, <2>1, <2>2 DEF Write, UpsertClosed, UpdateOpen, SetPeriodClosed, SetPeriodOpen,
       UpdateAccount, TombstoneAccount, SetAccount
<1>6. CASE Abort(r)
  BY <1>1, <1>6 DEF Abort
<1> QED
  BY <1>2, <1>3, <1>4, <1>5, <1>6 DEF Move, Step

\* How each of those steps changes the posted entries: at most one entry is
\* newly posted, by a request about to commit, on the date that it has guarded.
LEMMA WhoPosts ==
  ASSUME Inv, NEW r \in Req, Move(r), NEW e \in Posted' \ Posted
  PROVE  /\ pc[r] = "write"
         /\ journal'[e].date = date[r]
         /\ op[r] = "reopenYear" =>
              /\ journal'[e].reversalOf = tgt[r]
              /\ closing'[Year(r)].status = "OPEN"
<1>0. TypeOK /\ e \in Req
  BY DEF Inv, Posted
<1>1. CASE UNCHANGED <<journal, lines>>
  BY <1>1 DEF Posted
<1>2. CASE CreateDraft(r)
  <2>1. PICK p \in Periods : journal' = [journal EXCEPT ![r] = DraftRow(r, p)]
    BY <1>2 DEF CreateDraft
  <2>2. journal'[r].status = "DRAFT" /\ \A f \in Req \ {r} : journal'[f] = journal[f]
    BY <1>0, <2>1 DEF TypeOK, DraftRow
  <2> QED BY <1>0, <2>2 DEF Posted
<1>3. CASE DeleteDraft(r)
  <2>1. CASE UNCHANGED journal
    BY <2>1 DEF Posted
  <2>2. CASE ~UNCHANGED journal
    <3>1. PICK d \in Req : IsDraft(d) /\ journal' = [journal EXCEPT ![d].deletedAt = "set"]
      BY <1>3, <2>2 DEF DeleteDraft, Reject, db
    <3>2. journal[d] \in EntryRow /\ journal'[d] = [journal[d] EXCEPT !.deletedAt = "set"]
          /\ \A f \in Req \ {d} : journal'[f] = journal[f]
      BY <1>0, <3>1 DEF TypeOK
    <3>3. journal'[d].status = "DRAFT"
      BY <3>1, <3>2 DEF EntryRow, IsDraft
    <3> QED BY <1>0, <3>2, <3>3 DEF Posted
  <2> QED BY <2>1, <2>2
<1>4. CASE WritePosted(r) \/ WriteClosing(r)
  <2>1. PICK s \in Sources : CreatePostedEntry(r, s)
    BY <1>4 DEF WritePosted, WriteClosing, Sources
  <2>2. journal'[r] = PostedRow(r, s, Null) /\ \A f \in Req \ {r} : journal'[f] = journal[f]
    BY <1>0, <2>1 DEF CreatePostedEntry, TypeOK
  <2>3. e = r
    BY <1>0, <2>2 DEF Posted
  <2> QED BY <1>4, <2>2, <2>3 DEF WritePosted, WriteClosing, PostedRow
<1>5. CASE WriteDraftPosted(r)
  <2>0. Own(r) /\ Stamping(r)
    BY <1>5, WriterKnows DEF WriteDraftPosted
  <2>1. PICK d \in Req : d = tgt[r] /\ journal[d].date = date[r] /\ journal[d] \in EntryRow
    BY <1>0, <1>5, <2>0 DEF WriteDraftPosted, Own, TargetKnown, InFlight, TypeOK
  <2>2. /\ journal'[d] = [journal[d] EXCEPT !.status = "POSTED", !.number = num[r],
                                             !.postedBy = UserOf[r]]
        /\ \A f \in Req \ {d} : journal'[f] = journal[f]
    BY <1>0, <1>5, <2>1 DEF WriteDraftPosted, TypeOK
  <2>3. journal'[d].date = date[r]
    BY <2>1, <2>2 DEF EntryRow
  <2>4. e = d
    BY <1>0, <2>2 DEF Posted
  <2> QED BY <1>5, <2>3, <2>4 DEF WriteDraftPosted
<1>6. CASE (WriteReversal(r) \/ WriteReopened(r)) /\ CreateReversal(r)
  <2>0. /\ Own(r) /\ pc[r] = "write" /\ journal[r].status = "none" /\ Year(r) \in Years
        /\ op[r] \in {"reverse", "reopenYear"}
        /\ op[r] = "reopenYear" => WriteReopened(r)
    BY <1>6, WriterKnows DEF WriteReversal, WriteReopened
  <2>1. PICK o \in Req : /\ o = tgt[r] /\ o # r /\ journal[o].status \in {"POSTED", "REVERSED"}
                         /\ journal[o] \in EntryRow
    BY <1>0, <2>0 DEF Own, TargetKnown, InFlight, TypeOK
  <2>2. /\ journal'[r] = PostedRow(r, "REVERSAL", o)
        /\ journal'[o] = [journal[o] EXCEPT !.status = "REVERSED"]
        /\ \A f \in Req \ {r, o} : journal'[f] = journal[f]
    BY <1>0, <1>6, <2>1 DEF CreateReversal, TypeOK
  <2>3. journal'[o].deletedAt = journal[o].deletedAt
    BY <2>1, <2>2 DEF EntryRow
  <2>4. e = r
    BY <1>0, <2>1, <2>2, <2>3 DEF Posted
  <2>5. journal'[r].date = date[r] /\ journal'[r].reversalOf = tgt[r]
    BY <2>1, <2>2 DEF PostedRow
  <2>6. ASSUME op[r] = "reopenYear" PROVE closing'[Year(r)].status = "OPEN"
    <3>1. CreateReversal(r) /\ ~AlreadyReversed(tgt[r])
            => closing' = [closing EXCEPT ![Year(r)].status = "OPEN"]
      BY <2>0, <2>6 DEF WriteReopened
    <3>2. ~AlreadyReversed(tgt[r])
      <4>1. SUFFICES ASSUME AlreadyReversed(tgt[r]) PROVE FALSE
        OBVIOUS
      <4>2. UNCHANGED journal
        BY <2>0, <2>6, <4>1 DEF WriteReopened, Rollback, db
      <4> QED BY <4>2 DEF Posted
    <3>3. closing[Year(r)] \in ClosingRow
      BY <1>0, <2>0 DEF TypeOK
    <3>4. closing'[Year(r)] = [closing[Year(r)] EXCEPT !.status = "OPEN"]
      BY <1>0, <1>6, <2>0, <3>1, <3>2 DEF TypeOK
    <3> QED BY <3>3, <3>4 DEF ClosingRow
  <2> QED BY <2>0, <2>4, <2>5, <2>6
<1> QED
  BY <1>1, <1>2, <1>3, <1>4, <1>5, <1>6, WhoWrites

\* assertPostablePeriodInTx: every step that posts, posts into an OPEN period.
THEOREM OnlyOpenPeriods == Spec => PostsIntoOpenPeriods
<1> DEFINE A == \A e \in NewlyPosted : periodStatus[journal'[e].date] = "OPEN"
<1>1. ASSUME Inv, [Next]_vars PROVE [A]_vars
  <2>1. ASSUME NEW r \in Req, Move(r) PROVE A
    <3> SUFFICES ASSUME NEW e \in NewlyPosted PROVE periodStatus[journal'[e].date] = "OPEN"
      OBVIOUS
    <3>1. pc[r] = "write" /\ journal'[e].date = date[r]
      BY <1>1, <2>1, WhoPosts DEF NewlyPosted
    <3> QED BY <1>1, <3>1 DEF Inv, IInv, LocksHeld
  <2> QED BY <1>1, <2>1 DEF Next, Idle, Move
<1> QED
  BY <1>1, Inductive, PTL DEF Spec, PostsIntoOpenPeriods

\* YearEndCloseService and assertPostablePeriodInTx: a year closed by a closing
\* entry takes no entry but the reversal of a closing entry that reopens it.
THEOREM LockedYearTakesNoEntry == Spec => LockedYearStaysLocked
<1> DEFINE A == \A e \in NewlyPosted : \A y \in Years :
                  LockedYear(y) /\ YearOf[journal'[e].date] = y =>
                    /\ journal'[e].reversalOf # Null
                    /\ journal[journal'[e].reversalOf].source = "CLOSING"
                    /\ closing'[y].status = "OPEN"
<1>1. ASSUME Inv, [Next]_vars PROVE [A]_vars
  <2>1. ASSUME NEW r \in Req, Move(r) PROVE A
    <3> SUFFICES ASSUME NEW e \in NewlyPosted, NEW y \in Years, LockedYear(y),
                        YearOf[journal'[e].date] = y
                 PROVE  /\ journal'[e].reversalOf # Null
                        /\ journal[journal'[e].reversalOf].source = "CLOSING"
                        /\ closing'[y].status = "OPEN"
      OBVIOUS
    <3>1. /\ pc[r] = "write" /\ journal'[e].date = date[r]
          /\ op[r] = "reopenYear" => journal'[e].reversalOf = tgt[r] /\ closing'[Year(r)].status = "OPEN"
      BY <1>1, <2>1, WhoPosts DEF NewlyPosted
    <3>2. y = Year(r) /\ Own(r) /\ Guarded(r) /\ InFlight(r)
      BY <1>1, <3>1, WriterKnows DEF Year
    <3>3. op[r] = "reopenYear"
      BY <3>2 DEF Own, LocksHeld
    <3>4. tgt[r] \in Req /\ journal[tgt[r]].source = "CLOSING"
      BY <3>1, <3>2, <3>3 DEF Own, TargetKnown
    <3> QED BY <3>1, <3>2, <3>3, <3>4, LedgerAssumption
  <2> QED BY <1>1, <2>1 DEF Next, Idle, Move
<1> QED
  BY <1>1, Inductive, PTL DEF Spec, LockedYearStaysLocked

\* No posting service edits a posted row: posted entries keep their lines and
\* every column but the status, which may become REVERSED; a soft-deleted draft
\* is never touched again.
THEOREM PostedForEver == Spec => PostedIsPermanent
<1> DEFINE P(e) ==
      /\ e \in Posted =>
           /\ e \in Posted'
           /\ lines'[e] = lines[e]
           /\ journal'[e] \in {journal[e], [journal[e] EXCEPT !.status = "REVERSED"]}
      /\ journal[e].deletedAt # Null => journal'[e] = journal[e]
<1> DEFINE A == \A e \in Req : P(e)
<1>1. ASSUME Inv, [Next]_vars PROVE [A]_vars
  <2>0. TypeOK /\ \A e \in Req : RowOK(e)
    BY <1>1 DEF Inv, IInv
  <2>s. ASSUME NEW e \in Req, journal'[e] = journal[e], lines'[e] = lines[e] PROVE P(e)
    BY <2>s DEF Posted
  <2>1. ASSUME NEW r \in Req, Move(r), NEW e \in Req PROVE P(e)
    <3>1. CASE UNCHANGED <<journal, lines>>
      BY <2>s, <3>1
    <3>2. CASE CreateDraft(r)
      <4>1. \A f \in Req \ {r} : journal'[f] = journal[f] /\ lines'[f] = lines[f]
        BY <2>0, <3>2 DEF CreateDraft, TypeOK
      <4>2. journal[r] = NoRow
        BY <2>0, <3>2 DEF CreateDraft, Arrives, RowOK
      <4>3. r \notin Posted /\ journal[r].deletedAt = Null
        BY <4>2 DEF Posted, NoRow
      <4> QED BY <2>s, <4>1, <4>3
    <3>3. CASE DeleteDraft(r)
      <4>1. CASE UNCHANGED <<journal, lines>>
        BY <2>s, <4>1
      <4>2. CASE ~UNCHANGED <<journal, lines>>
        <5>1. PICK d \in Req :
                IsDraft(d) /\ journal' = [journal EXCEPT ![d].deletedAt = "set"] /\ UNCHANGED lines
          BY <3>3, <4>2 DEF DeleteDraft, Reject, db
        <5>2. \A f \in Req \ {d} : journal'[f] = journal[f]
          BY <2>0, <5>1 DEF TypeOK
        <5>3. d \notin Posted /\ journal[d].deletedAt = Null
          BY <5>1 DEF Posted, IsDraft
        <5> QED BY <2>s, <5>1, <5>2, <5>3
      <4> QED BY <4>1, <4>2
    <3>4. CASE WritePosted(r) \/ WriteClosing(r)
      <4>1. \A f \in Req \ {r} : journal'[f] = journal[f] /\ lines'[f] = lines[f]
        BY <2>0, <3>4 DEF WritePosted, WriteClosing, CreatePostedEntry, TypeOK
      <4>2. journal[r] = NoRow
        BY <1>1, <3>4, WriterKnows DEF WritePosted, WriteClosing
      <4>3. r \notin Posted /\ journal[r].deletedAt = Null
        BY <4>2 DEF Posted, NoRow
      <4> QED BY <2>s, <4>1, <4>3
    <3>5. CASE WriteDraftPosted(r)
      <4>0. Own(r) /\ Stamping(r)
        BY <1>1, <3>5, WriterKnows DEF WriteDraftPosted
      <4>1. PICK d \in Req : d = tgt[r] /\ IsDraft(d)
        BY <2>0, <3>5, <4>0 DEF WriteDraftPosted, Own, TargetKnown, InFlight, LocksHeld
      <4>2. \A f \in Req \ {d} : journal'[f] = journal[f] /\ lines' = lines
        BY <2>0, <3>5, <4>1 DEF WriteDraftPosted, TypeOK
      <4>3. d \notin Posted /\ journal[d].deletedAt = Null
        BY <4>1 DEF Posted, IsDraft
      <4> QED BY <2>s, <4>2, <4>3
    <3>6. CASE (WriteReversal(r) \/ WriteReopened(r)) /\ CreateReversal(r)
      <4>0. /\ Own(r) /\ pc[r] = "write" /\ journal[r] = NoRow /\ journal[r].status = "none"
            /\ op[r] \in {"reverse", "reopenYear"}
        BY <1>1, <3>6, WriterKnows DEF WriteReversal, WriteReopened
      <4>1. PICK o \in Req : /\ o = tgt[r] /\ o # r /\ journal[o].status \in {"POSTED", "REVERSED"}
                             /\ journal[o] \in EntryRow
        BY <2>0, <4>0 DEF Own, TargetKnown, InFlight, TypeOK
      <4>2. /\ journal'[o] = [journal[o] EXCEPT !.status = "REVERSED"]
            /\ \A f \in Req \ {r, o} : journal'[f] = journal[f]
            /\ \A f \in Req \ {r} : lines'[f] = lines[f]
        BY <2>0, <3>6, <4>1 DEF CreateReversal, TypeOK
      <4>3. journal'[o].deletedAt = journal[o].deletedAt /\ journal'[o].status = "REVERSED"
        BY <4>1, <4>2 DEF EntryRow
      <4>4. r \notin Posted /\ journal[r].deletedAt = Null
        BY <4>0 DEF Posted, NoRow
      <4>5. journal[o].deletedAt = Null
        BY <2>0, <4>1 DEF RowOK
      <4>6. P(o)
        BY <4>1, <4>2, <4>3, <4>5 DEF Posted
      <4> QED BY <2>s, <4>1, <4>2, <4>4, <4>6
    <3> QED
      BY <1>1, <2>1, <3>1, <3>2, <3>3, <3>4, <3>5, <3>6, WhoWrites
  <2> QED BY <1>1, <2>1 DEF Next, Idle, Move
<1> QED
  BY <1>1, Inductive, PTL DEF Spec, PostedIsPermanent
=============================================================================
