----------------------------- MODULE Documents ------------------------------
(***************************************************************************)
(* Invoices or bills, and the payments that settle them, posted through the *)
(* two-phase protocol of module Ledger: TaxedDocumentService,               *)
(* DocumentPostingService, PaymentsService and payment-targets.  The two    *)
(* sides of the trade run the same code over a descriptor (Nature) and      *)
(* share nothing but the journal, so one instance models one side.          *)
(*                                                                          *)
(* All documents belong to one partner.  A document or payment is           *)
(* identified by the request that created it.                               *)
(***************************************************************************)
EXTENDS PeriodClose, Tax

CONSTANTS
  Nature,      \* "SALE" or "PURCHASE"
  Control,     \* the account with role AR_CONTROL or AP_CONTROL
  Offset,      \* the revenue or expense account of the document lines
  Cash,
  LineLists,   \* the lists of lines a client may submit
  TaxCodes,    \* the tax codes: their kind, rate, account and status
  Rates,       \* the rates a client may change a tax code to
  AllocLists,  \* the allocation lists a client may submit
  History,     \* requests that posted a document of HistoryAmount, in order
  HistoryAmount,
  Drafted      \* Drafted[r]: the allocations of a payment drafted by r

TaxCodeRow ==
  [kind: {"PPN_OUTPUT", "PPN_INPUT", "PPH_PREPAID", "PPH_PAYABLE"},
   rate: {x \in Nat : ValidRate(x)}, account: Accounts,
   status: {"active", "inactive", "deleted"}]

\* createDraft of a payment refuses an empty list and amounts that are not positive.
Allocs == Seq([doc: Req, amount: Nat \ {0}]) \ {<<>>}

ASSUME DocumentsAssumption ==
  /\ Nature \in {"SALE", "PURCHASE"}
  /\ {Control, Offset, Cash} \subseteq Accounts
  /\ Cardinality({Control, Offset, Cash}) = 3
  /\ LineLists \subseteq Seq([account: Accounts, price: Nat, quantity: Nat,
                              taxCodes: Seq(DOMAIN TaxCodes)])
  /\ TaxCodes \in [DOMAIN TaxCodes -> TaxCodeRow]
  /\ IsFiniteSet(DOMAIN TaxCodes)
  /\ Rates \subseteq Nat
  /\ HistoryAmount \in Nat \ {0}
  /\ AllocLists \subseteq Allocs
  /\ History \in Seq(Req)
  /\ \A i, j \in DOMAIN History : History[i] = History[j] => i = j
  /\ DOMAIN Drafted \subseteq Req
  /\ Drafted \in [DOMAIN Drafted -> Allocs]
  /\ Periods # {}

VARIABLES
  doc,      \* sales_invoices or purchase_bills
  pay,      \* payments with their allocations
  docSeq,   \* document_sequences.next_number, per document type and year
  taxCode,  \* tax_codes
  partner,  \* business_partners: whether the partner may trade
  src,      \* the document or payment a request works on
  calc,     \* the document lines it works with and the totals calculated from them
  pos,      \* the allocation its transaction handles next
  docNum    \* the document number it has drawn

docDb   == <<doc, pay, docSeq, taxCode, partner>>
docCtx  == <<src, calc, pos, docNum>>
docVars == <<docDb, docCtx>>
allVars == <<vars, docVars>>

Types == {"DOC", "PAY"}
Statuses == {"none", "DRAFT", "POSTED", "VOID"}

NoCalc == [lines |-> <<>>, subtotal |-> 0, taxTotal |-> 0,
           withholdingTotal |-> 0, total |-> 0]
NoDoc == [status |-> "none", deletedAt |-> Null, date |-> Null, calc |-> NoCalc,
          paid |-> 0, number |-> 0, entry |-> Null]
NoPay == [status |-> "none", deletedAt |-> Null, date |-> Null,
          alloc |-> <<>>, number |-> 0, entry |-> Null]

\* taxableLines, computeTotals and summarize, with the tax codes as they are now.
ComputeTotals(ls) ==
  [lines |-> ls, subtotal |-> Subtotal(ls), taxTotal |-> TaxTotal(ls, taxCode),
   withholdingTotal |-> WithholdingTotal(ls, taxCode),
   total |-> SettlementAmount(ls, taxCode)]

\* The partner is active and findControlAccountId finds the control account.
Tradable == partner = "active" /\ acct[Control] # "deleted"

\* The journal lines of a document without tax and, buildPaymentLines, of a payment.
Signed(a) == IF Nature = "SALE" THEN a ELSE -a
DocLines(a) == [NoLines EXCEPT ![Control] = Signed(a), ![Offset] = -Signed(a)]
PayLines(a) == [NoLines EXCEPT ![Cash] = Signed(a), ![Control] = -Signed(a)]
DocSource == IF Nature = "SALE" THEN "SALES_INVOICE" ELSE "PURCHASE_BILL"

\* What an allocation list pays on document d.
AllocAmounts(al) == [i \in DOMAIN al |-> al[i].amount]
AllocatedTo(al, d) == SumOver(AllocAmounts(al), {i \in DOMAIN al : al[i].doc = d})

\* Mutant of AllocTotal: the payment amount is that of its first allocation.
FirstAllocOnly(al) == al[1].amount

\* payments.amount: what the list pays in all.
AllocTotal(al) == SumOver(AllocAmounts(al), DOMAIN al)

SomePeriod == CHOOSE p \in Periods : TRUE
Index(s) == CHOOSE i \in DOMAIN History : History[i] = s
InHistory(r) == \E i \in DOMAIN History : History[i] = r

\* Books in which the documents of History are posted and unpaid and the payments
\* of Drafted are drafts; every other request is still to come.
DInit ==
  /\ journal = [e \in Req |->
       IF InHistory(e)
         THEN [NoRow EXCEPT !.status = "POSTED", !.source = DocSource,
                            !.date = SomePeriod, !.number = Index(e),
                            !.createdBy = UserOf[e], !.postedBy = UserOf[e]]
         ELSE NoRow]
  /\ lines = [e \in Req |-> IF InHistory(e) THEN DocLines(HistoryAmount) ELSE NoLines]
  /\ nextNumber = [y \in Years |-> IF y = YearOf[SomePeriod] THEN Len(History) + 1 ELSE 1]
  /\ periodStatus = [p \in Periods |-> "OPEN"]
  /\ closing = [y \in Years |-> [status |-> "none", entry |-> Null]]
  /\ acct = [a \in Accounts |-> "active"]
  /\ pc = [r \in Req |-> IF InHistory(r) \/ r \in DOMAIN Drafted THEN "done" ELSE "start"]
  /\ op = [r \in Req |-> "none"]
  /\ tgt = [r \in Req |-> Null]
  /\ date = [r \in Req |-> Null]
  /\ acctId = [r \in Req |-> Null]
  /\ num = [r \in Req |-> 0]
  /\ buf = [r \in Req |-> NoLines]
  /\ held = [r \in Req |-> {}]
  /\ doc = [d \in Req |->
       IF InHistory(d)
         THEN [status |-> "POSTED", deletedAt |-> Null, date |-> SomePeriod,
               calc |-> [NoCalc EXCEPT !.subtotal = HistoryAmount, !.total = HistoryAmount],
               paid |-> 0, number |-> Index(d), entry |-> d]
         ELSE NoDoc]
  /\ pay = [d \in Req |->
       IF d \in DOMAIN Drafted
         THEN [NoPay EXCEPT !.status = "DRAFT", !.date = SomePeriod, !.alloc = Drafted[d]]
         ELSE NoPay]
  /\ docSeq = [t \in Types |-> [y \in Years |->
       IF t = "DOC" /\ y = YearOf[SomePeriod] THEN Len(History) + 1 ELSE 1]]
  /\ taxCode = TaxCodes
  /\ partner = "active"
  /\ src = [r \in Req |-> Null]
  /\ calc = [r \in Req |-> NoCalc]
  /\ pos = [r \in Req |-> 1]
  /\ docNum = [r \in Req |-> 0]

-----------------------------------------------------------------------------
(* Requests. *)

\* A row the soft-delete filter lets through, in the given status.
Is(row, status) == row.status = status /\ row.deletedAt = Null

\* The request goes on to step l with what it has read.
Begins(r, o, d, e, p, v, a, l) ==
  /\ Carry(r, o, e, p, v)
  /\ src' = [src EXCEPT ![r] = d]
  /\ calc' = [calc EXCEPT ![r] = a]
  /\ Goto(r, l)
  /\ UNCHANGED <<db, held, docDb, pos, docNum>>

Rejected(r) == Reject(r) /\ UNCHANGED docVars
RolledBack(r) == Rollback(r) /\ UNCHANGED docVars

\* An operation of one statement is over.
Finished(r) ==
  Goto(r, "done") /\ UNCHANGED <<db, ctx, held, docSeq, taxCode, partner, docCtx>>

-----------------------------------------------------------------------------
(* Drafts of documents and payments. *)

\* TaxedDocumentService.createDraft
CreateDoc(r) ==
  \E ls \in LineLists, p \in Periods :
    /\ Arrives(r, "createDoc")
    /\ IF Tradable /\ Accepts(Nature, ls, taxCode)
         THEN /\ doc' = [doc EXCEPT ![r] = [NoDoc EXCEPT !.status = "DRAFT", !.date = p,
                                                        !.calc = ComputeTotals(ls)]]
              /\ UNCHANGED pay
              /\ Finished(r)
         ELSE Rejected(r)

\* update: the status is checked on a plain read and the totals are calculated,
\* with the lines submitted or those of the draft ...
BeginUpdateDoc(r) ==
  \E d \in Req, p \in Periods : \E ls \in LineLists \cup {doc[d].calc.lines} :
    /\ Arrives(r, "updateDoc")
    /\ doc[d].status # "none"
    /\ IF Is(doc[d], "DRAFT") /\ acct[Control] # "deleted" /\ Accepts(Nature, ls, taxCode)
         THEN Begins(r, "updateDoc", d, Null, p, NoLines, ComputeTotals(ls), "update")
         ELSE Rejected(r)

\* ... and updateRow replaces lines and totals by id, waiting for the row.
UpdateRow(r) ==
  /\ pc[r] = "update"
  /\ CanLock(r, Exclusive("doc", src[r]))
  /\ IF doc[src[r]].deletedAt = Null
       THEN /\ doc' = [doc EXCEPT ![src[r]] = [@ EXCEPT !.date = date[r], !.calc = calc[r]]]
            /\ UNCHANGED pay
            /\ Finished(r)
       ELSE Rejected(r)

\* softDeleteDraft of a document.
DeleteDoc(r) ==
  \E d \in Req :
    /\ Arrives(r, "deleteDoc")
    /\ doc[d].status # "none"
    /\ CanLock(r, Exclusive("doc", d))
    /\ IF Is(doc[d], "DRAFT")
         THEN /\ doc' = [doc EXCEPT ![d].deletedAt = "set"]
              /\ UNCHANGED pay
              /\ Finished(r)
         ELSE Rejected(r)

\* An allocation list fits what its documents have outstanding.
Allocatable(al) ==
  \A i \in DOMAIN al :
    /\ Is(doc[al[i].doc], "POSTED")
    /\ AllocatedTo(al, al[i].doc) <= doc[al[i].doc].calc.total - doc[al[i].doc].paid

\* PaymentsService.createDraft.  What it reads may be stale when the row is
\* inserted, as it may when the draft is posted later; post checks it again.
CreatePay(r) ==
  \E al \in AllocLists, p \in Periods :
    /\ Arrives(r, "createPay")
    /\ IF partner = "active" /\ acct[Cash] = "active" /\ Allocatable(al)
         THEN /\ pay' = [pay EXCEPT ![r] =
                   [NoPay EXCEPT !.status = "DRAFT", !.date = p, !.alloc = al]]
              /\ UNCHANGED doc
              /\ Finished(r)
         ELSE Rejected(r)

DeletePay(r) ==
  \E d \in Req :
    /\ Arrives(r, "deletePay")
    /\ pay[d].status # "none"
    /\ CanLock(r, Exclusive("pay", d))
    /\ IF Is(pay[d], "DRAFT")
         THEN /\ pay' = [pay EXCEPT ![d].deletedAt = "set"]
              /\ UNCHANGED doc
              /\ Finished(r)
         ELSE Rejected(r)

-----------------------------------------------------------------------------
(* Master data that changes under the documents. *)

\* TaxCodesService.update, deactivate and softDelete: what a code may become.
Amended(c) ==
  {[taxCode[c] EXCEPT !.rate = x] : x \in {y \in Rates : ValidRate(y)}}
    \cup {[taxCode[c] EXCEPT !.status = st] : st \in {"active", "inactive", "deleted"}}

ChangeTaxCode(r) ==
  \E c \in DOMAIN taxCode :
    /\ Arrives(r, "changeTaxCode")
    /\ IF taxCode[c].status # "deleted"
         THEN /\ \E row \in Amended(c) : taxCode' = [taxCode EXCEPT ![c] = row]
              /\ Goto(r, "done")
              /\ UNCHANGED <<db, ctx, held, doc, pay, docSeq, partner, docCtx>>
         ELSE Rejected(r)

\* BusinessPartnersService.update, deactivate and softDelete: a partner that is
\* inactive, deleted or without the role of this side trades no more.
ChangePartner(r) ==
  /\ Arrives(r, "changePartner")
  /\ partner' \in {"active", "inactive"}
  /\ Goto(r, "done")
  /\ UNCHANGED <<db, ctx, held, doc, pay, docSeq, taxCode, docCtx>>

-----------------------------------------------------------------------------
(* Phase one of posting and voiding: reads outside the transaction. *)

\* post: the lines and date that will be posted are those of this read ...
BeginPostDoc(r) ==
  \E d \in Req :
    /\ Arrives(r, "postDoc")
    /\ doc[d].status # "none"
    /\ IF Is(doc[d], "DRAFT") /\ Tradable
         THEN Begins(r, "postDoc", d, Null, doc[d].date, NoLines, doc[d].calc, "calculate")
         ELSE Rejected(r)

\* Mutant of Calculate: the totals of the draft are kept.
CalculateLinesOnly(r) ==
  /\ pc[r] = "calculate"
  /\ LET ls == calc[r].lines IN
       IF Accepts(Nature, ls, taxCode) /\ EveryLineOneSided(ls, taxCode)
         THEN /\ buf' = [buf EXCEPT ![r] =
                   CalculatedLines(Nature, ls, taxCode, Control, Accounts)]
              /\ Goto(r, "findPeriod")
              /\ UNCHANGED <<db, held, op, tgt, date, acctId, num, docVars>>
         ELSE Rejected(r)

\* ... and DocumentPostingService.post calculates them again, with the tax codes as
\* they are by now, before preparePosting checks the result.
Calculate(r) ==
  /\ pc[r] = "calculate"
  /\ LET ls == calc[r].lines IN
       IF Accepts(Nature, ls, taxCode) /\ EveryLineOneSided(ls, taxCode)
         THEN /\ calc' = [calc EXCEPT ![r] = ComputeTotals(ls)]
              /\ buf' = [buf EXCEPT ![r] =
                   CalculatedLines(Nature, ls, taxCode, Control, Accounts)]
              /\ Goto(r, "findPeriod")
              /\ UNCHANGED <<db, held, op, tgt, date, acctId, num, docDb, src, pos, docNum>>
         ELSE Rejected(r)

BeginVoidDoc(r) ==
  \E d \in Req :
    /\ Arrives(r, "voidDoc")
    /\ doc[d].status # "none"
    /\ IF Is(doc[d], "POSTED") /\ doc[d].paid = 0
         THEN Begins(r, "voidDoc", d, doc[d].entry, Null, NoLines, NoCalc, "loadEntry")
         ELSE Rejected(r)

BeginPostPay(r) ==
  \E d \in Req :
    /\ Arrives(r, "postPay")
    /\ pay[d].status # "none"
    /\ IF Is(pay[d], "DRAFT") /\ acct[Control] # "deleted"
         THEN Begins(r, "postPay", d, Null, pay[d].date,
                     PayLines(AllocTotal(pay[d].alloc)), NoCalc, "findPeriod")
         ELSE Rejected(r)

BeginVoidPay(r) ==
  \E d \in Req :
    /\ Arrives(r, "voidPay")
    /\ pay[d].status # "none"
    /\ IF Is(pay[d], "POSTED")
         THEN Begins(r, "voidPay", d, pay[d].entry, Null, NoLines, NoCalc, "loadEntry")
         ELSE Rejected(r)

\* reverseWithGuard: prepareReversal reads the entry of the document.
LoadEntry(r) ==
  /\ pc[r] = "loadEntry"
  /\ LET e == tgt[r] IN
       IF journal[e].status = "POSTED"
         THEN /\ date' = [date EXCEPT ![r] = journal[e].date]
              /\ buf' = [buf EXCEPT ![r] = Swapped(lines[e])]
              /\ Goto(r, "findPeriod")
              /\ UNCHANGED <<db, held, op, tgt, acctId, num, docVars>>
         ELSE Rejected(r)

FirstLock(o) ==
  CASE o \in {"postDoc", "voidDoc"} -> "lockDoc"
    [] o \in {"postPay", "voidPay"} -> "lockPay"
    [] OTHER -> "lockYear"

\* preparePosting looks the accounts up after the year; a reversal does not.
AfterYear(o) == IF o \in {"postDoc", "postPay"} THEN "accounts" ELSE FirstLock(o)

-----------------------------------------------------------------------------
(* Phase two: the transaction. *)

\* Mutants of DocAllows: the draft is not re-checked under the lock; the amount
\* paid is not.
PostAnyStatus(o, row) ==
  CASE o = "postDoc" -> row.deletedAt = Null
    [] o = "voidDoc" -> Is(row, "POSTED") /\ row.paid = 0

VoidUnchecked(o, row) ==
  CASE o = "postDoc" -> Is(row, "DRAFT")
    [] o = "voidDoc" -> Is(row, "POSTED")

\* What the lock of the document finds must still allow the operation:
\* lockDraftInTx for post, lockForVoid with the amount paid for void.
DocAllows(o, row) ==
  CASE o = "postDoc" -> Is(row, "DRAFT")
    [] o = "voidDoc" -> Is(row, "POSTED") /\ row.paid = 0

\* Mutant of LockDoc: the row is locked FOR SHARE first and upgraded.
UpgradeDocLock(r) ==
  /\ pc[r] = "lockDoc"
  /\ IF Share("doc", src[r]) \in held[r]
       THEN /\ Acquire(r, Exclusive("doc", src[r]))
            /\ Goto(r, IF op[r] = "postDoc" THEN "drawDoc" ELSE "lockYear")
       ELSE /\ DocAllows(op[r], doc[src[r]])
            /\ Acquire(r, Share("doc", src[r]))
            /\ UNCHANGED pc
  /\ UNCHANGED <<db, ctx, docVars>>

LockDoc(r) ==
  /\ pc[r] = "lockDoc"
  /\ CanLock(r, Exclusive("doc", src[r]))
  /\ IF DocAllows(op[r], doc[src[r]])
       THEN /\ Acquire(r, Exclusive("doc", src[r]))
            /\ Goto(r, IF op[r] = "postDoc" THEN "drawDoc" ELSE "lockYear")
            /\ UNCHANGED <<db, ctx, docVars>>
       ELSE RolledBack(r)

LockPay(r) ==
  /\ pc[r] = "lockPay"
  /\ CanLock(r, Exclusive("pay", src[r]))
  /\ IF Is(pay[src[r]], IF op[r] = "postPay" THEN "DRAFT" ELSE "POSTED")
       THEN /\ Acquire(r, Exclusive("pay", src[r]))
            /\ Goto(r, IF op[r] = "postPay" THEN "settle" ELSE "unwind")
            /\ UNCHANGED <<db, ctx, docVars>>
       ELSE RolledBack(r)

Alloc(r) == pay[src[r]].alloc

\* The amount that the transaction has already moved on the document of its
\* current allocation, which nobody else sees before the commit.
MovedHere(r) == AllocatedTo(SubSeq(Alloc(r), 1, pos[r] - 1), Alloc(r)[pos[r]].doc)

\* Mutant of NextAlloc: the last allocation is handled again and again.
StuckAtLast(r, l) ==
  /\ Acquire(r, Exclusive("doc", Alloc(r)[pos[r]].doc))
  /\ IF pos[r] = Len(Alloc(r))
       THEN UNCHANGED <<pos, pc>>
       ELSE pos' = [pos EXCEPT ![r] = @ + 1] /\ UNCHANGED pc
  /\ UNCHANGED <<db, ctx, docDb, src, calc, docNum>>

\* The loop over the allocations goes on to the next one, or to step l.
NextAlloc(r, l) ==
  /\ Acquire(r, Exclusive("doc", Alloc(r)[pos[r]].doc))
  /\ pos' = [pos EXCEPT ![r] = @ + 1]
  /\ Goto(r, IF pos[r] = Len(Alloc(r)) THEN l ELSE pc[r])
  /\ UNCHANGED <<db, ctx, docDb, src, calc, docNum>>

\* Mutant of Settle: the outstanding checked when the draft was made is trusted.
SettleUnchecked(r) ==
  /\ pc[r] = "settle"
  /\ LET a == Alloc(r)[pos[r]]
     IN /\ CanLock(r, Exclusive("doc", a.doc))
        /\ IF Is(doc[a.doc], "POSTED")
             THEN NextAlloc(r, "drawDoc")
             ELSE RolledBack(r)

\* settleInTx: the document FOR UPDATE, still POSTED, with enough outstanding.
Settle(r) ==
  /\ pc[r] = "settle"
  /\ LET a == Alloc(r)[pos[r]]
         d == doc[a.doc]
     IN /\ CanLock(r, Exclusive("doc", a.doc))
        /\ IF Is(d, "POSTED") /\ d.paid + MovedHere(r) + a.amount <= d.calc.total
             THEN NextAlloc(r, "drawDoc")
             ELSE RolledBack(r)

\* unwindInTx: the document FOR UPDATE, with that much paid.
Unwind(r) ==
  /\ pc[r] = "unwind"
  /\ LET a == Alloc(r)[pos[r]]
         d == doc[a.doc]
     IN /\ CanLock(r, Exclusive("doc", a.doc))
        /\ IF d.deletedAt = Null /\ d.paid - MovedHere(r) - a.amount >= 0
             THEN NextAlloc(r, "lockYear")
             ELSE RolledBack(r)

TypeOf(r) == IF op[r] = "postDoc" THEN "DOC" ELSE "PAY"

\* DocumentNumberService.next, before the journal number is drawn.
DrawDoc(r) ==
  /\ pc[r] = "drawDoc"
  /\ Acquire(r, Exclusive("docSeq", <<TypeOf(r), Year(r)>>))
  /\ docNum' = [docNum EXCEPT ![r] = docSeq[TypeOf(r)][Year(r)]]
  /\ Goto(r, "lockYear")
  /\ UNCHANGED <<db, ctx, docDb, src, calc, pos>>

\* Mutant of IncrementDoc: the counter row is reset.
ResetCounter(r) == docSeq' = [docSeq EXCEPT ![TypeOf(r)][Year(r)] = 0]

IncrementDoc(r) ==
  docSeq' = [docSeq EXCEPT ![TypeOf(r)][Year(r)] = docNum[r] + 1]

\* createPostedEntryInTx and finalizePosted, which stores the totals as posted; the
\* lines are those the row has by now.
WriteDocPosted(r) ==
  /\ pc[r] = "write"
  /\ op[r] = "postDoc"
  /\ CreatePostedEntry(r, DocSource)
  /\ doc' = [doc EXCEPT ![src[r]] =
       [@ EXCEPT !.status = "POSTED", !.calc = [calc[r] EXCEPT !.lines = doc[src[r]].calc.lines],
                 !.number = docNum[r], !.entry = r]]
  /\ IncrementDoc(r)
  /\ Commit(r)
  /\ UNCHANGED <<periodStatus, closing, acct, ctx, pay, taxCode, partner, docCtx>>

\* createPostedEntryInTx, applyPaid of every allocation, and the payment.
WritePayPosted(r) ==
  /\ pc[r] = "write"
  /\ op[r] = "postPay"
  /\ CreatePostedEntry(r, "PAYMENT")
  /\ doc' = [d \in Req |-> [doc[d] EXCEPT !.paid = @ + AllocatedTo(Alloc(r), d)]]
  /\ pay' = [pay EXCEPT ![src[r]] =
       [@ EXCEPT !.status = "POSTED", !.number = docNum[r], !.entry = r]]
  /\ IncrementDoc(r)
  /\ Commit(r)
  /\ UNCHANGED <<periodStatus, closing, acct, ctx, taxCode, partner, docCtx>>

\* markVoid and reverseInTx; the unique index on reversal_of_id may refuse.
WriteDocVoid(r) ==
  /\ pc[r] = "write"
  /\ op[r] = "voidDoc"
  /\ IF AlreadyReversed(tgt[r])
       THEN RolledBack(r)
       ELSE /\ CreateReversal(r)
            /\ doc' = [doc EXCEPT ![src[r]].status = "VOID"]
            /\ Commit(r)
            /\ UNCHANGED <<periodStatus, closing, acct, ctx, pay, docSeq, taxCode, partner, docCtx>>

\* Mutant of WritePayVoid: the allocations are not unwound.
VoidKeepsPaid(r) ==
  /\ pc[r] = "write"
  /\ op[r] = "voidPay"
  /\ IF AlreadyReversed(tgt[r])
       THEN RolledBack(r)
       ELSE /\ CreateReversal(r)
            /\ pay' = [pay EXCEPT ![src[r]].status = "VOID"]
            /\ Commit(r)
            /\ UNCHANGED <<periodStatus, closing, acct, ctx, doc, docSeq, taxCode, partner, docCtx>>

\* applyInTx of a payment's void, with reverseInTx.
WritePayVoid(r) ==
  /\ pc[r] = "write"
  /\ op[r] = "voidPay"
  /\ IF AlreadyReversed(tgt[r])
       THEN RolledBack(r)
       ELSE /\ CreateReversal(r)
            /\ doc' = [d \in Req |-> [doc[d] EXCEPT !.paid = @ - AllocatedTo(Alloc(r), d)]]
            /\ pay' = [pay EXCEPT ![src[r]].status = "VOID"]
            /\ Commit(r)
            /\ UNCHANGED <<periodStatus, closing, acct, ctx, docSeq, taxCode, partner, docCtx>>

-----------------------------------------------------------------------------
(* The side of the trade and the part of the ledger it runs over. *)

\* The steps of module Ledger, and a journal reversal or a period close by
\* somebody else; none of them touches a document.
LedgerStep(r) ==
  /\ \/ FindOpenPeriod(r, "findClosed") \/ FindClosedYear(r, AfterYear(op[r]))
     \/ AssertPostableAccounts(r, buf[r], FirstLock(op[r]))
     \/ LockYearShared(r) \/ RecheckYear(r) \/ LockPeriodShared(r) \/ NextNumber(r)
     \/ WriteReversal(r) \/ SetPeriodClosed(r)
  /\ UNCHANGED docVars

DBegin(r) ==
  \/ CreateDoc(r)    \/ DeleteDoc(r)    \/ BeginUpdateDoc(r)
  \/ CreatePay(r)    \/ DeletePay(r)
  \/ BeginPostDoc(r) \/ BeginVoidDoc(r) \/ BeginPostPay(r) \/ BeginVoidPay(r)
  \/ ChangeTaxCode(r) \/ ChangePartner(r)
  \/ (BeginReverse(r) \/ BeginClosePeriod(r)) /\ UNCHANGED docVars

DocStep(r) ==
  \/ UpdateRow(r) \/ LoadEntry(r) \/ Calculate(r)
  \/ LockDoc(r)   \/ LockPay(r)  \/ Settle(r) \/ Unwind(r) \/ DrawDoc(r)
  \/ WriteDocPosted(r) \/ WritePayPosted(r) \/ WriteDocVoid(r) \/ WritePayVoid(r)

DInTransaction(r) ==
  pc[r] \in {"lockDoc", "lockPay", "settle", "unwind", "drawDoc", "lockYear",
             "recheckYear", "lockPeriod", "draw", "write", "setClosed"}

\* Any transaction may be ended from outside.
DAbort(r) == DInTransaction(r) /\ RolledBack(r)

DInFlight(r) == pc[r] \notin {"start", "done", "failed"}
DIdle == (\A r \in Req : ~DInFlight(r)) /\ UNCHANGED allVars

DNext == (\E r \in Req : DBegin(r) \/ LedgerStep(r) \/ DocStep(r) \/ DAbort(r)) \/ DIdle

DSpec == DInit /\ [][DNext]_allVars

\* As in module GeneralLedger: a request in flight is driven until it ends.
DFairSpec == DSpec /\ \A r \in Req : WF_allVars(LedgerStep(r) \/ DocStep(r))

-----------------------------------------------------------------------------
(* Invariants. *)

DLocks == Locks \cup ({"doc", "pay"} \X Req \X {"X"})
            \cup ({"docSeq"} \X (Types \X Years) \X {"X"})

\* The type of every variable of this module; GeneralLedger has the others.
DTypeOK ==
  /\ \A r \in Req : /\ DOMAIN doc[r] = DOMAIN NoDoc
                    /\ doc[r].status \in Statuses
                    /\ doc[r].deletedAt \in {Null, "set"}
                    /\ doc[r].calc.total \in Nat
                    /\ doc[r].paid \in Int
                    /\ doc[r].number \in Nat
                    /\ doc[r].entry \in Req \cup {Null}
                    /\ DOMAIN pay[r] = DOMAIN NoPay
                    /\ pay[r].status \in Statuses
                    /\ pay[r].deletedAt \in {Null, "set"}
                    /\ pay[r].number \in Nat
                    /\ pay[r].entry \in Req \cup {Null}
  /\ docSeq \in [Types -> [Years -> Nat \ {0}]]
  /\ src \in [Req -> Req \cup {Null}]
  /\ \A r \in Req : DOMAIN calc[r] = DOMAIN NoCalc
  /\ \A c \in DOMAIN taxCode : taxCode[c].status \in {"active", "inactive", "deleted"}
  /\ partner \in {"active", "inactive"}
  /\ pos \in [Req -> Nat \ {0}]
  /\ docNum \in [Req -> Nat]
  /\ held \in [Req -> SUBSET DLocks]

PostedDocs == {d \in Req : doc[d].status = "POSTED"}
PostedPays == {p \in Req : pay[p].status = "POSTED"}

\* settleInTx and unwindInTx: amount_paid of every document is what the posted
\* payments allocate to it, no more and no less, however payments are posted and
\* voided concurrently and wherever their transactions are cut off.
PaidIsAllocated ==
  \A d \in Req :
    doc[d].paid = SumOver([p \in PostedPays |-> AllocatedTo(pay[p].alloc, d)], PostedPays)

\* The void of a document and the posting of a payment on it exclude each other:
\* every document that a posted payment settles is itself still posted.
SettledDocumentsStand ==
  \A p \in PostedPays : \A i \in DOMAIN pay[p].alloc :
    pay[p].alloc[i].doc \in PostedDocs

\* The over-allocation guard (exceedsOutstanding under the row lock): no document
\* is paid more than its total, by any number of concurrent payments.
NeverOverpaid == \A d \in Req : doc[d].paid \in 0 .. doc[d].calc.total

\* Document numbers (DocumentNumberService): per type and fiscal year they are
\* gapless and unique, voided documents included.
Numbered(f, y) == {d \in Req : f[d].entry # Null /\ YearOf[journal[f[d].entry].date] = y}
GaplessIn(f, t) ==
  \A y \in Years :
    /\ {f[d].number : d \in Numbered(f, y)} = 1 .. (docSeq[t][y] - 1)
    /\ Cardinality(Numbered(f, y)) = docSeq[t][y] - 1
DocumentNumbersGapless == GaplessIn(doc, "DOC") /\ GaplessIn(pay, "PAY")

\* AgingService.aging: what posted payments have settled, summed from their
\* allocations and not from amount_paid.
PaidAsOf(d) ==
  SumOver([p \in Req |-> AllocatedTo(pay[p].alloc, d)], {p \in Req : Is(pay[p], "POSTED")})

\* The documents it lists, and the total outstanding over its buckets.
OpenItems == {d \in Req : Is(doc[d], "POSTED") /\ doc[d].calc.total > PaidAsOf(d)}
TotalOutstanding ==
  SumOver([d \in OpenItems |-> doc[d].calc.total - PaidAsOf(d)], OpenItems)

\* docs/runbooks/architecture.md: "the subledger <-> control-account balance stays
\* reconciled": the balance of the control account is what the posted documents
\* have outstanding, and also what the aging report shows, which leaves settled
\* documents out and adds allocations up by itself.
ControlReconciles ==
  LET control == SumOver([e \in Posted |-> lines[e][Control]], Posted)
      outstanding == [d \in PostedDocs |-> doc[d].calc.total - doc[d].paid]
  IN
    /\ control = Signed(SumOver(outstanding, PostedDocs))
    /\ control = Signed(TotalOutstanding)

\* The lock a request is about to ask for.
DWantedLocks(r) ==
  CASE pc[r] \in {"lockDoc", "update"}   -> {Exclusive("doc", src[r])}
    [] pc[r] = "lockPay"                 -> {Exclusive("pay", src[r])}
    [] pc[r] \in {"settle", "unwind"}    -> {Exclusive("doc", Alloc(r)[pos[r]].doc)}
    [] pc[r] = "drawDoc"                 -> {Exclusive("docSeq", <<TypeOf(r), Year(r)>>)}
    [] pc[r] = "lockYear"                -> {Share("year", Year(r))}
    [] pc[r] = "lockPeriod"              -> {Share("period", date[r])}
    [] pc[r] = "draw"                    -> {Exclusive("seq", Year(r))}
    [] OTHER                             -> {}

DWaitsFor(r, q) ==
  q # r /\ \E l \in DWantedLocks(r), k \in held[q] : Conflict(k, l)

\* PaymentsService.post: a concurrent post is given "room to wait out the winner
\* and reach its clean 409": as long as allocation lists name documents in one order,
\* which post does not see to, requests never wait for each other in a circle, which
\* PostgreSQL would break by failing one of them.
PaymentsWaitInOrder ==
  ~ \E S \in (SUBSET {r \in Req : DInFlight(r)}) \ {{}} :
      \A r \in S : \E q \in S : DWaitsFor(r, q)

\* docs/superpowers/specs/2026-06-17-financial-correctness-cleanup-design.md:
\* "posted documents are immutable": once posted, neither the content nor the
\* amounts of a document change, except for what is paid.
PostedDocumentsImmutable ==
  [][\A d \in PostedDocs :
       /\ doc'[d].calc = doc[d].calc
       /\ doc'[d].number = doc[d].number
       /\ doc'[d].date = doc[d].date]_allVars

\* finalizePosted: the totals that a document shows once it is posted are those of
\* its journal entry, whatever happened to the tax codes and to the draft since it
\* was drafted and since it was read.
PostedAsEntered ==
  [][\A d \in Req :
       (doc[d].status = "DRAFT" /\ doc'[d].status = "POSTED") =>
         LET c == doc'[d].calc
             v == lines'[doc'[d].entry]
         IN /\ v[Control] = Signed(c.total)
            /\ v[Offset] = -Signed(c.subtotal)
            /\ Total(v, {TaxCodes[k].account : k \in DOMAIN TaxCodes})
                 = -Signed(c.taxTotal - c.withholdingTotal)]_allVars

\* Every request on documents and payments commits or fails, with no help from
\* timeouts, when allocations are listed in one order.
DocumentRequestsEnd ==
  \A r \in Req : DInFlight(r) ~> pc[r] \in {"done", "failed"}
=============================================================================
