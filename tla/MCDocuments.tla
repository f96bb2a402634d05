---------------------------- MODULE MCDocuments -----------------------------
(***************************************************************************)
(* Small instances of one side of the trade: one fiscal year with one       *)
(* period, two documents posted earlier, two drafted payments on them, and  *)
(* four or five requests to come.                                           *)
(***************************************************************************)
EXTENDS Documents, TLC

CONSTANTS i1, i2, p1, p2, r1, r2, r3, r4, alice

MCYearOf == "2026-01" :> 2026
MCUserOf == [r \in Req |-> alice]
MCAccounts == {"cash", "control", "offset", "equity", "vat", "wht"}

\* Input tax of 11% and a withholding of 2%.  The first list of lines carries both,
\* the base of the tax being spread over two lines; the tax of the second rounds
\* to zero.
Code(kind, rate, account) ==
  [kind |-> kind, rate |-> rate, account |-> account, status |-> "active"]
MCTaxCodes ==
  ("PPN" :> Code("PPN_INPUT", 11, "vat")) @@ ("PPH" :> Code("PPH_PAYABLE", 2, "wht"))
Line(price, quantity, codes) ==
  [account |-> "offset", price |-> price, quantity |-> quantity, taxCodes |-> codes]
MCLineLists ==
  {<<Line(300000, 150, <<"PPN">>), Line(454545, 100, <<"PPN", "PPH">>)>>,
   <<Line(40000, 100, <<"PPN">>)>>}

Pay(d, a) == [doc |-> d, amount |-> a]

\* Two payments that together exceed the first document, which both list first;
\* one of them has two allocations to the second document.
InOrder == (p1 :> <<Pay(i1, 1), Pay(i2, 1), Pay(i2, 1)>>) @@ (p2 :> <<Pay(i1, 2)>>)

TwoPosted == <<i1, i2>>
OnePosted == <<i1>>

MCAllocLists == {<<Pay(i1, 1)>>, <<Pay(i1, 1), Pay(i1, 2)>>}

\* Payments posted and voided against the void of their documents.
SettlePlan ==
  (i1 :> {}) @@ (i2 :> {}) @@ (p1 :> {}) @@ (p2 :> {})
    @@ (r1 :> {"postPay"}) @@ (r2 :> {"postPay", "voidDoc"})
    @@ (r3 :> {"voidPay", "voidDoc", "updateDoc"})
    @@ (r4 :> {"deletePay", "voidPay", "createPay", "closePeriod"})

\* A document created, edited, deleted, posted and voided, next to a payment.
OneDraft == p1 :> <<Pay(i1, 1), Pay(i1, 1)>>
DraftPlan ==
  (i1 :> {}) @@ (p1 :> {}) @@ (r1 :> {"createDoc"}) @@ (r2 :> {"postDoc"})
    @@ (r3 :> {"postDoc", "updateDoc", "deleteDoc", "postPay", "changeTaxCode"})
    @@ (r4 :> {"voidDoc", "updateDoc", "reverse", "voidPay", "changePartner"})

\* A payment, with a journal reversal by hand.
ReversePlan ==
  (i1 :> {}) @@ (i2 :> {}) @@ (p1 :> {}) @@ (p2 :> {})
    @@ (r1 :> {"postPay"}) @@ (r2 :> {"reverse"}) @@ (r3 :> {}) @@ (r4 :> {})
=============================================================================
