-------------------------- MODULE Documents_proofs --------------------------
(***************************************************************************)
(* Theorems about documents and payments, for any number of requests,       *)
(* documents, payments, accounts and tax codes.                             *)
(***************************************************************************)
EXTENDS Documents, Sums_proofs, SequenceTheorems

-----------------------------------------------------------------------------
(* Types. *)

Calcs == [lines: LineLists \cup {<<>>}, subtotal: Int, taxTotal: Int,
          withholdingTotal: Int, total: Nat]
DocRow == [status: Statuses, deletedAt: {Null, "set"}, date: Periods \cup {Null},
           calc: Calcs, paid: Int, number: Nat, entry: Req \cup {Null}]
PayRow == [status: Statuses, deletedAt: {Null, "set"}, date: Periods \cup {Null},
           alloc: Allocs \cup {<<>>}, number: Nat, entry: Req \cup {Null}]

Before == {"start", "update", "calculate", "loadEntry", "findPeriod", "findClosed",
           "accounts", "lockDoc", "lockPay"}
Inside == {"drawDoc", "lockYear", "recheckYear", "lockPeriod", "draw", "write"}
DLabels == Before \cup Inside \cup {"settle", "unwind", "setClosed", "done", "failed"}
DocOps == {"postDoc", "voidDoc"}
PayOps == {"postPay", "voidPay"}
PostOps == DocOps \cup PayOps \cup {"reverse"}

\* The types of everything that documents and payments share with the journal.
DTypes ==
  /\ journal \in [Req -> EntryRow]
  /\ lines \in [Req -> Lines]
  /\ nextNumber \in [Years -> Nat]
  /\ pc \in [Req -> DLabels]
  /\ op \in [Req -> PostOps \cup {"none", "updateDoc", "closePeriod"}]
  /\ tgt \in [Req -> Req \cup {Null}]
  /\ date \in [Req -> Periods \cup {Null}]
  /\ num \in [Req -> Nat]
  /\ buf \in [Req -> Lines]
  /\ held \in [Req -> SUBSET DLocks]
  /\ doc \in [Req -> DocRow]
  /\ pay \in [Req -> PayRow]
  /\ docSeq \in [Types -> [Years -> Nat \ {0}]]
  /\ taxCode \in [DOMAIN TaxCodes -> TaxCodeRow]
  /\ partner \in {"active", "inactive"}
  /\ src \in [Req -> Req \cup {Null}]
  /\ calc \in [Req -> Calcs]
  /\ pos \in [Req -> Nat \ {0}]
  /\ docNum \in [Req -> Nat]

-----------------------------------------------------------------------------
(* The inductive invariant. *)

\* What was never written is empty: every row carries the name of the request that
\* creates it with its last step.
Fresh(r) ==
  pc[r] # "done" =>
    journal[r].status = "none" /\ doc[r].status = "none" /\ pay[r].status = "none"

\* The rows of the journal, the documents and the payments.
RowOK(d) ==
  /\ journal[d].status # "none" => journal[d].date \in Periods
  /\ doc[d].status # "none" => doc[d].date \in Periods
  /\ pay[d].status # "none" => pay[d].date \in Periods /\ pay[d].alloc \in Allocs
  /\ doc[d].status \in {"none", "DRAFT"} <=> doc[d].entry = Null
  /\ pay[d].status \in {"none", "DRAFT"} <=> pay[d].entry = Null
  /\ doc[d].entry # Null => journal[doc[d].entry].status # "none" /\ doc[d].deletedAt = Null
  /\ pay[d].entry # Null => journal[pay[d].entry].status # "none" /\ pay[d].deletedAt = Null

\* The operations a request may be running at each of its steps; the loop over the
\* allocations begins in the transaction.
OpFits(r) ==
  /\ pc[r] \in Before => pos[r] = 1
  /\ pc[r] = "update" => op[r] = "updateDoc"
  /\ pc[r] = "calculate" => op[r] = "postDoc"
  /\ pc[r] = "loadEntry" => op[r] \in {"voidDoc", "voidPay"}
  /\ pc[r] \in {"accounts", "drawDoc"} => op[r] \in {"postDoc", "postPay"}
  /\ pc[r] = "lockDoc" => op[r] \in DocOps
  /\ pc[r] = "lockPay" => op[r] \in PayOps
  /\ pc[r] = "settle" => op[r] = "postPay"
  /\ pc[r] = "unwind" => op[r] = "voidPay"
  /\ pc[r] \in {"findPeriod", "findClosed"} \cup (Inside \ {"drawDoc"}) => op[r] \in PostOps
  /\ pc[r] = "setClosed" => op[r] = "closePeriod"

\* What a request knows of the rows it has read, without any lock.
Knows(r) ==
  DInFlight(r) =>
    /\ pc[r] # "loadEntry" => date[r] \in Periods
    /\ op[r] \in DocOps \cup {"updateDoc"} => src[r] \in Req /\ doc[src[r]].status # "none"
    /\ op[r] \in PayOps => src[r] \in Req /\ pay[src[r]].status # "none"
    /\ op[r] = "voidDoc" => doc[src[r]].entry # Null /\ tgt[r] = doc[src[r]].entry
    /\ op[r] = "voidPay" => pay[src[r]].entry # Null /\ tgt[r] = pay[src[r]].entry
    /\ op[r] \in {"voidDoc", "voidPay", "reverse"} =>
         /\ tgt[r] \in Req /\ journal[tgt[r]].status # "none"
         /\ pc[r] # "loadEntry" => buf[r] = Swapped(lines[tgt[r]])
    /\ op[r] = "postPay" => buf[r] = PayLines(AllocTotal(Alloc(r)))

\* A transaction on a document holds it and has found it fit for the operation.
HoldsDoc(r) ==
  op[r] \in DocOps /\ pc[r] \in Inside =>
    Exclusive("doc", src[r]) \in held[r] /\ DocAllows(op[r], doc[src[r]])

\* A transaction on a payment holds it, and the documents of the allocations it is
\* done with; if it posts the payment, it has found enough outstanding on each of
\* them for all that these allocations add to it.
HoldsPay(r) ==
  op[r] \in PayOps /\ pc[r] \in Inside \cup {"settle", "unwind"} =>
    /\ Exclusive("pay", src[r]) \in held[r]
    /\ Is(pay[src[r]], IF op[r] = "postPay" THEN "DRAFT" ELSE "POSTED")
    /\ pc[r] \in {"settle", "unwind"} => pos[r] <= Len(Alloc(r))
    /\ pc[r] \in Inside => pos[r] = Len(Alloc(r)) + 1
    /\ \A i \in 1 .. (pos[r] - 1) :
         /\ Exclusive("doc", Alloc(r)[i].doc) \in held[r]
         /\ op[r] = "postPay" =>
              LET d == Alloc(r)[i].doc IN
              /\ doc[d].status = "POSTED"
              /\ doc[d].paid + AllocatedTo(SubSeq(Alloc(r), 1, pos[r] - 1), d) <= doc[d].calc.total

\* A transaction that has drawn a document number holds the counter, which still
\* shows that number.
HoldsSeq(r) ==
  op[r] \in {"postDoc", "postPay"} /\ pc[r] \in Inside \ {"drawDoc"} =>
    /\ Exclusive("docSeq", <<TypeOf(r), Year(r)>>) \in held[r]
    /\ docNum[r] = docSeq[TypeOf(r)][Year(r)]

Own(r) == OpFits(r) /\ Knows(r) /\ HoldsDoc(r) /\ HoldsPay(r) /\ HoldsSeq(r)

DInv ==
  /\ DTypes
  /\ LocksCompatible
  /\ \A r \in Req : Fresh(r) /\ RowOK(r) /\ Own(r)

-----------------------------------------------------------------------------
(* What the calculation returns. *)

\* Money.multiply and roundToRupiah return amounts.
LEMMA MoneyTypes ==
  ASSUME NEW v \in Nat, NEW h \in Nat
  PROVE  Multiply(v, h) \in Nat /\ RoundToRupiah(v) \in Nat
<1>1. v * h \in Nat
  OBVIOUS
<1> DEFINE n == v * h
<1>2. ASSUME NEW m \in Nat
      PROVE  (2 * m + 100) \div (2 * 100) \in Nat /\ (2 * m + 10000) \div (2 * 10000) \in Nat
  OBVIOUS
<1>3. Multiply(v, h) \in Nat
  <2> HIDE DEF n
  <2>1. (2 * n + 100) \div (2 * 100) \in Nat
    BY <1>1, <1>2 DEF n
  <2> QED BY <2>1 DEF n, Multiply, HalfUp
<1>4. RoundToRupiah(v) \in Nat
  <2>1. PICK k \in Nat : k = (2 * v + 10000) \div (2 * 10000)
    BY <1>2
  <2>2. RoundToRupiah(v) = 10000 * k
    BY <2>1 DEF RoundToRupiah, HalfUp
  <2> QED BY <2>2
<1> QED BY <1>3, <1>4

\* The lines of a document, their amounts and their codes.
LEMMA LineTypes ==
  ASSUME NEW ls \in LineLists \cup {<<>>}
  PROVE  /\ IsFiniteSet(DOMAIN ls) /\ IsFiniteSet(CodesIn(ls))
         /\ CodesIn(ls) \subseteq DOMAIN TaxCodes
         /\ \A i \in DOMAIN ls : Amounts(ls)[i] \in Nat /\ ls[i].account \in Accounts
<1> DEFINE Ln == [account: Accounts, price: Nat, quantity: Nat, taxCodes: Seq(DOMAIN TaxCodes)]
<1>1. ls \in Seq(Ln)
  BY DocumentsAssumption, EmptySeq
<1>2. DOMAIN ls = 1 .. Len(ls) /\ Len(ls) \in Nat
  BY <1>1, LenProperties
<1>3. \A i \in DOMAIN ls : ls[i] \in Ln
  BY <1>1, <1>2, ElementOfSeq
<1>4. IsFiniteSet(DOMAIN ls)
  BY <1>2, FS_Interval
<1>5. CodesIn(ls) \subseteq DOMAIN TaxCodes
  <2>1. ASSUME NEW i \in DOMAIN ls PROVE CodesOf(ls[i]) \subseteq DOMAIN TaxCodes
    <3>1. ls[i].taxCodes \in Seq(DOMAIN TaxCodes)
      BY <1>3
    <3> QED BY <3>1, ElementOfSeq, LenProperties DEF CodesOf
  <2> QED BY <2>1 DEF CodesIn
<1>6. IsFiniteSet(CodesIn(ls))
  BY <1>5, DocumentsAssumption, FS_Subset
<1>7. \A i \in DOMAIN ls : Amounts(ls)[i] \in Nat
  BY <1>3, MoneyTypes DEF Amounts, Amount
<1> QED BY <1>3, <1>4, <1>5, <1>6, <1>7

\* The tax of each code is an amount.
LEMMA TaxesTypes ==
  ASSUME NEW ls \in LineLists \cup {<<>>}, NEW table \in [DOMAIN TaxCodes -> TaxCodeRow]
  PROVE  \A c \in CodesIn(ls) : Taxes(ls, table)[c] \in Nat
<1> SUFFICES ASSUME NEW c \in CodesIn(ls) PROVE TaxAmount(ls, c, table) \in Nat
  BY DEF Taxes
<1> DEFINE S == {i \in DOMAIN ls : c \in CodesOf(ls[i])}
<1>1. IsFiniteSet(S) /\ \A i \in S : Amounts(ls)[i] \in Nat
  BY LineTypes, FS_Subset
<1>2. Base(ls, c) \in Nat
  BY <1>1, SumNat DEF Base
<1>3. table[c].rate \in Nat
  BY LineTypes DEF TaxCodeRow
<1> QED BY <1>2, <1>3, MoneyTypes DEF TaxAmount

\* A sum of the taxes of some of the codes.
LEMMA TaxSum ==
  ASSUME NEW ls \in LineLists \cup {<<>>}, NEW table \in [DOMAIN TaxCodes -> TaxCodeRow],
         NEW S \in SUBSET CodesIn(ls)
  PROVE  SumOver(Taxes(ls, table), S) \in Nat
<1>1. IsFiniteSet(S) /\ \A c \in S : Taxes(ls, table)[c] \in Nat
  BY LineTypes, TaxesTypes, FS_Subset
<1> QED BY <1>1, SumNat

LEMMA TotalTypes ==
  ASSUME NEW ls \in LineLists \cup {<<>>}, NEW table \in [DOMAIN TaxCodes -> TaxCodeRow]
  PROVE  /\ Subtotal(ls) \in Nat
         /\ TaxTotal(ls, table) \in Nat
         /\ WithholdingTotal(ls, table) \in Nat
         /\ SettlementAmount(ls, table) \in Int
<1>1. Subtotal(ls) \in Nat
  BY LineTypes, SumNat DEF Subtotal
<1>2. TaxTotal(ls, table) \in Nat
  BY TaxSum DEF TaxTotal, TaxOfKinds
<1>3. WithholdingTotal(ls, table) \in Nat
  BY TaxSum DEF WithholdingTotal, TaxOfKinds
<1> QED BY <1>1, <1>2, <1>3 DEF SettlementAmount

\* TaxService.calculate returns an amount for every account.
LEMMA CalculatedType ==
  ASSUME NEW ls \in LineLists \cup {<<>>}, NEW table \in [DOMAIN TaxCodes -> TaxCodeRow]
  PROVE  CalculatedLines(Nature, ls, table, Control, Accounts) \in Lines
<1> DEFINE base(a) == SumOver(Amounts(ls), {i \in DOMAIN ls : ls[i].account = a})
           tax(a, normal) ==
             SumOver(Taxes(ls, table),
                     {c \in CodesIn(ls) : /\ table[c].account = a
                                          /\ RequiredNormalBalance(table[c].kind) = normal})
           side == IF Nature = "SALE" THEN -1 ELSE 1
           s == SettlementAmount(ls, table)
<1>1. ASSUME NEW a PROVE base(a) \in Int
  <2>1. IsFiniteSet({i \in DOMAIN ls : ls[i].account = a})
        /\ \A i \in {j \in DOMAIN ls : ls[j].account = a} : Amounts(ls)[i] \in Int
    BY LineTypes, FS_Subset
  <2> QED BY <2>1, SumType
<1>2. ASSUME NEW a, NEW n PROVE tax(a, n) \in Int
  BY TaxSum
<1>3. s \in Int /\ side \in {1, -1}
  BY TotalTypes
<1>4. CalculatedLines(Nature, ls, table, Control, Accounts)
        = [a \in Accounts |-> side * base(a) + tax(a, "DEBIT") - tax(a, "CREDIT")
                                - (IF a = Control THEN side * s ELSE 0)]
  BY DEF CalculatedLines
<1> HIDE DEF base, tax, side, s
<1>5. ASSUME NEW a \in Accounts
      PROVE  side * base(a) + tax(a, "DEBIT") - tax(a, "CREDIT")
               - (IF a = Control THEN side * s ELSE 0) \in Int
  BY <1>1, <1>2, <1>3
<1> QED BY <1>4, <1>5 DEF Lines

\* computeTotals, of lines that calculate accepts.
LEMMA ComputeType ==
  ASSUME DTypes, NEW ls \in LineLists \cup {<<>>}, Accepts(Nature, ls, taxCode)
  PROVE  ComputeTotals(ls) \in Calcs /\ ComputeTotals(ls).total > 0
<1>1. SettlementAmount(ls, taxCode) \in Nat /\ SettlementAmount(ls, taxCode) > 0
  BY TotalTypes DEF DTypes, Accepts
<1> QED BY <1>1, TotalTypes DEF DTypes, ComputeTotals, Calcs

-----------------------------------------------------------------------------
(* What an allocation list pays. *)

LEMMA AllocTypes ==
  ASSUME NEW al \in Allocs \cup {<<>>}
  PROVE  /\ Len(al) \in Nat /\ DOMAIN al = 1 .. Len(al) /\ IsFiniteSet(DOMAIN al)
         /\ \A i \in DOMAIN al : AllocAmounts(al)[i] \in Nat \ {0} /\ al[i].doc \in Req
         /\ \A d : IsFiniteSet({i \in DOMAIN al : al[i].doc = d})
         /\ \A d : AllocatedTo(al, d) \in Nat
         /\ AllocTotal(al) \in Nat
<1> DEFINE A == [doc: Req, amount: Nat \ {0}]
<1>1. al \in Seq(A)
  BY EmptySeq DEF Allocs
<1>2. DOMAIN al = 1 .. Len(al) /\ Len(al) \in Nat /\ \A i \in DOMAIN al : al[i] \in A
  <2> HIDE DEF A
  <2>1. DOMAIN al = 1 .. Len(al) /\ Len(al) \in Nat
    BY <1>1, LenProperties
  <2> QED BY <1>1, <2>1, ElementOfSeq
<1>3. IsFiniteSet(DOMAIN al)
  BY <1>2, FS_Interval
<1>4. \A i \in DOMAIN al : AllocAmounts(al)[i] \in Nat \ {0} /\ al[i].doc \in Req
  BY <1>2 DEF AllocAmounts
<1>5. \A d : IsFiniteSet({i \in DOMAIN al : al[i].doc = d})
  BY <1>3, FS_Subset
<1>6. ASSUME NEW d PROVE AllocatedTo(al, d) \in Nat
  BY <1>4, <1>5, SumNat DEF AllocatedTo
<1>7. AllocTotal(al) \in Nat
  BY <1>3, <1>4, SumNat DEF AllocTotal
<1> QED BY <1>2, <1>3, <1>4, <1>5, <1>6, <1>7

\* What is not listed is not paid, and what is listed is.
LEMMA AllocPositive ==
  ASSUME NEW al \in Allocs \cup {<<>>}, NEW d
  PROVE  IF \E i \in DOMAIN al : al[i].doc = d THEN AllocatedTo(al, d) > 0 ELSE AllocatedTo(al, d) = 0
<1> DEFINE S == {i \in DOMAIN al : al[i].doc = d}
<1>1. CASE \E i \in DOMAIN al : al[i].doc = d
  <2>1. PICK i \in DOMAIN al : al[i].doc = d
    BY <1>1
  <2>2. AllocAmounts(al)[i] \in Nat \ {0} /\ i \in S /\ IsFiniteSet(S)
        /\ \A j \in S : AllocAmounts(al)[j] \in Nat
    BY <2>1, AllocTypes
  <2>3. AllocAmounts(al)[i] <= SumOver(AllocAmounts(al), S)
    BY <2>2, SumAtLeast
  <2>4. AllocatedTo(al, d) = SumOver(AllocAmounts(al), S)
    BY DEF AllocatedTo
  <2>5. AllocatedTo(al, d) \in Nat
    BY AllocTypes
  <2> HIDE DEF S
  <2> QED BY <1>1, <2>2, <2>3, <2>4, <2>5
<1>2. CASE ~ \E i \in DOMAIN al : al[i].doc = d
  <2>1. S = {}
    BY <1>2
  <2> QED BY <1>2, <2>1, SumEmpty DEF AllocatedTo
<1> QED BY <1>1, <1>2

\* The list up to its first n allocations, and one more of them.
LEMMA AllocPrefix ==
  ASSUME NEW al \in Allocs \cup {<<>>}, NEW n \in Nat, n <= Len(al)
  PROVE  /\ SubSeq(al, 1, n) \in Allocs \cup {<<>>}
         /\ DOMAIN SubSeq(al, 1, n) = 1 .. n
         /\ \A i \in 1 .. n : SubSeq(al, 1, n)[i] = al[i]
         /\ n = Len(al) => SubSeq(al, 1, n) = al
<1> DEFINE A == [doc: Req, amount: Nat \ {0}]
<1>1. al \in Seq(A)
  BY EmptySeq DEF Allocs
<1>2. Len(al) \in Nat /\ DOMAIN al = 1 .. Len(al)
  BY <1>1, LenProperties
<1>3. /\ SubSeq(al, 1, n) \in Seq(A) /\ Len(SubSeq(al, 1, n)) = n
      /\ \A i \in 1 .. n : SubSeq(al, 1, n)[i] = al[i]
  <2>1. \A i \in 1 .. n : al[i] \in A
    <3> HIDE DEF A
    <3> QED BY <1>1, <1>2, ElementOfSeq
  <2> HIDE DEF A
  <2>2. /\ SubSeq(al, 1, n) \in Seq(A)
        /\ Len(SubSeq(al, 1, n)) = IF 1 <= n THEN n - 1 + 1 ELSE 0
        /\ \A i \in 1 .. (n - 1 + 1) : SubSeq(al, 1, n)[i] = al[1 + i - 1]
    BY <2>1, SubSeqProperties
  <2> QED BY <2>2
<1>4. DOMAIN SubSeq(al, 1, n) = 1 .. n
  BY <1>3, LenProperties
<1>5. n = Len(al) => SubSeq(al, 1, n) = al
  BY <1>1, <1>2, <1>3, SeqEqual
<1> QED BY <1>3, <1>4, <1>5 DEF Allocs

LEMMA AllocNext ==
  ASSUME NEW al \in Allocs \cup {<<>>}, NEW n \in Nat, n + 1 <= Len(al), NEW d
  PROVE  AllocatedTo(SubSeq(al, 1, n + 1), d)
           = AllocatedTo(SubSeq(al, 1, n), d) + (IF al[n + 1].doc = d THEN al[n + 1].amount ELSE 0)
<1> DEFINE p == SubSeq(al, 1, n)
           q == SubSeq(al, 1, n + 1)
           P == {i \in DOMAIN p : p[i].doc = d}
           Q == {i \in DOMAIN q : q[i].doc = d}
<1>1. /\ p \in Allocs \cup {<<>>} /\ q \in Allocs \cup {<<>>}
      /\ DOMAIN p = 1 .. n /\ DOMAIN q = 1 .. (n + 1)
      /\ \A i \in 1 .. n : p[i] = al[i]
      /\ \A i \in 1 .. (n + 1) : q[i] = al[i]
  <2>1. Len(al) \in Nat /\ n <= Len(al)
    BY AllocTypes
  <2>2. p \in Allocs \cup {<<>>} /\ DOMAIN p = 1 .. n /\ \A i \in 1 .. n : p[i] = al[i]
    BY <2>1, AllocPrefix
  <2>3. /\ q \in Allocs \cup {<<>>} /\ DOMAIN q = 1 .. (n + 1)
        /\ \A i \in 1 .. (n + 1) : q[i] = al[i]
    BY <2>1, AllocPrefix
  <2> QED BY <2>2, <2>3
<1>2. /\ IsFiniteSet(P) /\ IsFiniteSet(Q)
      /\ \A i \in P : AllocAmounts(p)[i] \in Int
      /\ \A i \in Q : AllocAmounts(q)[i] \in Int
      /\ AllocatedTo(p, d) \in Nat
  <2> HIDE DEF p, q
  <2>1. /\ IsFiniteSet(DOMAIN p) /\ AllocatedTo(p, d) \in Nat
        /\ \A i \in DOMAIN p : AllocAmounts(p)[i] \in Nat
    BY <1>1, AllocTypes
  <2>2. IsFiniteSet(DOMAIN q) /\ \A i \in DOMAIN q : AllocAmounts(q)[i] \in Nat
    BY <1>1, AllocTypes
  <2>3. IsFiniteSet(P) /\ IsFiniteSet(Q)
    BY <2>1, <2>2, FS_Subset
  <2> QED BY <2>1, <2>2, <2>3
<1>3. \A i \in P : AllocAmounts(q)[i] = AllocAmounts(p)[i]
  <2> HIDE DEF p, q
  <2> QED BY <1>1 DEF AllocAmounts
<1>4. AllocatedTo(p, d) = SumOver(AllocAmounts(q), P)
  <2>1. SumOver(AllocAmounts(q), P) = SumOver(AllocAmounts(p), P)
    <3> HIDE DEF P, p, q
    <3> QED BY <1>2, <1>3, SumSame
  <2> QED BY <2>1 DEF AllocatedTo
<1>5. CASE al[n + 1].doc = d
  <2>1. Q = P \cup {n + 1} /\ n + 1 \notin P
    <3> HIDE DEF p, q
    <3> QED BY <1>1, <1>5
  <2>2. AllocAmounts(q)[n + 1] = al[n + 1].amount
    <3> HIDE DEF p, q
    <3> QED BY <1>1 DEF AllocAmounts
  <2>3. \A y \in P \cup {n + 1} : AllocAmounts(q)[y] \in Int
    BY <1>2, <2>1
  <2>4. SumOver(AllocAmounts(q), P \cup {n + 1}) = AllocAmounts(q)[n + 1] + SumOver(AllocAmounts(q), P)
    <3> HIDE DEF P, Q, q
    <3> QED BY <1>2, <2>1, <2>3, SumOneMore
  <2>5. AllocatedTo(q, d) = al[n + 1].amount + AllocatedTo(p, d)
    BY <1>4, <2>1, <2>2, <2>4 DEF AllocatedTo
  <2>6. al[n + 1].amount \in Int
    BY <2>2, <2>3
  <2> QED BY <1>2, <1>5, <2>5, <2>6
<1>6. CASE al[n + 1].doc # d
  <2>1. Q = P
    <3> HIDE DEF p, q
    <3> QED BY <1>1, <1>6
  <2>2. AllocatedTo(q, d) = AllocatedTo(p, d)
    BY <1>4, <2>1 DEF AllocatedTo
  <2> QED BY <1>2, <1>6, <2>2
<1> QED BY <1>5, <1>6

-----------------------------------------------------------------------------
(* The initial state. *)

\* The rows of books in which documents have been posted and payments drafted.
HistoryDoc(d) ==
  [status |-> "POSTED", deletedAt |-> Null, date |-> SomePeriod,
   calc |-> [NoCalc EXCEPT !.subtotal = HistoryAmount, !.total = HistoryAmount],
   paid |-> 0, number |-> Index(d), entry |-> d]
HistoryEntry(e) ==
  [NoRow EXCEPT !.status = "POSTED", !.source = DocSource, !.date = SomePeriod,
                !.number = Index(e), !.createdBy = UserOf[e], !.postedBy = UserOf[e]]
DraftedPay(d) == [NoPay EXCEPT !.status = "DRAFT", !.date = SomePeriod, !.alloc = Drafted[d]]

LEMMA InitTables ==
  ASSUME DInit
  PROVE  /\ journal = [e \in Req |-> IF InHistory(e) THEN HistoryEntry(e) ELSE NoRow]
         /\ lines = [e \in Req |-> IF InHistory(e) THEN DocLines(HistoryAmount) ELSE NoLines]
         /\ nextNumber = [y \in Years |-> IF y = YearOf[SomePeriod] THEN Len(History) + 1 ELSE 1]
         /\ doc = [d \in Req |-> IF InHistory(d) THEN HistoryDoc(d) ELSE NoDoc]
         /\ pay = [d \in Req |-> IF d \in DOMAIN Drafted THEN DraftedPay(d) ELSE NoPay]
         /\ docSeq = [t \in Types |-> [y \in Years |->
              IF t = "DOC" /\ y = YearOf[SomePeriod] THEN Len(History) + 1 ELSE 1]]
         /\ taxCode = TaxCodes /\ partner = "active"
BY Zenon DEF DInit, HistoryDoc, HistoryEntry, DraftedPay

LEMMA InitContext ==
  ASSUME DInit
  PROVE  /\ pc = [r \in Req |-> IF InHistory(r) \/ r \in DOMAIN Drafted THEN "done" ELSE "start"]
         /\ op = [r \in Req |-> "none"]
         /\ tgt = [r \in Req |-> Null]
         /\ date = [r \in Req |-> Null]
         /\ num = [r \in Req |-> 0]
         /\ buf = [r \in Req |-> NoLines]
         /\ held = [r \in Req |-> {}]
         /\ src = [r \in Req |-> Null]
         /\ calc = [r \in Req |-> NoCalc]
         /\ pos = [r \in Req |-> 1]
         /\ docNum = [r \in Req |-> 0]
BY Zenon DEF DInit

LEMMA HistoryTypes ==
  /\ SomePeriod \in Periods /\ HistoryAmount \in Nat \ {0} /\ Len(History) \in Nat
  /\ DOMAIN History = 1 .. Len(History)
  /\ \A i \in DOMAIN History : History[i] \in Req /\ Index(History[i]) = i
  /\ \A e : InHistory(e) => Index(e) \in DOMAIN History /\ History[Index(e)] = e
<1>1. SomePeriod \in Periods
  BY DocumentsAssumption DEF SomePeriod
<1>2. HistoryAmount \in Nat \ {0} /\ History \in Seq(Req)
  BY DocumentsAssumption
<1>3. Len(History) \in Nat /\ DOMAIN History = 1 .. Len(History)
  BY <1>2, LenProperties
<1>4. ASSUME NEW e, InHistory(e) PROVE Index(e) \in DOMAIN History /\ History[Index(e)] = e
  BY <1>4 DEF InHistory, Index
<1>5. ASSUME NEW i \in DOMAIN History PROVE History[i] \in Req /\ Index(History[i]) = i
  <2>1. History[i] \in Req
    BY <1>2, <1>3, ElementOfSeq
  <2>2. InHistory(History[i])
    BY DEF InHistory
  <2>3. \A k, j \in DOMAIN History : History[k] = History[j] => k = j
    BY DocumentsAssumption
  <2> QED BY <1>4, <2>1, <2>2, <2>3
<1> QED BY <1>1, <1>2, <1>3, <1>4, <1>5

LEMMA InitRows ==
  ASSUME DInit
  PROVE  \A d \in Req : Fresh(d) /\ RowOK(d)
<1>1. SomePeriod \in Periods
  BY HistoryTypes
<1>2. ASSUME NEW d \in Req PROVE Fresh(d)
  BY InitTables, InitContext DEF Fresh, NoRow, NoDoc, NoPay
<1>3. ASSUME NEW d \in Req PROVE RowOK(d)
  <2>1. /\ journal[d].status # "none" => InHistory(d) /\ journal[d].date = SomePeriod
        /\ InHistory(d) => journal[d].status = "POSTED"
    <3>1. journal[d] = IF InHistory(d) THEN HistoryEntry(d) ELSE NoRow
      BY InitTables
    <3> QED BY <3>1 DEF NoRow, HistoryEntry
  <2>2. /\ doc[d].status # "none" => InHistory(d) /\ doc[d].status = "POSTED"
        /\ InHistory(d) => doc[d].date = SomePeriod /\ doc[d].entry = d /\ doc[d].deletedAt = Null
                           /\ doc[d].status = "POSTED"
        /\ ~InHistory(d) => doc[d].status = "none" /\ doc[d].entry = Null
    BY InitTables DEF NoDoc, HistoryDoc
  <2>3. /\ pay[d].status # "none" => /\ d \in DOMAIN Drafted /\ pay[d].date = SomePeriod
                                     /\ pay[d].alloc = Drafted[d]
        /\ pay[d].entry = Null /\ pay[d].status \in {"none", "DRAFT"}
    <3>1. pay[d] = IF d \in DOMAIN Drafted THEN DraftedPay(d) ELSE NoPay
      BY InitTables
    <3> QED BY <3>1 DEF NoPay, DraftedPay
  <2>4. d \in DOMAIN Drafted => Drafted[d] \in Allocs
    BY DocumentsAssumption
  <2>5. d # Null
    BY LedgerAssumption
  <2> QED BY <1>1, <2>1, <2>2, <2>3, <2>4, <2>5 DEF RowOK
<1> QED BY <1>2, <1>3

LEMMA InitDInv == DInit => DInv
<1> SUFFICES ASSUME DInit PROVE DInv
  OBVIOUS
<1>1. SomePeriod \in Periods /\ HistoryAmount \in Nat /\ Len(History) \in Nat
      /\ {Control, Offset, Cash} \subseteq Accounts
  BY DocumentsAssumption, HistoryTypes
<1>2. \A e : InHistory(e) => Index(e) \in Nat
  BY HistoryTypes
<1>3. DocLines(HistoryAmount) \in Lines /\ NoLines \in Lines
  BY <1>1 DEF DocLines, NoLines, Lines, Signed
<1>4. journal \in [Req -> EntryRow]
  <2>1. ASSUME NEW e \in Req PROVE NoRow \in EntryRow /\ (InHistory(e) => HistoryEntry(e) \in EntryRow)
    <3>1. UserOf[e] \in Users
      BY LedgerAssumption
    <3> QED BY <1>1, <1>2, <3>1 DEF HistoryEntry, EntryRow, NoRow, Sources, DocSource
  <2> QED BY <2>1, InitTables
<1>5. lines \in [Req -> Lines] /\ nextNumber \in [Years -> Nat]
  BY <1>1, <1>3, InitTables
<1>6. NoCalc \in Calcs /\ [NoCalc EXCEPT !.subtotal = HistoryAmount, !.total = HistoryAmount] \in Calcs
  <2>1. NoCalc \in Calcs
    BY DEF NoCalc, Calcs
  <2> DEFINE c == [NoCalc EXCEPT !.subtotal = HistoryAmount]
  <2>2. c \in Calcs
    BY <1>1, <2>1 DEF Calcs
  <2>3. [c EXCEPT !.total = HistoryAmount] \in Calcs
    <3> HIDE DEF c
    <3> QED BY <1>1, <2>2 DEF Calcs
  <2>4. [NoCalc EXCEPT !.subtotal = HistoryAmount, !.total = HistoryAmount] = [c EXCEPT !.total = HistoryAmount]
    OBVIOUS
  <2> QED BY <2>1, <2>3, <2>4
<1>7. doc \in [Req -> DocRow]
  <2>1. NoDoc \in DocRow
    BY <1>6 DEF NoDoc, DocRow, Statuses
  <2>2. ASSUME NEW d \in Req, InHistory(d) PROVE HistoryDoc(d) \in DocRow
    BY <1>1, <1>2, <1>6, <2>2 DEF HistoryDoc, DocRow, Statuses
  <2> QED BY <2>1, <2>2, InitTables
<1>8. pay \in [Req -> PayRow]
  <2>1. NoPay \in PayRow
    BY DEF NoPay, PayRow, Statuses
  <2>2. ASSUME NEW d \in DOMAIN Drafted PROVE DraftedPay(d) \in PayRow
    <3>1. Drafted[d] \in Allocs
      BY DocumentsAssumption
    <3> QED BY <1>1, <3>1 DEF DraftedPay, NoPay, PayRow, Statuses
  <2> QED BY <2>1, <2>2, InitTables
<1>9. docSeq \in [Types -> [Years -> Nat \ {0}]]
  <2>2. \A t \in Types : docSeq[t] = [y \in Years |->
              IF t = "DOC" /\ y = YearOf[SomePeriod] THEN Len(History) + 1 ELSE 1]
    BY InitTables
  <2>3. ASSUME NEW t \in Types PROVE docSeq[t] \in [Years -> Nat \ {0}]
    <3>1. docSeq[t] = [y \in Years |-> IF t = "DOC" /\ y = YearOf[SomePeriod] THEN Len(History) + 1 ELSE 1]
      BY <2>2
    <3>2. Len(History) + 1 \in Nat \ {0} /\ 1 \in Nat \ {0}
      BY <1>1
    <3> QED BY <3>1, <3>2
  <2>4. docSeq = [t \in Types |-> docSeq[t]]
    BY InitTables
  <2> QED BY <2>3, <2>4
<1>10. taxCode \in [DOMAIN TaxCodes -> TaxCodeRow]
  BY DocumentsAssumption, InitTables
<1>11. DTypes
  <2>1. /\ pc \in [Req -> DLabels] /\ op \in [Req -> PostOps \cup {"none", "updateDoc", "closePeriod"}]
        /\ tgt \in [Req -> Req \cup {Null}] /\ date \in [Req -> Periods \cup {Null}]
        /\ num \in [Req -> Nat] /\ buf \in [Req -> Lines] /\ held \in [Req -> SUBSET DLocks]
        /\ partner \in {"active", "inactive"} /\ src \in [Req -> Req \cup {Null}]
        /\ calc \in [Req -> Calcs] /\ pos \in [Req -> Nat \ {0}] /\ docNum \in [Req -> Nat]
    BY <1>3, <1>6, InitContext, InitTables DEF DLabels, Before
  <2> QED BY <1>4, <1>5, <1>7, <1>8, <1>9, <1>10, <2>1 DEF DTypes
<1>12. LocksCompatible
  BY InitContext DEF LocksCompatible
<1>13. ASSUME NEW r \in Req PROVE Own(r)
  <2>1. pc[r] \in {"done", "start"} /\ pos[r] = 1
    BY InitContext
  <2> QED BY <2>1 DEF Own, OpFits, Knows, HoldsDoc, HoldsPay, HoldsSeq, DInFlight, Inside
<1> QED BY <1>11, <1>12, <1>13, InitRows DEF DInv

-----------------------------------------------------------------------------
(* Rely-guarantee: as in the proofs about the general ledger. *)

\* The local variables and the locks of the other requests do not change.
Frame(r) ==
  \A q \in Req \ {r} :
    /\ pc'[q] = pc[q] /\ op'[q] = op[q] /\ tgt'[q] = tgt[q] /\ date'[q] = date[q]
    /\ num'[q] = num[q] /\ buf'[q] = buf[q] /\ held'[q] = held[q] /\ src'[q] = src[q]
    /\ calc'[q] = calc[q] /\ pos'[q] = pos[q] /\ docNum'[q] = docNum[q]

\* Rows that exist keep what nobody may edit.
RowsPersist ==
  \A e \in Req :
    /\ journal[e].status # "none" =>
         journal'[e].status # "none" /\ journal'[e].date = journal[e].date /\ lines'[e] = lines[e]
    /\ doc[e].status # "none" =>
         doc'[e].status # "none" /\ (doc[e].entry # Null => doc'[e].entry = doc[e].entry)
    /\ pay[e].status # "none" =>
         /\ pay'[e].status # "none" /\ pay'[e].alloc = pay[e].alloc
         /\ pay[e].entry # Null => pay'[e].entry = pay[e].entry

\* Rows and counters change only where nobody else holds the lock.
Protected(r) ==
  /\ \A d \in Req : doc[d].status # "none" /\ doc'[d] # doc[d] => CanLock(r, Exclusive("doc", d))
  /\ \A d \in Req : pay[d].status # "none" /\ pay'[d] # pay[d] => CanLock(r, Exclusive("pay", d))
  /\ \A t \in Types, y \in Years :
       docSeq'[t][y] # docSeq[t][y] => CanLock(r, Exclusive("docSeq", <<t, y>>))

Guarantee(r) == Frame(r) /\ RowsPersist /\ Protected(r)

\* Whoever holds an exclusive lock could be granted it again; nobody else could.
LEMMA HolderCanLock ==
  ASSUME LocksCompatible, NEW r \in Req, NEW k, NEW i, Exclusive(k, i) \in held[r]
  PROVE  CanLock(r, Exclusive(k, i))
BY DEF LocksCompatible, CanLock, Conflict, Exclusive

LEMMA OthersCannotLock ==
  ASSUME NEW r \in Req, NEW q \in Req, q # r, NEW k, NEW i, Exclusive(k, i) \in held[q]
  PROVE  ~CanLock(r, Exclusive(k, i))
BY DEF CanLock, Conflict, Exclusive

LEMMA AcquireCompatible ==
  ASSUME DTypes, LocksCompatible, NEW r \in Req, NEW l, Acquire(r, l)
  PROVE  LocksCompatible'
<1> SUFFICES ASSUME NEW q \in Req, NEW s \in Req, q # s,
                    NEW k \in held'[q], NEW m \in held'[s]
             PROVE  ~Conflict(k, m)
  BY DEF LocksCompatible
<1>1. /\ held'[r] = held[r] \cup {l}
      /\ \A t \in Req \ {r} : held'[t] = held[t]
  BY DEF DTypes, Acquire
<1>2. CASE k \in held[q] /\ m \in held[s]
  BY <1>2 DEF LocksCompatible
<1>3. CASE k \notin held[q]
  <2>1. q = r /\ k = l /\ m \in held[s]
    BY <1>1, <1>3
  <2>2. ~Conflict(m, l)
    BY <2>1 DEF Acquire, CanLock
  <2> QED
    BY <2>1, <2>2 DEF Conflict
<1>4. CASE m \notin held[s]
  <2>1. s = r /\ m = l /\ k \in held[q]
    BY <1>1, <1>4
  <2> QED
    BY <2>1 DEF Acquire, CanLock
<1> QED
  BY <1>2, <1>3, <1>4

LEMMA ReleaseCompatible ==
  ASSUME DTypes, LocksCompatible, NEW r \in Req, ReleaseAll(r)
  PROVE  LocksCompatible'
BY DEF DTypes, LocksCompatible, ReleaseAll

\* What another request knows and holds survives a step that keeps the guarantee.
LEMMA OthersUndisturbed ==
  ASSUME DInv, NEW r \in Req, Guarantee(r), NEW q \in Req, q # r
  PROVE  Own(q)'
<1> USE DEF DInv
<1>1. Own(q) /\ RowsPersist /\ Protected(r)
  BY DEF Guarantee
<1>2. /\ pc'[q] = pc[q] /\ op'[q] = op[q] /\ tgt'[q] = tgt[q] /\ date'[q] = date[q]
      /\ num'[q] = num[q] /\ buf'[q] = buf[q] /\ held'[q] = held[q] /\ src'[q] = src[q]
      /\ calc'[q] = calc[q] /\ pos'[q] = pos[q] /\ docNum'[q] = docNum[q]
  BY DEF Guarantee, Frame
<1>3. Year(q)' = Year(q) /\ DInFlight(q)' = DInFlight(q) /\ TypeOf(q)' = TypeOf(q)
  BY <1>2 DEF Year, DInFlight, TypeOf
<1>4. DInFlight(q) /\ op[q] \in PayOps => Alloc(q)' = Alloc(q)
  BY <1>1, <1>2 DEF Own, Knows, RowsPersist, Alloc
<1>5. OpFits(q)'
  BY <1>1, <1>2 DEF Own, OpFits
<1>6. Knows(q)'
  <2> SUFFICES ASSUME DInFlight(q) PROVE Knows(q)'
    BY <1>3 DEF Knows
  <2>1. Knows(q)
    BY <1>1 DEF Own
  <2>2. op[q] \in DocOps \cup {"updateDoc"} => src[q] \in Req /\ doc'[src[q]].status # "none"
    BY <1>1, <2>1 DEF Knows, RowsPersist
  <2>3. op[q] \in PayOps => src[q] \in Req /\ pay'[src[q]].status # "none"
    BY <1>1, <2>1 DEF Knows, RowsPersist
  <2>4. op[q] = "voidDoc" => doc'[src[q]].entry # Null /\ tgt[q] = doc'[src[q]].entry
    BY <1>1, <2>1 DEF Knows, RowsPersist, DocOps
  <2>5. op[q] = "voidPay" => pay'[src[q]].entry # Null /\ tgt[q] = pay'[src[q]].entry
    BY <1>1, <2>1 DEF Knows, RowsPersist, PayOps
  <2>6. op[q] \in {"voidDoc", "voidPay", "reverse"} =>
          /\ tgt[q] \in Req /\ journal'[tgt[q]].status # "none"
          /\ pc[q] # "loadEntry" => buf[q] = Swapped(lines'[tgt[q]])
    BY <1>1, <2>1 DEF Knows, RowsPersist, Swapped
  <2>7. op[q] = "postPay" => buf[q] = PayLines(AllocTotal(Alloc(q)'))
    BY <1>4, <2>1 DEF Knows, PayOps
  <2>8. pc[q] # "loadEntry" => date[q] \in Periods
    BY <2>1 DEF Knows
  <2> QED BY <1>2, <1>3, <2>2, <2>3, <2>4, <2>5, <2>6, <2>7, <2>8 DEF Knows, Swapped
<1>7. HoldsDoc(q)'
  <2> SUFFICES ASSUME op[q] \in DocOps, pc[q] \in Inside
               PROVE  Exclusive("doc", src[q]) \in held[q] /\ DocAllows(op[q], doc'[src[q]])
    BY <1>2 DEF HoldsDoc
  <2>1. /\ Exclusive("doc", src[q]) \in held[q] /\ DocAllows(op[q], doc[src[q]])
        /\ src[q] \in Req /\ doc[src[q]].status # "none"
    BY <1>1 DEF Own, HoldsDoc, Knows, DInFlight, Inside
  <2>2. doc'[src[q]] = doc[src[q]]
    BY <1>1, <2>1, OthersCannotLock DEF Protected
  <2> QED BY <2>1, <2>2
<1>8. HoldsPay(q)'
  <2> SUFFICES ASSUME op[q] \in PayOps, pc[q] \in Inside \cup {"settle", "unwind"}
               PROVE  HoldsPay(q)'
    BY <1>2 DEF HoldsPay
  <2>1. HoldsPay(q) /\ src[q] \in Req /\ pay[src[q]].status # "none" /\ DInFlight(q)
    BY <1>1 DEF Own, Knows, DInFlight, Inside
  <2>2. pay'[src[q]] = pay[src[q]] /\ Alloc(q)' = Alloc(q)
    BY <1>1, <1>4, <2>1, OthersCannotLock DEF Protected, HoldsPay
  <2>3. ASSUME NEW i \in 1 .. (pos[q] - 1)
        PROVE  /\ Exclusive("doc", Alloc(q)[i].doc) \in held[q]
               /\ op[q] = "postPay" =>
                    LET d == Alloc(q)[i].doc IN
                    /\ doc'[d].status = "POSTED"
                    /\ doc'[d].paid + AllocatedTo(SubSeq(Alloc(q), 1, pos[q] - 1), d) <= doc'[d].calc.total
    <3> DEFINE d == Alloc(q)[i].doc
    <3>1. /\ Exclusive("doc", d) \in held[q]
          /\ op[q] = "postPay" =>
               /\ doc[d].status = "POSTED"
               /\ doc[d].paid + AllocatedTo(SubSeq(Alloc(q), 1, pos[q] - 1), d) <= doc[d].calc.total
      BY <2>1 DEF HoldsPay
    <3>2. d \in Req
      <4>1. Alloc(q) \in Allocs /\ i \in DOMAIN Alloc(q)
        <5>1. Alloc(q) \in Allocs
          BY <2>1 DEF RowOK, Alloc
        <5>2. pos[q] <= Len(Alloc(q)) + 1 /\ pos[q] \in Nat /\ Len(Alloc(q)) \in Nat
              /\ DOMAIN Alloc(q) = 1 .. Len(Alloc(q))
          <6>1. Len(Alloc(q)) \in Nat /\ DOMAIN Alloc(q) = 1 .. Len(Alloc(q))
            BY <5>1, AllocTypes
          <6> QED BY <2>1, <6>1 DEF HoldsPay, DTypes
        <5> QED BY <5>1, <5>2
      <4> QED BY <4>1, AllocTypes
    <3>3. op[q] = "postPay" => doc'[d] = doc[d]
      BY <1>1, <3>1, <3>2, OthersCannotLock DEF Protected
    <3> QED BY <3>1, <3>3
  <2> QED BY <1>2, <2>1, <2>2, <2>3 DEF HoldsPay
<1>9. HoldsSeq(q)'
  <2> SUFFICES ASSUME op[q] \in {"postDoc", "postPay"}, pc[q] \in Inside \ {"drawDoc"}
               PROVE  /\ Exclusive("docSeq", <<TypeOf(q), Year(q)>>) \in held[q]
                      /\ docNum[q] = docSeq'[TypeOf(q)][Year(q)]
    BY <1>2, <1>3 DEF HoldsSeq
  <2>1. /\ Exclusive("docSeq", <<TypeOf(q), Year(q)>>) \in held[q]
        /\ docNum[q] = docSeq[TypeOf(q)][Year(q)]
    BY <1>1 DEF Own, HoldsSeq
  <2>2. TypeOf(q) \in Types /\ Year(q) \in Years
    BY <1>1, LedgerAssumption DEF Own, Knows, DInFlight, Inside, TypeOf, Types, Year
  <2> QED BY <1>1, <2>1, <2>2, OthersCannotLock DEF Protected
<1> QED BY <1>5, <1>6, <1>7, <1>8, <1>9 DEF Own

-----------------------------------------------------------------------------
(* Steps that leave the tables alone. *)

\* A step that changes no table keeps the invariant if what r then claims is true.
LEMMA QuietInv ==
  ASSUME DInv, NEW r \in Req, UNCHANGED <<journal, lines, doc, pay, docSeq>>, Frame(r),
         DTypes', LocksCompatible', Own(r)', pc[r] # "done"
  PROVE  DInv'
<1> USE DEF DInv
<1>1. Guarantee(r)
  BY DEF Guarantee, RowsPersist, Protected
<1>2. ASSUME NEW q \in Req PROVE Own(q)'
  BY <1>1, OthersUndisturbed
<1>3. ASSUME NEW d \in Req PROVE (Fresh(d) /\ RowOK(d))'
  <2>1. pc'[d] # "done" => pc[d] # "done"
    BY DEF Frame
  <2> QED BY <2>1 DEF Fresh, RowOK
<1> QED BY <1>2, <1>3

\* A handler that throws, and a transaction that is rolled back.
LEMMA FailInv ==
  ASSUME DInv, NEW r \in Req, pc[r] # "done", Rejected(r) \/ RolledBack(r)
  PROVE  DInv'
<1> USE DEF DInv
<1>1. /\ pc' = [pc EXCEPT ![r] = "failed"] /\ UNCHANGED <<db, ctx, docVars>>
      /\ held' = held \/ ReleaseAll(r)
  BY DEF Rejected, RolledBack, Reject, Rollback, Goto
<1>2. DTypes'
  BY <1>1 DEF DTypes, ReleaseAll, DLabels, db, ctx, docVars, docDb, docCtx
<1>3. LocksCompatible'
  BY <1>1, ReleaseCompatible DEF LocksCompatible
<1>4. Frame(r) /\ pc'[r] = "failed"
  BY <1>1 DEF DTypes, ReleaseAll, Frame, db, ctx, docVars, docDb, docCtx
<1>5. Own(r)'
  BY <1>4 DEF Own, OpFits, Knows, HoldsDoc, HoldsPay, HoldsSeq, DInFlight, Before, Inside
<1> QED BY <1>1, <1>2, <1>3, <1>4, <1>5, QuietInv DEF db, docVars, docDb

\* The arrival of a request that reads a document or a payment.
LEMMA BeginsInv ==
  ASSUME DInv, NEW r \in Req, pc[r] = "start",
         NEW o \in PostOps \cup {"updateDoc"}, NEW d \in Req, NEW e \in Req \cup {Null},
         NEW p \in Periods \cup {Null}, NEW v \in Lines, NEW a \in Calcs,
         NEW l \in {"update", "calculate", "loadEntry", "findPeriod"}, Begins(r, o, d, e, p, v, a, l),
         o \in DocOps \cup {"updateDoc"} => doc[d].status # "none",
         o \in PayOps => pay[d].status # "none",
         l = "update" <=> o = "updateDoc", l = "calculate" <=> o = "postDoc",
         l = "loadEntry" <=> o \in {"voidDoc", "voidPay"},
         l # "loadEntry" => p \in Periods,
         o = "voidDoc" => doc[d].entry # Null /\ e = doc[d].entry,
         o = "voidPay" => pay[d].entry # Null /\ e = pay[d].entry,
         o = "postPay" => v = PayLines(AllocTotal(pay[d].alloc)),
         o # "reverse"
  PROVE  DInv'
<1> USE DEF DInv
<1>1. /\ op' = [op EXCEPT ![r] = o] /\ tgt' = [tgt EXCEPT ![r] = e]
      /\ date' = [date EXCEPT ![r] = p] /\ buf' = [buf EXCEPT ![r] = v]
      /\ src' = [src EXCEPT ![r] = d] /\ calc' = [calc EXCEPT ![r] = a]
      /\ pc' = [pc EXCEPT ![r] = l]
      /\ UNCHANGED <<num, db, held, docDb, pos, docNum>>
  BY DEF Begins, Carry, Goto
<1>2. DTypes'
  BY <1>1 DEF DTypes, DLabels, Before, db, docDb
<1>3. LocksCompatible'
  BY <1>1 DEF LocksCompatible
<1>4. Frame(r)
  BY <1>1 DEF DTypes, Frame
<1>5. /\ pc'[r] = l /\ op'[r] = o /\ tgt'[r] = e /\ date'[r] = p /\ buf'[r] = v /\ src'[r] = d
      /\ pos'[r] = pos[r] /\ pos[r] = 1
  BY <1>1 DEF DTypes, Own, OpFits, Before
<1>6. OpFits(r)'
  BY <1>5 DEF OpFits, Inside, PostOps
<1>7. HoldsDoc(r)' /\ HoldsPay(r)' /\ HoldsSeq(r)'
  BY <1>5 DEF HoldsDoc, HoldsPay, HoldsSeq, Inside
<1>8. Knows(r)'
  <2>1. o = "voidDoc" => e \in Req /\ journal[e].status # "none"
    BY DEF RowOK, DTypes, DocRow
  <2>2. o = "voidPay" => e \in Req /\ journal[e].status # "none"
    BY DEF RowOK, DTypes, PayRow
  <2> QED BY <1>1, <1>5, <2>1, <2>2 DEF Knows, db, docDb, Alloc, DocOps, PayOps
<1> QED BY <1>1, <1>2, <1>3, <1>4, <1>5, <1>6, <1>7, <1>8, QuietInv DEF Own, db, docDb

\* The types of what is read and prepared.
LEMMA PreparedTypes ==
  ASSUME DTypes
  PROVE  /\ NoLines \in Lines /\ NoCalc \in Calcs
         /\ \A x \in Int : PayLines(x) \in Lines
         /\ \A e \in Req : Swapped(lines[e]) \in Lines
<1>1. NoLines \in Lines /\ NoCalc \in Calcs
  BY DEF NoLines, Lines, NoCalc, Calcs
<1>2. ASSUME NEW x \in Int PROVE PayLines(x) \in Lines
  <2>1. Signed(x) \in Int /\ -Signed(x) \in Int
    BY DEF Signed
  <2>2. NoLines \in [Accounts -> Int]
    BY <1>1 DEF Lines
  <2> QED BY <2>1, <2>2 DEF PayLines, Lines
<1>3. ASSUME NEW e \in Req PROVE Swapped(lines[e]) \in Lines
  BY DEF DTypes, Swapped, Lines
<1> QED BY <1>1, <1>2, <1>3

LEMMA OpNames ==
  /\ {"postDoc", "voidDoc", "postPay", "voidPay"} \subseteq PostOps
  /\ {"postDoc", "voidDoc"} \subseteq DocOps /\ {"postPay", "voidPay"} \subseteq PayOps
  /\ {"postDoc", "voidDoc", "updateDoc"} \cap PayOps = {}
  /\ {"postPay", "voidPay"} \cap (DocOps \cup {"updateDoc"}) = {}
BY DEF PostOps, DocOps, PayOps

\* What posting, voiding and updating read first.
LEMMA BeginDocInv ==
  ASSUME DInv, NEW r \in Req,
         BeginUpdateDoc(r) \/ BeginPostDoc(r) \/ BeginVoidDoc(r) \/ BeginPostPay(r) \/ BeginVoidPay(r)
  PROVE  DInv'
<1> USE DEF DInv
<1>0. NoLines \in Lines /\ NoCalc \in Calcs /\ \A x \in Int : PayLines(x) \in Lines
  BY PreparedTypes
<1>1. CASE BeginUpdateDoc(r)
  <2>1. PICK d \in Req, p \in Periods : \E ls \in LineLists \cup {doc[d].calc.lines} :
          /\ Arrives(r, "updateDoc")
          /\ doc[d].status # "none"
          /\ IF Is(doc[d], "DRAFT") /\ acct[Control] # "deleted" /\ Accepts(Nature, ls, taxCode)
               THEN Begins(r, "updateDoc", d, Null, p, NoLines, ComputeTotals(ls), "update")
               ELSE Rejected(r)
    BY <1>1 DEF BeginUpdateDoc
  <2>2. PICK ls \in LineLists \cup {doc[d].calc.lines} :
          /\ Arrives(r, "updateDoc")
          /\ doc[d].status # "none"
          /\ IF Is(doc[d], "DRAFT") /\ acct[Control] # "deleted" /\ Accepts(Nature, ls, taxCode)
               THEN Begins(r, "updateDoc", d, Null, p, NoLines, ComputeTotals(ls), "update")
               ELSE Rejected(r)
    BY <2>1
  <2>3. pc[r] = "start"
    BY <2>2 DEF Arrives
  <2>4. ls \in LineLists \cup {<<>>}
    <3>1. doc[d].calc.lines \in LineLists \cup {<<>>}
      BY DEF DTypes, DocRow, Calcs
    <3> QED BY <3>1
  <2>5. CASE Rejected(r)
    BY <2>3, <2>5, FailInv
  <2>6. CASE /\ Accepts(Nature, ls, taxCode)
             /\ Begins(r, "updateDoc", d, Null, p, NoLines, ComputeTotals(ls), "update")
    <3> DEFINE a == ComputeTotals(ls)
    <3>1. a \in Calcs
      BY <2>4, <2>6, ComputeType
    <3>2. Begins(r, "updateDoc", d, Null, p, NoLines, a, "update")
      BY <2>6
    <3>3. doc[d].status # "none"
      BY <2>2
    <3>4. "updateDoc" \in PostOps \cup {"updateDoc"} /\ "updateDoc" \notin PayOps
          /\ Null \in Req \cup {Null} /\ p \in Periods \cup {Null}
      BY OpNames
    <3> HIDE DEF a, DInv
    <3> QED BY <1>0, <2>3, <3>1, <3>2, <3>3, <3>4, BeginsInv
  <2> QED BY <2>2, <2>5, <2>6
<1>2. CASE BeginPostDoc(r)
  <2>1. PICK d \in Req :
          /\ Arrives(r, "postDoc")
          /\ doc[d].status # "none"
          /\ IF Is(doc[d], "DRAFT") /\ Tradable
               THEN Begins(r, "postDoc", d, Null, doc[d].date, NoLines, doc[d].calc, "calculate")
               ELSE Rejected(r)
    BY <1>2 DEF BeginPostDoc
  <2>2. pc[r] = "start"
    BY <2>1 DEF Arrives
  <2>3. CASE Rejected(r)
    BY <2>2, <2>3, FailInv
  <2>4. CASE Begins(r, "postDoc", d, Null, doc[d].date, NoLines, doc[d].calc, "calculate")
    <3> DEFINE a == doc[d].calc
               p == doc[d].date
    <3>1. p \in Periods /\ a \in Calcs
      BY <2>1 DEF RowOK, DTypes, DocRow
    <3>2. Begins(r, "postDoc", d, Null, p, NoLines, a, "calculate")
      BY <2>4
    <3>3. doc[d].status # "none"
      BY <2>1
    <3> HIDE DEF a, p, DInv
    <3> QED BY <1>0, <2>2, <3>1, <3>2, <3>3, BeginsInv, OpNames
  <2> QED BY <2>1, <2>3, <2>4
<1>3. CASE BeginVoidDoc(r)
  <2>1. PICK d \in Req :
          /\ Arrives(r, "voidDoc")
          /\ doc[d].status # "none"
          /\ IF Is(doc[d], "POSTED") /\ doc[d].paid = 0
               THEN Begins(r, "voidDoc", d, doc[d].entry, Null, NoLines, NoCalc, "loadEntry")
               ELSE Rejected(r)
    BY <1>3 DEF BeginVoidDoc
  <2>2. pc[r] = "start"
    BY <2>1 DEF Arrives
  <2>3. CASE Rejected(r)
    BY <2>2, <2>3, FailInv
  <2>4. CASE /\ Is(doc[d], "POSTED")
             /\ Begins(r, "voidDoc", d, doc[d].entry, Null, NoLines, NoCalc, "loadEntry")
    <3>1. doc[d].entry # Null /\ doc[d].entry \in Req \cup {Null}
      BY <2>4 DEF Is, RowOK, DTypes, DocRow
    <3> QED BY <1>0, <2>1, <2>2, <2>4, <3>1, BeginsInv, OpNames
  <2> QED BY <2>1, <2>3, <2>4
<1>4. CASE BeginPostPay(r)
  <2>1. PICK d \in Req :
          /\ Arrives(r, "postPay")
          /\ pay[d].status # "none"
          /\ IF Is(pay[d], "DRAFT") /\ acct[Control] # "deleted"
               THEN Begins(r, "postPay", d, Null, pay[d].date,
                           PayLines(AllocTotal(pay[d].alloc)), NoCalc, "findPeriod")
               ELSE Rejected(r)
    BY <1>4 DEF BeginPostPay
  <2>2. pc[r] = "start"
    BY <2>1 DEF Arrives
  <2>3. CASE Rejected(r)
    BY <2>2, <2>3, FailInv
  <2>4. CASE Begins(r, "postPay", d, Null, pay[d].date,
                    PayLines(AllocTotal(pay[d].alloc)), NoCalc, "findPeriod")
    <3>1. pay[d].date \in Periods /\ pay[d].alloc \in Allocs
      BY <2>1 DEF RowOK
    <3>2. PayLines(AllocTotal(pay[d].alloc)) \in Lines
      BY <1>0, <3>1, AllocTypes
    <3> QED BY <1>0, <2>1, <2>2, <2>4, <3>1, <3>2, BeginsInv, OpNames
  <2> QED BY <2>1, <2>3, <2>4
<1>5. CASE BeginVoidPay(r)
  <2>1. PICK d \in Req :
          /\ Arrives(r, "voidPay")
          /\ pay[d].status # "none"
          /\ IF Is(pay[d], "POSTED")
               THEN Begins(r, "voidPay", d, pay[d].entry, Null, NoLines, NoCalc, "loadEntry")
               ELSE Rejected(r)
    BY <1>5 DEF BeginVoidPay
  <2>2. pc[r] = "start"
    BY <2>1 DEF Arrives
  <2>3. CASE Rejected(r)
    BY <2>2, <2>3, FailInv
  <2>4. CASE /\ Is(pay[d], "POSTED")
             /\ Begins(r, "voidPay", d, pay[d].entry, Null, NoLines, NoCalc, "loadEntry")
    <3>1. pay[d].entry # Null /\ pay[d].entry \in Req \cup {Null}
      BY <2>4 DEF Is, RowOK, DTypes, PayRow
    <3> QED BY <1>0, <2>1, <2>2, <2>4, <3>1, BeginsInv, OpNames
  <2> QED BY <2>1, <2>3, <2>4
<1> QED BY <1>1, <1>2, <1>3, <1>4, <1>5

\* A reversal by hand, the close of a period, a change of a tax code or the partner.
LEMMA BeginOtherInv ==
  ASSUME DInv, NEW r \in Req,
         \/ (BeginReverse(r) \/ BeginClosePeriod(r)) /\ UNCHANGED docVars
         \/ ChangeTaxCode(r) \/ ChangePartner(r)
  PROVE  DInv'
<1> USE DEF DInv
<1>1. CASE BeginReverse(r) /\ UNCHANGED docVars
  <2>1. PICK e \in Req :
          /\ Arrives(r, "reverse")
          /\ journal[e].status # "none"
          /\ IF journal[e].status = "POSTED"
               THEN /\ Carry(r, "reverse", e, journal[e].date, Swapped(lines[e]))
                    /\ Goto(r, "findPeriod")
                    /\ UNCHANGED <<db, held>>
               ELSE Reject(r)
    BY <1>1 DEF BeginReverse
  <2>2. pc[r] = "start"
    BY <2>1 DEF Arrives
  <2>3. CASE Reject(r)
    BY <1>1, <2>2, <2>3, FailInv DEF Rejected
  <2>4. CASE /\ Carry(r, "reverse", e, journal[e].date, Swapped(lines[e]))
             /\ Goto(r, "findPeriod")
             /\ UNCHANGED <<db, held>>
    <3>0. journal[e].date \in Periods /\ Swapped(lines[e]) \in Lines
      BY <2>1, PreparedTypes DEF RowOK
    <3>1. /\ op' = [op EXCEPT ![r] = "reverse"] /\ tgt' = [tgt EXCEPT ![r] = e]
          /\ date' = [date EXCEPT ![r] = journal[e].date]
          /\ buf' = [buf EXCEPT ![r] = Swapped(lines[e])]
          /\ pc' = [pc EXCEPT ![r] = "findPeriod"]
          /\ UNCHANGED <<num, db, held, docVars>>
      BY <1>1, <2>4 DEF Carry, Goto
    <3>2. DTypes'
      BY <3>0, <3>1 DEF DTypes, DLabels, Before, PostOps, db, docVars, docDb, docCtx
    <3>3. LocksCompatible' /\ Frame(r)
      BY <3>1 DEF LocksCompatible, DTypes, Frame, docVars, docCtx
    <3>4. /\ pc'[r] = "findPeriod" /\ op'[r] = "reverse" /\ tgt'[r] = e
          /\ date'[r] = journal[e].date /\ buf'[r] = Swapped(lines[e]) /\ pos'[r] = pos[r] /\ pos[r] = 1
      BY <2>2, <3>1 DEF DTypes, Own, OpFits, Before, docVars, docCtx
    <3>5. Own(r)'
      BY <2>1, <3>0, <3>1, <3>4
      DEF Own, OpFits, Knows, HoldsDoc, HoldsPay, HoldsSeq, Inside, PostOps, DocOps, PayOps, db, Swapped
    <3> QED BY <2>2, <3>1, <3>2, <3>3, <3>5, QuietInv DEF db, docVars, docDb
  <2> QED BY <2>1, <2>3, <2>4
<1>2. CASE BeginClosePeriod(r) /\ UNCHANGED docVars
  <2>1. PICK p \in Periods :
          /\ Arrives(r, "closePeriod")
          /\ CanLock(r, Exclusive("period", p))
          /\ IF periodStatus[p] = "OPEN"
               THEN /\ Acquire(r, Exclusive("period", p))
                    /\ Carry(r, "closePeriod", Null, p, NoLines)
                    /\ Goto(r, "setClosed")
                    /\ UNCHANGED db
               ELSE Reject(r)
    BY <1>2 DEF BeginClosePeriod
  <2>2. pc[r] = "start"
    BY <2>1 DEF Arrives
  <2>3. CASE Reject(r)
    BY <1>2, <2>2, <2>3, FailInv DEF Rejected
  <2>4. CASE /\ Acquire(r, Exclusive("period", p))
             /\ Carry(r, "closePeriod", Null, p, NoLines)
             /\ Goto(r, "setClosed")
             /\ UNCHANGED db
    <3>0. NoLines \in Lines /\ Exclusive("period", p) \in DLocks
      BY PreparedTypes DEF DLocks, Locks, Exclusive
    <3>1. /\ op' = [op EXCEPT ![r] = "closePeriod"] /\ tgt' = [tgt EXCEPT ![r] = Null]
          /\ date' = [date EXCEPT ![r] = p] /\ buf' = [buf EXCEPT ![r] = NoLines]
          /\ held' = [held EXCEPT ![r] = @ \cup {Exclusive("period", p)}]
          /\ pc' = [pc EXCEPT ![r] = "setClosed"]
          /\ UNCHANGED <<num, db, docVars>>
      BY <1>2, <2>4 DEF Carry, Goto, Acquire
    <3>2. DTypes'
      BY <3>0, <3>1 DEF DTypes, DLabels, db, docVars, docDb, docCtx
    <3>3. LocksCompatible' /\ Frame(r)
      BY <2>4, <3>1, AcquireCompatible DEF DTypes, Frame, docVars, docCtx
    <3>4. pc'[r] = "setClosed" /\ op'[r] = "closePeriod" /\ date'[r] = p
      BY <3>1 DEF DTypes
    <3>5. Own(r)'
      BY <3>4 DEF Own, OpFits, Knows, HoldsDoc, HoldsPay, HoldsSeq, Inside, Before, DocOps, PayOps
    <3> QED BY <2>2, <3>1, <3>2, <3>3, <3>5, QuietInv DEF db, docVars, docDb
  <2> QED BY <2>1, <2>3, <2>4
<1>3. CASE ChangeTaxCode(r)
  <2>1. PICK c \in DOMAIN taxCode :
          /\ Arrives(r, "changeTaxCode")
          /\ IF taxCode[c].status # "deleted"
               THEN /\ \E row \in Amended(c) : taxCode' = [taxCode EXCEPT ![c] = row]
                    /\ Goto(r, "done")
                    /\ UNCHANGED <<db, ctx, held, doc, pay, docSeq, partner, docCtx>>
               ELSE Rejected(r)
    BY <1>3 DEF ChangeTaxCode
  <2>2. pc[r] = "start"
    BY <2>1 DEF Arrives
  <2>3. CASE Rejected(r)
    BY <2>2, <2>3, FailInv
  <2>4. CASE /\ \E row \in Amended(c) : taxCode' = [taxCode EXCEPT ![c] = row]
             /\ Goto(r, "done")
             /\ UNCHANGED <<db, ctx, held, doc, pay, docSeq, partner, docCtx>>
    <3>1. Amended(c) \subseteq TaxCodeRow
      <4>1. taxCode[c] \in TaxCodeRow /\ Rates \subseteq Nat
        BY DocumentsAssumption DEF DTypes
      <4> QED BY <4>1 DEF Amended, TaxCodeRow
    <3>2. DTypes'
      BY <2>4, <3>1 DEF DTypes, Goto, DLabels, db, ctx, docCtx
    <3>3. LocksCompatible' /\ Frame(r) /\ pc'[r] = "done"
      BY <2>4 DEF LocksCompatible, DTypes, Frame, Goto, db, ctx, docCtx
    <3>4. Own(r)'
      BY <3>3 DEF Own, OpFits, Knows, HoldsDoc, HoldsPay, HoldsSeq, Inside, Before, DInFlight
    <3> QED BY <2>2, <2>4, <3>2, <3>3, <3>4, QuietInv DEF db
  <2> QED BY <2>1, <2>3, <2>4
<1>4. CASE ChangePartner(r)
  <2>1. /\ pc[r] = "start" /\ partner' \in {"active", "inactive"} /\ pc' = [pc EXCEPT ![r] = "done"]
        /\ UNCHANGED <<db, ctx, held, doc, pay, docSeq, taxCode, docCtx>>
    BY <1>4 DEF ChangePartner, Arrives, Goto
  <2>2. DTypes'
    BY <2>1 DEF DTypes, DLabels, db, ctx, docCtx
  <2>3. LocksCompatible' /\ Frame(r) /\ pc'[r] = "done"
    BY <2>1 DEF LocksCompatible, DTypes, Frame, db, ctx, docCtx
  <2>4. Own(r)'
    BY <2>3 DEF Own, OpFits, Knows, HoldsDoc, HoldsPay, HoldsSeq, Inside, Before, DInFlight
  <2> QED BY <2>1, <2>2, <2>3, <2>4, QuietInv DEF db
<1> QED BY <1>1, <1>2, <1>3, <1>4

\* A step of the ledger's protocol: the request goes on with what it knows, before
\* its transaction or in it.
LEMMA AdvanceInv ==
  ASSUME DInv, NEW r \in Req, NEW l, pc' = [pc EXCEPT ![r] = l],
         \/ held' = held
         \/ \E k \in DLocks : Acquire(r, k),
         num' \in [Req -> Nat], \A q \in Req \ {r} : num'[q] = num[q],
         UNCHANGED <<journal, lines, nextNumber, op, tgt, date, buf, docVars>>,
         \/ /\ pc[r] \in {"findPeriod", "findClosed", "accounts"}
            /\ \/ l = "findClosed"
               \/ l = "accounts" /\ op[r] \in {"postDoc", "postPay"}
               \/ l = "lockDoc" /\ op[r] \in DocOps
               \/ l = "lockPay" /\ op[r] \in PayOps
               \/ l = "lockYear" /\ op[r] = "reverse"
         \/ pc[r] \in Inside \ {"drawDoc"} /\ l \in Inside \ {"drawDoc"}
  PROVE  DInv'
<1> USE DEF DInv
<1>1. DTypes' /\ held[r] \subseteq held'[r]
  <2>1. held' \in [Req -> SUBSET DLocks] /\ held[r] \subseteq held'[r]
    BY DEF DTypes, Acquire
  <2>2. l \in DLabels
    BY DEF DLabels, Before, Inside
  <2> QED BY <2>1, <2>2 DEF DTypes, docVars, docDb, docCtx
<1>2. LocksCompatible'
  BY AcquireCompatible DEF LocksCompatible
<1>3. Frame(r)
  BY DEF DTypes, Frame, Acquire, docVars, docCtx
<1>4. /\ pc'[r] = l /\ op'[r] = op[r] /\ tgt'[r] = tgt[r] /\ date'[r] = date[r] /\ buf'[r] = buf[r]
      /\ src'[r] = src[r] /\ pos'[r] = pos[r] /\ docNum'[r] = docNum[r]
      /\ UNCHANGED <<journal, lines, doc, pay, docSeq>>
  BY DEF DTypes, docVars, docDb, docCtx
<1>5. /\ Year(r)' = Year(r) /\ TypeOf(r)' = TypeOf(r) /\ Alloc(r)' = Alloc(r)
      /\ DInFlight(r) /\ DInFlight(r)'
  BY <1>4 DEF Year, TypeOf, Alloc, DInFlight, Inside
<1>6. Own(r)
  OBVIOUS
<1>7. OpFits(r)'
  <2>1. CASE pc[r] \in {"findPeriod", "findClosed", "accounts"}
    BY <1>4, <1>6, <2>1 DEF Own, OpFits, Inside, Before, PostOps, DocOps, PayOps
  <2>2. CASE pc[r] \in Inside \ {"drawDoc"} /\ l \in Inside \ {"drawDoc"}
    BY <1>4, <1>6, <2>2 DEF Own, OpFits, Inside, Before
  <2> QED BY <2>1, <2>2 DEF Inside
<1>8. Knows(r)'
  <2>1. Knows(r) /\ pc[r] # "loadEntry"
    BY <1>6 DEF Own, Inside
  <2> QED BY <1>4, <1>5, <2>1 DEF Knows, Swapped
<1>9. op[r] \in DocOps \cup PayOps => (pc'[r] \in Inside => pc[r] \in Inside \ {"drawDoc"})
      /\ pc'[r] \notin {"settle", "unwind", "drawDoc"}
  BY <1>4 DEF Inside, DocOps, PayOps
<1>10. HoldsDoc(r)' /\ HoldsSeq(r)'
  BY <1>1, <1>4, <1>5, <1>6, <1>9 DEF Own, HoldsDoc, HoldsSeq, DocOps, PayOps
<1>11. HoldsPay(r)'
  BY <1>1, <1>4, <1>5, <1>6, <1>9 DEF Own, HoldsPay
<1> QED BY <1>1, <1>2, <1>3, <1>4, <1>7, <1>8, <1>10, <1>11, QuietInv DEF Own, Inside

\* The steps of module Ledger.
LEMMA LedgerInv ==
  ASSUME DInv, NEW r \in Req, UNCHANGED docVars,
         \/ FindOpenPeriod(r, "findClosed") \/ FindClosedYear(r, AfterYear(op[r]))
         \/ AssertPostableAccounts(r, buf[r], FirstLock(op[r]))
         \/ LockYearShared(r) \/ RecheckYear(r) \/ LockPeriodShared(r) \/ NextNumber(r)
         \/ SetPeriodClosed(r)
  PROVE  DInv'
<1> USE DEF DInv
<1>1. OpFits(r) /\ Knows(r)
  BY DEF Own
<1>2. num' = num \/ pc[r] = "draw"
  BY DEF FindOpenPeriod, FindClosedYear, AssertPostableAccounts, LockYearShared, RecheckYear,
         LockPeriodShared, NextNumber, SetPeriodClosed, Reject, Rollback, ctx
<1>3. CASE Reject(r) \/ Rollback(r)
  <2>1. pc[r] # "done"
    BY DEF FindOpenPeriod, FindClosedYear, AssertPostableAccounts, LockYearShared, RecheckYear,
           LockPeriodShared, NextNumber, SetPeriodClosed
  <2> QED BY <1>3, <2>1, FailInv DEF Rejected, RolledBack
<1>4. CASE FindOpenPeriod(r, "findClosed") /\ ~Reject(r)
  BY <1>4, AdvanceInv DEF FindOpenPeriod, Goto, DTypes, db, ctx
<1>5. CASE FindClosedYear(r, AfterYear(op[r])) /\ ~Reject(r)
  <2>1. /\ pc[r] = "findClosed" /\ pc' = [pc EXCEPT ![r] = AfterYear(op[r])]
        /\ UNCHANGED <<db, ctx, held>>
    BY <1>5 DEF FindClosedYear, Goto
  <2>2. op[r] \in PostOps
    BY <1>1, <2>1 DEF OpFits
  <2>3. \/ AfterYear(op[r]) = "accounts" /\ op[r] \in {"postDoc", "postPay"}
        \/ AfterYear(op[r]) = "lockDoc" /\ op[r] \in DocOps
        \/ AfterYear(op[r]) = "lockPay" /\ op[r] \in PayOps
        \/ AfterYear(op[r]) = "lockYear" /\ op[r] = "reverse"
    BY <2>2 DEF AfterYear, FirstLock, PostOps, DocOps, PayOps
  <2> QED BY <2>1, <2>3, AdvanceInv DEF DTypes, db, ctx
<1>6. CASE AssertPostableAccounts(r, buf[r], FirstLock(op[r])) /\ ~Reject(r)
  <2>1. /\ pc[r] = "accounts" /\ pc' = [pc EXCEPT ![r] = FirstLock(op[r])]
        /\ UNCHANGED <<db, ctx, held>>
    BY <1>6 DEF AssertPostableAccounts, Goto
  <2>2. op[r] \in {"postDoc", "postPay"}
    BY <1>1, <2>1 DEF OpFits
  <2>3. \/ FirstLock(op[r]) = "lockDoc" /\ op[r] \in DocOps
        \/ FirstLock(op[r]) = "lockPay" /\ op[r] \in PayOps
    BY <2>2 DEF FirstLock, DocOps, PayOps
  <2> QED BY <2>1, <2>3, AdvanceInv DEF DTypes, db, ctx
<1>t. pc[r] \in {"lockYear", "recheckYear", "lockPeriod", "draw"} =>
        /\ date[r] \in Periods /\ Year(r) \in Years
        /\ {Share("year", Year(r)), Share("period", date[r]), Exclusive("seq", Year(r))} \subseteq DLocks
  <2> SUFFICES ASSUME pc[r] \in {"lockYear", "recheckYear", "lockPeriod", "draw"}
               PROVE  /\ date[r] \in Periods /\ Year(r) \in Years
                      /\ {Share("year", Year(r)), Share("period", date[r]), Exclusive("seq", Year(r))}
                           \subseteq DLocks
    OBVIOUS
  <2>1. date[r] \in Periods /\ Year(r) \in Years
    BY <1>1, LedgerAssumption DEF Knows, DInFlight, Year
  <2> QED BY <2>1 DEF DLocks, Locks, Share, Exclusive
<1>7. CASE LockYearShared(r)
  BY <1>7, <1>t, AdvanceInv DEF LockYearShared, Goto, DTypes, db, ctx, Inside
<1>8. CASE RecheckYear(r) /\ ~Rollback(r)
  BY <1>8, AdvanceInv DEF RecheckYear, Goto, DTypes, db, ctx, Inside
<1>9. CASE LockPeriodShared(r) /\ ~Rollback(r)
  BY <1>9, <1>t, AdvanceInv DEF LockPeriodShared, Goto, DTypes, db, ctx, Inside
<1>10. CASE NextNumber(r)
  <2>1. /\ pc[r] = "draw" /\ pc' = [pc EXCEPT ![r] = "write"] /\ Acquire(r, Exclusive("seq", Year(r)))
        /\ num' = [num EXCEPT ![r] = nextNumber[Year(r)]]
        /\ UNCHANGED <<db, op, tgt, date, buf>>
    BY <1>10 DEF NextNumber, Goto
  <2>2. num' \in [Req -> Nat] /\ \A q \in Req \ {r} : num'[q] = num[q]
    BY <1>t, <2>1 DEF DTypes
  <2> QED BY <1>t, <2>1, <2>2, AdvanceInv DEF db, Inside
<1>11. CASE SetPeriodClosed(r)
  <2>1. /\ pc[r] = "setClosed" /\ pc' = [pc EXCEPT ![r] = "done"] /\ ReleaseAll(r)
        /\ UNCHANGED <<journal, lines, nextNumber, closing, acct, ctx>>
    BY <1>11 DEF SetPeriodClosed, Commit, Goto
  <2>2. DTypes'
    BY <2>1 DEF DTypes, ReleaseAll, DLabels, ctx, docVars, docDb, docCtx
  <2>3. LocksCompatible' /\ Frame(r) /\ pc'[r] = "done"
    BY <2>1, ReleaseCompatible DEF DTypes, Frame, ReleaseAll, ctx, docVars, docCtx
  <2>4. Own(r)'
    BY <2>3 DEF Own, OpFits, Knows, HoldsDoc, HoldsPay, HoldsSeq, Inside, Before, DInFlight
  <2> QED BY <2>1, <2>2, <2>3, <2>4, QuietInv DEF docVars, docDb
<1> QED
  BY <1>3, <1>4, <1>5, <1>6, <1>7, <1>8, <1>9, <1>10, <1>11

-----------------------------------------------------------------------------
(* Reading, calculating and locking. *)

\* The entry of a document or payment to void.
LEMMA LoadEntryInv ==
  ASSUME DInv, NEW r \in Req, LoadEntry(r)
  PROVE  DInv'
<1> USE DEF DInv
<1>1. pc[r] = "loadEntry" /\ DInFlight(r) /\ OpFits(r) /\ Knows(r)
  BY DEF LoadEntry, Own, DInFlight
<1>2. /\ op[r] \in {"voidDoc", "voidPay"} /\ tgt[r] \in Req /\ journal[tgt[r]].status # "none"
      /\ pos[r] = 1
  BY <1>1 DEF OpFits, Knows, Before
<1>3. CASE Rejected(r)
  BY <1>1, <1>3, FailInv
<1>4. CASE ~Rejected(r)
  <2>1. /\ date' = [date EXCEPT ![r] = journal[tgt[r]].date]
        /\ buf' = [buf EXCEPT ![r] = Swapped(lines[tgt[r]])]
        /\ pc' = [pc EXCEPT ![r] = "findPeriod"]
        /\ UNCHANGED <<db, held, op, tgt, acctId, num, docVars>>
    BY <1>4 DEF LoadEntry, Goto
  <2>2. journal[tgt[r]].date \in Periods /\ Swapped(lines[tgt[r]]) \in Lines
    BY <1>2, PreparedTypes DEF RowOK
  <2>3. DTypes'
    BY <2>1, <2>2 DEF DTypes, DLabels, Before, db, docVars, docDb, docCtx
  <2>4. LocksCompatible' /\ Frame(r)
    BY <2>1 DEF LocksCompatible, DTypes, Frame, docVars, docCtx
  <2>5. /\ pc'[r] = "findPeriod" /\ op'[r] = op[r] /\ tgt'[r] = tgt[r] /\ src'[r] = src[r]
        /\ date'[r] = journal[tgt[r]].date /\ buf'[r] = Swapped(lines[tgt[r]]) /\ pos'[r] = 1
        /\ UNCHANGED <<journal, lines, doc, pay, docSeq>>
    BY <1>2, <2>1 DEF DTypes, db, docVars, docDb, docCtx
  <2>6. OpFits(r)' /\ HoldsDoc(r)' /\ HoldsPay(r)' /\ HoldsSeq(r)'
    BY <1>2, <2>5 DEF OpFits, HoldsDoc, HoldsPay, HoldsSeq, Inside, PostOps, DocOps, PayOps
  <2>7. Knows(r)'
    BY <1>1, <1>2, <2>2, <2>5 DEF Knows, Swapped
  <2> QED BY <1>1, <2>3, <2>4, <2>5, <2>6, <2>7, QuietInv DEF Own
<1> QED BY <1>3, <1>4

\* DocumentPostingService.post calculates the totals and the lines.
LEMMA CalculateInv ==
  ASSUME DInv, NEW r \in Req, Calculate(r)
  PROVE  DInv'
<1> USE DEF DInv
<1>1. pc[r] = "calculate" /\ DInFlight(r) /\ OpFits(r) /\ Knows(r)
  BY DEF Calculate, Own, DInFlight
<1>2. op[r] = "postDoc" /\ pos[r] = 1
  BY <1>1 DEF OpFits, Before
<1>3. CASE Rejected(r)
  BY <1>1, <1>3, FailInv
<1>4. CASE ~Rejected(r)
  <2> DEFINE ls == calc[r].lines
             c == ComputeTotals(ls)
             v == CalculatedLines(Nature, ls, taxCode, Control, Accounts)
  <2>1. /\ Accepts(Nature, ls, taxCode)
        /\ calc' = [calc EXCEPT ![r] = c]
        /\ buf' = [buf EXCEPT ![r] = v]
        /\ pc' = [pc EXCEPT ![r] = "findPeriod"]
        /\ UNCHANGED <<db, held, op, tgt, date, acctId, num, docDb, src, pos, docNum>>
    BY <1>4 DEF Calculate, Goto
  <2>2. ls \in LineLists \cup {<<>>} /\ taxCode \in [DOMAIN TaxCodes -> TaxCodeRow]
    BY DEF DTypes, Calcs
  <2>3. c \in Calcs /\ v \in Lines
    BY <2>1, <2>2, ComputeType, CalculatedType
  <2> HIDE DEF c, v
  <2>4. DTypes'
    BY <2>1, <2>3 DEF DTypes, DLabels, Before, db, docDb
  <2>5. LocksCompatible' /\ Frame(r)
    BY <2>1 DEF LocksCompatible, DTypes, Frame
  <2>6. /\ pc'[r] = "findPeriod" /\ op'[r] = op[r] /\ src'[r] = src[r] /\ date'[r] = date[r] /\ pos'[r] = 1
        /\ UNCHANGED <<journal, lines, doc, pay, docSeq>>
    BY <1>2, <2>1 DEF DTypes, db, docDb
  <2>7. OpFits(r)' /\ HoldsDoc(r)' /\ HoldsPay(r)' /\ HoldsSeq(r)'
    BY <1>2, <2>6 DEF OpFits, HoldsDoc, HoldsPay, HoldsSeq, Inside, PostOps, DocOps
  <2>8. Knows(r)'
    BY <1>1, <1>2, <2>6 DEF Knows, DocOps, PayOps
  <2> QED BY <1>1, <2>4, <2>5, <2>6, <2>7, <2>8, QuietInv DEF Own
<1> QED BY <1>3, <1>4

\* The row locks of a document and of a payment.
LEMMA LockDocInv ==
  ASSUME DInv, NEW r \in Req, LockDoc(r)
  PROVE  DInv'
<1> USE DEF DInv
<1>1. pc[r] = "lockDoc" /\ DInFlight(r) /\ OpFits(r) /\ Knows(r)
  BY DEF LockDoc, Own, DInFlight
<1>2. op[r] \in DocOps /\ src[r] \in Req
  BY <1>1 DEF OpFits, Knows
<1>3. CASE RolledBack(r)
  BY <1>1, <1>3, FailInv
<1>4. CASE ~RolledBack(r)
  <2> DEFINE k == Exclusive("doc", src[r])
             l == IF op[r] = "postDoc" THEN "drawDoc" ELSE "lockYear"
  <2>1. /\ DocAllows(op[r], doc[src[r]]) /\ Acquire(r, k) /\ held' = [held EXCEPT ![r] = @ \cup {k}]
        /\ pc' = [pc EXCEPT ![r] = l]
        /\ UNCHANGED <<db, ctx, docVars>>
    BY <1>4 DEF LockDoc, Goto, Acquire
  <2>2. k \in DLocks
    BY <1>2 DEF DLocks, Exclusive
  <2>3. DTypes'
    BY <2>1, <2>2 DEF DTypes, DLabels, Inside, db, ctx, docVars, docDb, docCtx
  <2>4. LocksCompatible' /\ Frame(r)
    BY <2>1, AcquireCompatible DEF DTypes, Frame, ctx, docVars, docCtx
  <2>5. /\ pc'[r] = l /\ op'[r] = op[r] /\ tgt'[r] = tgt[r] /\ src'[r] = src[r] /\ date'[r] = date[r]
        /\ buf'[r] = buf[r] /\ k \in held'[r]
        /\ UNCHANGED <<journal, lines, doc, pay, docSeq>>
    BY <2>1 DEF DTypes, db, ctx, docVars, docDb, docCtx
  <2>6. OpFits(r)' /\ HoldsPay(r)' /\ HoldsSeq(r)'
    BY <1>2, <2>5 DEF OpFits, HoldsPay, HoldsSeq, Inside, Before, PostOps, DocOps, PayOps
  <2>7. HoldsDoc(r)'
    BY <2>1, <2>5 DEF HoldsDoc
  <2>8. Knows(r)'
    BY <1>1, <1>2, <2>5 DEF Knows, DocOps, PayOps, Swapped, DInFlight
  <2> QED BY <1>1, <2>3, <2>4, <2>5, <2>6, <2>7, <2>8, QuietInv DEF Own
<1> QED BY <1>3, <1>4

LEMMA LockPayInv ==
  ASSUME DInv, NEW r \in Req, LockPay(r)
  PROVE  DInv'
<1> USE DEF DInv
<1>1. pc[r] = "lockPay" /\ DInFlight(r) /\ OpFits(r) /\ Knows(r)
  BY DEF LockPay, Own, DInFlight
<1>2. op[r] \in PayOps /\ src[r] \in Req /\ pos[r] = 1 /\ pay[src[r]].status # "none"
  BY <1>1 DEF OpFits, Knows, Before
<1>3. CASE RolledBack(r)
  BY <1>1, <1>3, FailInv
<1>4. CASE ~RolledBack(r)
  <2> DEFINE k == Exclusive("pay", src[r])
             l == IF op[r] = "postPay" THEN "settle" ELSE "unwind"
  <2>1. /\ Is(pay[src[r]], IF op[r] = "postPay" THEN "DRAFT" ELSE "POSTED")
        /\ Acquire(r, k) /\ held' = [held EXCEPT ![r] = @ \cup {k}]
        /\ pc' = [pc EXCEPT ![r] = l]
        /\ UNCHANGED <<db, ctx, docVars>>
    BY <1>4 DEF LockPay, Goto, Acquire
  <2>2. k \in DLocks
    BY <1>2 DEF DLocks, Exclusive
  <2>3. DTypes'
    BY <2>1, <2>2 DEF DTypes, DLabels, db, ctx, docVars, docDb, docCtx
  <2>4. LocksCompatible' /\ Frame(r)
    BY <2>1, AcquireCompatible DEF DTypes, Frame, ctx, docVars, docCtx
  <2>5. /\ pc'[r] = l /\ op'[r] = op[r] /\ tgt'[r] = tgt[r] /\ src'[r] = src[r] /\ date'[r] = date[r]
        /\ buf'[r] = buf[r] /\ k \in held'[r] /\ pos'[r] = 1
        /\ UNCHANGED <<journal, lines, doc, pay, docSeq>>
    BY <1>2, <2>1 DEF DTypes, db, ctx, docVars, docDb, docCtx
  <2>6. OpFits(r)' /\ HoldsDoc(r)' /\ HoldsSeq(r)'
    BY <1>2, <2>5 DEF OpFits, HoldsDoc, HoldsSeq, Inside, Before, PostOps, DocOps, PayOps
  <2>7. 1 <= Len(Alloc(r))
    <3>1. Alloc(r) \in Allocs
      BY <1>2 DEF RowOK, Alloc
    <3>2. Alloc(r) \in Seq([doc: Req, amount: Nat \ {0}]) /\ Alloc(r) # <<>>
      BY <3>1 DEF Allocs
    <3>3. Len(Alloc(r)) \in Nat /\ Len(Alloc(r)) # 0
      BY <3>2, EmptySeq, LenProperties
    <3> QED BY <3>3
  <2>8. HoldsPay(r)'
    BY <1>2, <2>1, <2>5, <2>7 DEF HoldsPay, Inside, Alloc
  <2>9. Knows(r)'
    BY <1>1, <1>2, <2>5 DEF Knows, DocOps, PayOps, Swapped, DInFlight, Alloc
  <2> QED BY <1>1, <2>3, <2>4, <2>5, <2>6, <2>8, <2>9, QuietInv DEF Own
<1> QED BY <1>3, <1>4

\* DocumentNumberService.next locks the counter and reads it.
LEMMA DrawDocInv ==
  ASSUME DInv, NEW r \in Req, DrawDoc(r)
  PROVE  DInv'
<1> USE DEF DInv
<1>1. pc[r] = "drawDoc" /\ DInFlight(r) /\ OpFits(r) /\ Knows(r) /\ HoldsDoc(r) /\ HoldsPay(r)
  BY DEF DrawDoc, Own, DInFlight
<1>2. op[r] \in {"postDoc", "postPay"} /\ date[r] \in Periods
  BY <1>1 DEF OpFits, Knows
<1>3. TypeOf(r) \in Types /\ Year(r) \in Years
  BY <1>2, LedgerAssumption DEF TypeOf, Types, Year
<1> DEFINE k == Exclusive("docSeq", <<TypeOf(r), Year(r)>>)
<1>4. /\ Acquire(r, k) /\ held' = [held EXCEPT ![r] = @ \cup {k}]
      /\ pc' = [pc EXCEPT ![r] = "lockYear"]
      /\ docNum' = [docNum EXCEPT ![r] = docSeq[TypeOf(r)][Year(r)]]
      /\ UNCHANGED <<db, ctx, docDb, src, calc, pos>>
  BY DEF DrawDoc, Goto, Acquire
<1>5. k \in DLocks /\ docSeq[TypeOf(r)][Year(r)] \in Nat
  BY <1>3 DEF DLocks, Exclusive, DTypes
<1>6. DTypes'
  BY <1>4, <1>5 DEF DTypes, DLabels, Inside, db, ctx, docDb
<1>7. LocksCompatible' /\ Frame(r)
  BY <1>4, AcquireCompatible DEF DTypes, Frame, ctx
<1>8. /\ pc'[r] = "lockYear" /\ op'[r] = op[r] /\ tgt'[r] = tgt[r] /\ src'[r] = src[r] /\ date'[r] = date[r]
      /\ buf'[r] = buf[r] /\ k \in held'[r] /\ pos'[r] = pos[r] /\ held[r] \subseteq held'[r]
      /\ docNum'[r] = docSeq[TypeOf(r)][Year(r)]
      /\ UNCHANGED <<journal, lines, doc, pay, docSeq>>
  BY <1>4 DEF DTypes, db, ctx, docDb
<1>9. Year(r)' = Year(r) /\ TypeOf(r)' = TypeOf(r) /\ Alloc(r)' = Alloc(r)
  BY <1>8 DEF Year, TypeOf, Alloc
<1>10. OpFits(r)' /\ HoldsSeq(r)'
  BY <1>2, <1>8, <1>9 DEF OpFits, HoldsSeq, Before, PostOps, DocOps, PayOps
<1>11. HoldsDoc(r)'
  BY <1>1, <1>8 DEF HoldsDoc, Inside
<1>12. HoldsPay(r)'
  BY <1>1, <1>8, <1>9 DEF HoldsPay, Inside
<1>13. Knows(r)'
  BY <1>1, <1>2, <1>8, <1>9 DEF Knows, DInFlight
<1> QED BY <1>1, <1>6, <1>7, <1>8, <1>10, <1>11, <1>12, <1>13, QuietInv DEF Own

\* The allocation a payment is at.
LEMMA CurrentAlloc ==
  ASSUME DInv, NEW r \in Req, pc[r] \in {"settle", "unwind"}
  PROVE  /\ Alloc(r) \in Allocs /\ Len(Alloc(r)) \in Nat /\ DOMAIN Alloc(r) = 1 .. Len(Alloc(r))
         /\ pos[r] \in 1 .. Len(Alloc(r)) /\ pos[r] - 1 \in Nat
         /\ Alloc(r)[pos[r]].doc \in Req /\ Alloc(r)[pos[r]].amount \in Nat \ {0}
         /\ op[r] = IF pc[r] = "settle" THEN "postPay" ELSE "voidPay"
<1> USE DEF DInv
<1>1. DInFlight(r) /\ OpFits(r) /\ Knows(r) /\ HoldsPay(r)
  BY DEF Own, DInFlight
<1>2. op[r] = IF pc[r] = "settle" THEN "postPay" ELSE "voidPay"
  BY <1>1 DEF OpFits
<1>3. Alloc(r) \in Allocs /\ pos[r] <= Len(Alloc(r)) /\ pos[r] \in Nat \ {0}
  BY <1>1, <1>2 DEF Knows, RowOK, Alloc, HoldsPay, PayOps, DTypes
<1> DEFINE al == Alloc(r)
<1>4. Len(al) \in Nat /\ DOMAIN al = 1 .. Len(al)
  BY <1>3, AllocTypes
<1>5. pos[r] \in DOMAIN al /\ pos[r] - 1 \in Nat
  BY <1>3, <1>4
<1>6. AllocAmounts(al)[pos[r]] \in Nat \ {0} /\ al[pos[r]].doc \in Req
  <2>1. al \in Allocs \cup {<<>>}
    BY <1>3
  <2>2. \A i \in DOMAIN al : AllocAmounts(al)[i] \in Nat \ {0} /\ al[i].doc \in Req
    <3> HIDE DEF al
    <3> QED BY <2>1, AllocTypes
  <2> QED BY <1>5, <2>2
<1> QED BY <1>2, <1>3, <1>4, <1>5, <1>6 DEF AllocAmounts

\* One more allocation fits when the check under the lock of its document says so: it
\* counts what the transaction has already moved there.
LEMMA SettleFits ==
  ASSUME DInv, NEW r \in Req, pc[r] = "settle",
         LET a == Alloc(r)[pos[r]]
             d == doc[a.doc]
         IN Is(d, "POSTED") /\ d.paid + MovedHere(r) + a.amount <= d.calc.total,
         NEW i \in 1 .. pos[r]
  PROVE  LET d == Alloc(r)[i].doc IN
           /\ doc[d].status = "POSTED"
           /\ doc[d].paid + AllocatedTo(SubSeq(Alloc(r), 1, pos[r]), d) <= doc[d].calc.total
<1> USE DEF DInv
<1> DEFINE al == Alloc(r)
           n == pos[r] - 1
           d == al[i].doc
<1>1. /\ al \in Allocs /\ Len(al) \in Nat /\ n \in Nat /\ n + 1 <= Len(al) /\ n + 1 = pos[r]
      /\ al[n + 1].doc \in Req /\ al[n + 1].amount \in Nat
      /\ op[r] = "postPay" /\ i \in 1 .. Len(al)
  BY CurrentAlloc
<1>2. d \in Req
  <2> HIDE DEF al
  <2> QED BY <1>1, AllocTypes
<1>3. doc[d].paid \in Int /\ doc[d].calc.total \in Nat
  BY <1>2 DEF DTypes, DocRow, Calcs
<1>4. SubSeq(al, 1, n) \in Allocs \cup {<<>>}
  <2> HIDE DEF al, n
  <2> QED BY <1>1, AllocPrefix
<1>5. AllocatedTo(SubSeq(al, 1, n), d) \in Nat
  <2> HIDE DEF al, n, d
  <2> QED BY <1>4, AllocTypes
<1>6. AllocatedTo(SubSeq(al, 1, n + 1), d)
        = AllocatedTo(SubSeq(al, 1, n), d) + (IF al[n + 1].doc = d THEN al[n + 1].amount ELSE 0)
  <2> HIDE DEF al, n, d
  <2> QED BY <1>1, AllocNext
<1>7. CASE al[n + 1].doc = d
  <2>1. /\ doc[d].status = "POSTED"
        /\ doc[d].paid + AllocatedTo(SubSeq(al, 1, n), d) + al[n + 1].amount <= doc[d].calc.total
    BY <1>1, <1>7 DEF Is, MovedHere
  <2> HIDE DEF al, n, d
  <2>2. doc[d].paid + AllocatedTo(SubSeq(al, 1, n + 1), d) <= doc[d].calc.total
    BY <1>1, <1>3, <1>5, <1>6, <1>7, <2>1
  <2> QED BY <1>1, <2>1, <2>2 DEF al, d
<1>8. CASE al[n + 1].doc # d
  <2>1. i \in 1 .. (pos[r] - 1)
    BY <1>1, <1>8
  <2>2. HoldsPay(r)
    BY DEF Own
  <2>3. /\ doc[d].status = "POSTED"
        /\ doc[d].paid + AllocatedTo(SubSeq(al, 1, n), d) <= doc[d].calc.total
    BY <1>1, <2>1, <2>2 DEF HoldsPay, PayOps
  <2> HIDE DEF al, n, d
  <2>4. doc[d].paid + AllocatedTo(SubSeq(al, 1, n + 1), d) <= doc[d].calc.total
    BY <1>3, <1>5, <1>6, <1>8, <2>3
  <2> QED BY <1>1, <2>3, <2>4 DEF al, d
<1> QED BY <1>7, <1>8

LEMMA NextAllocInv ==
  ASSUME DInv, NEW r \in Req, pc[r] \in {"settle", "unwind"},
         NextAlloc(r, IF pc[r] = "settle" THEN "drawDoc" ELSE "lockYear"),
         pc[r] = "settle" =>
           LET a == Alloc(r)[pos[r]]
               d == doc[a.doc]
           IN Is(d, "POSTED") /\ d.paid + MovedHere(r) + a.amount <= d.calc.total
  PROVE  DInv'
<1> USE DEF DInv
<1>1. DInFlight(r) /\ Knows(r) /\ HoldsPay(r)
  BY DEF Own, DInFlight
<1> DEFINE k == Exclusive("doc", Alloc(r)[pos[r]].doc)
           l == IF pos[r] = Len(Alloc(r))
                  THEN IF pc[r] = "settle" THEN "drawDoc" ELSE "lockYear"
                  ELSE pc[r]
<1>2. /\ Alloc(r) \in Allocs /\ Len(Alloc(r)) \in Nat /\ pos[r] \in 1 .. Len(Alloc(r))
      /\ Alloc(r)[pos[r]].doc \in Req
      /\ op[r] = IF pc[r] = "settle" THEN "postPay" ELSE "voidPay"
  BY CurrentAlloc
<1>3. /\ Acquire(r, k) /\ held' = [held EXCEPT ![r] = @ \cup {k}]
      /\ pos' = [pos EXCEPT ![r] = @ + 1] /\ pc' = [pc EXCEPT ![r] = l]
      /\ UNCHANGED <<db, ctx, docDb, src, calc, docNum>>
  BY DEF NextAlloc, Goto, Acquire
<1>4. k \in DLocks
  BY <1>2 DEF DLocks, Exclusive
<1>5. DTypes'
  BY <1>3, <1>4 DEF DTypes, DLabels, Inside, db, ctx, docDb
<1>6. LocksCompatible' /\ Frame(r)
  BY <1>3, AcquireCompatible DEF DTypes, Frame, ctx
<1>7. /\ pc'[r] = l /\ op'[r] = op[r] /\ tgt'[r] = tgt[r] /\ src'[r] = src[r] /\ date'[r] = date[r]
      /\ buf'[r] = buf[r] /\ held'[r] = held[r] \cup {k} /\ pos'[r] = pos[r] + 1
      /\ UNCHANGED <<journal, lines, doc, pay, docSeq>>
  BY <1>3 DEF DTypes, db, ctx, docDb
<1>8. Alloc(r)' = Alloc(r)
  BY <1>7 DEF Alloc
<1>9. OpFits(r)' /\ HoldsDoc(r)' /\ HoldsSeq(r)'
  BY <1>2, <1>7 DEF OpFits, HoldsDoc, HoldsSeq, Inside, Before, PostOps, DocOps, PayOps
<1>10. Knows(r)'
  BY <1>1, <1>2, <1>7, <1>8 DEF Knows, DocOps, PayOps, Swapped, DInFlight
<1>11. HoldsPay(r)'
  <2>1. /\ Exclusive("pay", src[r]) \in held'[r]
        /\ Is(pay[src[r]], IF op[r] = "postPay" THEN "DRAFT" ELSE "POSTED")
        /\ pc'[r] \in {"settle", "unwind"} => pos[r] + 1 <= Len(Alloc(r))
        /\ pc'[r] \in Inside => pos[r] + 1 = Len(Alloc(r)) + 1
    BY <1>1, <1>2, <1>7 DEF HoldsPay, PayOps, Inside
  <2>2. ASSUME NEW i \in 1 .. pos[r]
        PROVE  Exclusive("doc", Alloc(r)[i].doc) \in held'[r]
    <3>1. i = pos[r] \/ i \in 1 .. (pos[r] - 1)
      BY <1>2
    <3> QED BY <1>1, <1>2, <1>7, <3>1 DEF HoldsPay, PayOps
  <2>3. ASSUME NEW i \in 1 .. pos[r], op[r] = "postPay"
        PROVE  LET d == Alloc(r)[i].doc IN
                 /\ doc[d].status = "POSTED"
                 /\ doc[d].paid + AllocatedTo(SubSeq(Alloc(r), 1, pos[r]), d) <= doc[d].calc.total
    <3>1. pc[r] = "settle"
      BY <1>2, <2>3
    <3> QED BY <3>1, SettleFits
  <2>4. pos'[r] - 1 = pos[r]
    BY <1>2, <1>7
  <2> QED BY <1>7, <1>8, <2>1, <2>2, <2>3, <2>4 DEF HoldsPay
<1> QED BY <1>1, <1>5, <1>6, <1>7, <1>9, <1>10, <1>11, QuietInv DEF Own, DInFlight

\* settleInTx and unwindInTx.
LEMMA SettleInv ==
  ASSUME DInv, NEW r \in Req, Settle(r) \/ Unwind(r)
  PROVE  DInv'
<1>1. pc[r] \in {"settle", "unwind"}
  BY DEF Settle, Unwind
<1>2. CASE RolledBack(r)
  BY <1>1, <1>2, FailInv
<1>3. CASE Settle(r) /\ ~RolledBack(r)
  <2>1. /\ pc[r] = "settle" /\ NextAlloc(r, "drawDoc")
        /\ Is(doc[Alloc(r)[pos[r]].doc], "POSTED")
        /\ doc[Alloc(r)[pos[r]].doc].paid + MovedHere(r) + Alloc(r)[pos[r]].amount
             <= doc[Alloc(r)[pos[r]].doc].calc.total
    BY <1>3 DEF Settle
  <2> QED BY <2>1, NextAllocInv
<1>4. CASE Unwind(r) /\ ~RolledBack(r)
  <2>1. pc[r] = "unwind" /\ NextAlloc(r, "lockYear")
    BY <1>4 DEF Unwind
  <2> QED BY <2>1, NextAllocInv
<1> QED BY <1>2, <1>3, <1>4

-----------------------------------------------------------------------------
(* Steps that write. *)

\* Rows keep their type when some of their fields are written.
EditedRow(row, p, c) == [row EXCEPT !.date = p, !.calc = c]
PostedDocRow(row, c, n, e) ==
  [row EXCEPT !.status = "POSTED", !.calc = c, !.number = n, !.entry = e]
PostedPayRow(row, n, e) == [row EXCEPT !.status = "POSTED", !.number = n, !.entry = e]

LEMMA DocRowEdited ==
  ASSUME NEW row \in DocRow, NEW p \in Periods, NEW c \in Calcs
  PROVE  /\ EditedRow(row, p, c) \in DocRow
         /\ EditedRow(row, p, c).status = row.status /\ EditedRow(row, p, c).entry = row.entry
         /\ EditedRow(row, p, c).date = p /\ EditedRow(row, p, c).deletedAt = row.deletedAt
         /\ EditedRow(row, p, c).paid = row.paid /\ EditedRow(row, p, c).number = row.number
<1> DEFINE w == [row EXCEPT !.date = p]
<1>1. EditedRow(row, p, c) = [w EXCEPT !.calc = c]
  BY DEF EditedRow
<1>2. /\ w \in DocRow /\ w.status = row.status /\ w.entry = row.entry /\ w.date = p
      /\ w.deletedAt = row.deletedAt /\ w.paid = row.paid /\ w.number = row.number
  BY DEF DocRow
<1> HIDE DEF w
<1> QED BY <1>1, <1>2 DEF DocRow

LEMMA DocRowPosted ==
  ASSUME NEW row \in DocRow, NEW c \in Calcs, NEW n \in Nat, NEW e \in Req
  PROVE  LET x == PostedDocRow(row, c, n, e) IN
           /\ x \in DocRow
           /\ x.status = "POSTED" /\ x.calc = c /\ x.number = n /\ x.entry = e
           /\ x.date = row.date /\ x.deletedAt = row.deletedAt /\ x.paid = row.paid
<1> DEFINE w == [row EXCEPT !.status = "POSTED"]
           u == [w EXCEPT !.calc = c]
           v == [u EXCEPT !.number = n]
<1>1. PostedDocRow(row, c, n, e) = [v EXCEPT !.entry = e]
  BY DEF PostedDocRow
<1>2. /\ w \in DocRow /\ w.status = "POSTED"
      /\ w.date = row.date /\ w.deletedAt = row.deletedAt /\ w.paid = row.paid
  BY DEF DocRow, Statuses
<1> HIDE DEF w
<1>3. /\ u \in DocRow /\ u.status = "POSTED" /\ u.calc = c
      /\ u.date = row.date /\ u.deletedAt = row.deletedAt /\ u.paid = row.paid
  BY <1>2 DEF DocRow
<1> HIDE DEF u
<1>4. /\ v \in DocRow /\ v.status = "POSTED" /\ v.calc = c /\ v.number = n
      /\ v.date = row.date /\ v.deletedAt = row.deletedAt /\ v.paid = row.paid
  BY <1>3 DEF DocRow
<1> HIDE DEF v
<1> QED BY <1>1, <1>4 DEF DocRow

LEMMA DocRowMoved ==
  ASSUME NEW row \in DocRow, NEW x \in Int, NEW s \in Statuses
  PROVE  [row EXCEPT !.paid = x] \in DocRow /\ [row EXCEPT !.status = s] \in DocRow
BY DEF DocRow

LEMMA PayRowPosted ==
  ASSUME NEW row \in PayRow, NEW n \in Nat, NEW e \in Req
  PROVE  LET x == PostedPayRow(row, n, e) IN
           /\ x \in PayRow
           /\ x.status = "POSTED" /\ x.number = n /\ x.entry = e
           /\ x.date = row.date /\ x.deletedAt = row.deletedAt /\ x.alloc = row.alloc
<1> DEFINE w == [row EXCEPT !.status = "POSTED"]
           v == [w EXCEPT !.number = n]
<1>1. PostedPayRow(row, n, e) = [v EXCEPT !.entry = e]
  BY DEF PostedPayRow
<1>2. /\ w \in PayRow /\ w.status = "POSTED"
      /\ w.date = row.date /\ w.deletedAt = row.deletedAt /\ w.alloc = row.alloc
  BY DEF PayRow, Statuses
<1> HIDE DEF w
<1>3. /\ v \in PayRow /\ v.status = "POSTED" /\ v.number = n
      /\ v.date = row.date /\ v.deletedAt = row.deletedAt /\ v.alloc = row.alloc
  BY <1>2 DEF PayRow
<1> HIDE DEF v
<1> QED BY <1>1, <1>3 DEF PayRow

\* The rows of a new draft.
DraftDoc(p, c) == [NoDoc EXCEPT !.status = "DRAFT", !.date = p, !.calc = c]
DraftPay(p, al) == [NoPay EXCEPT !.status = "DRAFT", !.date = p, !.alloc = al]

LEMMA NewDocType ==
  ASSUME NEW p \in Periods, NEW c \in Calcs
  PROVE  /\ DraftDoc(p, c) \in DocRow
         /\ DraftDoc(p, c).status = "DRAFT" /\ DraftDoc(p, c).entry = Null
         /\ DraftDoc(p, c).date = p /\ DraftDoc(p, c).paid = 0
<1> DEFINE w == [NoDoc EXCEPT !.status = "DRAFT"]
           u == [w EXCEPT !.date = p]
<1>1. DraftDoc(p, c) = [u EXCEPT !.calc = c]
  BY DEF DraftDoc
<1>2. NoDoc \in DocRow /\ NoDoc.entry = Null /\ NoDoc.paid = 0
  <2>1. NoCalc \in Calcs
    BY DEF NoCalc, Calcs
  <2> QED BY <2>1 DEF NoDoc, DocRow, Statuses
<1>3. w \in DocRow /\ w.status = "DRAFT" /\ w.entry = Null /\ w.paid = 0
  BY <1>2 DEF DocRow, Statuses
<1> HIDE DEF w
<1>4. u \in DocRow /\ u.status = "DRAFT" /\ u.entry = Null /\ u.date = p /\ u.paid = 0
  BY <1>3 DEF DocRow
<1> HIDE DEF u
<1> QED BY <1>1, <1>4 DEF DocRow

LEMMA NewPayType ==
  ASSUME NEW p \in Periods, NEW al \in Allocs
  PROVE  /\ DraftPay(p, al) \in PayRow
         /\ DraftPay(p, al).status = "DRAFT" /\ DraftPay(p, al).entry = Null
         /\ DraftPay(p, al).date = p /\ DraftPay(p, al).alloc = al
<1> DEFINE w == [NoPay EXCEPT !.status = "DRAFT"]
           u == [w EXCEPT !.date = p]
<1>1. DraftPay(p, al) = [u EXCEPT !.alloc = al]
  BY DEF DraftPay
<1>2. NoPay \in PayRow /\ NoPay.entry = Null
  BY DEF NoPay, PayRow, Statuses
<1>3. w \in PayRow /\ w.status = "DRAFT" /\ w.entry = Null
  BY <1>2 DEF PayRow, Statuses
<1> HIDE DEF w
<1>4. u \in PayRow /\ u.status = "DRAFT" /\ u.entry = Null /\ u.date = p
  BY <1>3 DEF PayRow
<1> HIDE DEF u
<1> QED BY <1>1, <1>4 DEF PayRow

\* The last step of a request: it writes and is done.
LEMMA DoneInv ==
  ASSUME DInv, NEW r \in Req, pc[r] # "done", pc' = [pc EXCEPT ![r] = "done"],
         held' = held \/ ReleaseAll(r), UNCHANGED <<ctx, docCtx, taxCode, partner>>,
         journal' \in [Req -> EntryRow], lines' \in [Req -> Lines], nextNumber' \in [Years -> Nat],
         doc' \in [Req -> DocRow], pay' \in [Req -> PayRow],
         docSeq' \in [Types -> [Years -> Nat \ {0}]],
         RowsPersist, Protected(r), \A d \in Req : RowOK(d)',
         \A d \in Req \ {r} : /\ journal[d].status = "none" => journal'[d].status = "none"
                              /\ doc[d].status = "none" => doc'[d].status = "none"
                              /\ pay[d].status = "none" => pay'[d].status = "none"
  PROVE  DInv'
<1> USE DEF DInv
<1>1. DTypes'
  BY DEF DTypes, ReleaseAll, DLabels, ctx, docCtx
<1>2. LocksCompatible'
  BY ReleaseCompatible DEF LocksCompatible
<1>3. Frame(r) /\ pc'[r] = "done"
  BY DEF DTypes, Frame, ReleaseAll, ctx, docCtx
<1>4. Own(r)'
  BY <1>3 DEF Own, OpFits, Knows, HoldsDoc, HoldsPay, HoldsSeq, Inside, Before, DInFlight
<1>5. ASSUME NEW q \in Req PROVE Own(q)'
  BY <1>3, <1>4, OthersUndisturbed DEF Guarantee
<1>6. ASSUME NEW d \in Req PROVE Fresh(d)'
  BY <1>3 DEF Fresh, Frame
<1> QED BY <1>1, <1>2, <1>5, <1>6

\* A step that writes one document, draft or not, and no entry.
LEMMA DocEditInv ==
  ASSUME DInv, NEW r \in Req, pc[r] # "done", pc' = [pc EXCEPT ![r] = "done"],
         UNCHANGED <<db, ctx, held, pay, docSeq, taxCode, partner, docCtx>>,
         NEW d \in Req, NEW row \in DocRow, doc' = [doc EXCEPT ![d] = row],
         doc[d].status # "none" => CanLock(r, Exclusive("doc", d)) /\ row.status = doc[d].status,
         doc[d].status = "none" => d = r /\ row.status = "DRAFT",
         row.entry = doc[d].entry, row.date \in Periods,
         row.entry # Null => row.deletedAt = Null
  PROVE  DInv'
<1> USE DEF DInv
<1>1. /\ doc'[d] = row /\ \A e \in Req \ {d} : doc'[e] = doc[e]
      /\ UNCHANGED <<journal, lines, nextNumber, pay, docSeq>>
  BY DEF DTypes, db
<1>2. RowsPersist /\ Protected(r)
  BY <1>1 DEF RowsPersist, Protected
<1>3. ASSUME NEW e \in Req PROVE RowOK(e)'
  <2>1. CASE e = d
    BY <1>1, <2>1 DEF RowOK
  <2>2. CASE e # d
    BY <1>1, <2>2 DEF RowOK
  <2> QED BY <2>1, <2>2
<1>4. doc' \in [Req -> DocRow]
  BY DEF DTypes
<1> QED BY <1>1, <1>2, <1>3, <1>4, DoneInv DEF DTypes

\* The same for a payment.
LEMMA PayEditInv ==
  ASSUME DInv, NEW r \in Req, pc[r] # "done", pc' = [pc EXCEPT ![r] = "done"],
         UNCHANGED <<db, ctx, held, doc, docSeq, taxCode, partner, docCtx>>,
         NEW d \in Req, NEW row \in PayRow, pay' = [pay EXCEPT ![d] = row],
         pay[d].status # "none" =>
           CanLock(r, Exclusive("pay", d)) /\ row.status = pay[d].status /\ row.alloc = pay[d].alloc,
         pay[d].status = "none" => d = r /\ row.status = "DRAFT",
         row.entry = pay[d].entry, row.date \in Periods, row.alloc \in Allocs,
         row.entry # Null => row.deletedAt = Null
  PROVE  DInv'
<1> USE DEF DInv
<1>1. /\ pay'[d] = row /\ \A e \in Req \ {d} : pay'[e] = pay[e]
      /\ UNCHANGED <<journal, lines, nextNumber, doc, docSeq>>
  BY DEF DTypes, db
<1>2. RowsPersist /\ Protected(r)
  BY <1>1 DEF RowsPersist, Protected
<1>3. ASSUME NEW e \in Req PROVE RowOK(e)'
  <2>1. CASE e = d
    BY <1>1, <2>1 DEF RowOK
  <2>2. CASE e # d
    BY <1>1, <2>2 DEF RowOK
  <2> QED BY <2>1, <2>2
<1>4. pay' \in [Req -> PayRow]
  BY DEF DTypes
<1> QED BY <1>1, <1>2, <1>3, <1>4, DoneInv DEF DTypes

\* Drafts: one insert or one update.
LEMMA CreateDocInv ==
  ASSUME DInv, NEW r \in Req, CreateDoc(r)
  PROVE  DInv'
<1> USE DEF DInv
<1>1. \E ls \in LineLists, p \in Periods :
        /\ Arrives(r, "createDoc")
        /\ \/ /\ Accepts(Nature, ls, taxCode)
              /\ doc' = [doc EXCEPT ![r] = DraftDoc(p, ComputeTotals(ls))]
              /\ UNCHANGED pay
              /\ Finished(r)
           \/ Rejected(r)
  BY Zenon DEF CreateDoc, DraftDoc
<1>2. PICK ls \in LineLists, p \in Periods :
        /\ Arrives(r, "createDoc")
        /\ \/ /\ Accepts(Nature, ls, taxCode)
              /\ doc' = [doc EXCEPT ![r] = DraftDoc(p, ComputeTotals(ls))]
              /\ UNCHANGED pay
              /\ Finished(r)
           \/ Rejected(r)
  BY <1>1
<1>3. pc[r] = "start" /\ doc[r].status = "none" /\ doc[r].entry = Null
  BY <1>2 DEF Arrives, Fresh, RowOK
<1>4. CASE Rejected(r)
  BY <1>3, <1>4, FailInv
<1>5. CASE ~Rejected(r)
  <2> DEFINE row == DraftDoc(p, ComputeTotals(ls))
  <2>1. /\ Accepts(Nature, ls, taxCode) /\ doc' = [doc EXCEPT ![r] = row]
        /\ UNCHANGED pay /\ Finished(r)
    BY <1>2, <1>5
  <2>2. row \in DocRow /\ row.status = "DRAFT" /\ row.entry = Null /\ row.date = p
    BY <2>1, ComputeType, NewDocType
  <2>3. /\ pc' = [pc EXCEPT ![r] = "done"]
        /\ UNCHANGED <<db, ctx, held, pay, docSeq, taxCode, partner, docCtx>>
    BY <2>1 DEF Finished, Goto
  <2> HIDE DEF row
  <2> QED BY <1>3, <2>1, <2>2, <2>3, DocEditInv
<1> QED BY <1>4, <1>5

LEMMA CreatePayInv ==
  ASSUME DInv, NEW r \in Req, CreatePay(r)
  PROVE  DInv'
<1> USE DEF DInv
<1>1. \E al \in AllocLists, p \in Periods :
        /\ Arrives(r, "createPay")
        /\ \/ /\ pay' = [pay EXCEPT ![r] = DraftPay(p, al)]
              /\ UNCHANGED doc
              /\ Finished(r)
           \/ Rejected(r)
  BY Zenon DEF CreatePay, DraftPay
<1>2. PICK al \in AllocLists, p \in Periods :
        /\ Arrives(r, "createPay")
        /\ \/ /\ pay' = [pay EXCEPT ![r] = DraftPay(p, al)]
              /\ UNCHANGED doc
              /\ Finished(r)
           \/ Rejected(r)
  BY <1>1
<1>3. pc[r] = "start" /\ pay[r].status = "none" /\ pay[r].entry = Null
  BY <1>2 DEF Arrives, Fresh, RowOK
<1>4. CASE Rejected(r)
  BY <1>3, <1>4, FailInv
<1>5. CASE ~Rejected(r)
  <2> DEFINE row == DraftPay(p, al)
  <2>1. pay' = [pay EXCEPT ![r] = row] /\ UNCHANGED doc /\ Finished(r)
    BY <1>2, <1>5
  <2>2. al \in Allocs
    BY DocumentsAssumption
  <2>3. row \in PayRow /\ row.status = "DRAFT" /\ row.entry = Null /\ row.date = p /\ row.alloc = al
    BY <2>2, NewPayType
  <2>4. /\ pc' = [pc EXCEPT ![r] = "done"]
        /\ UNCHANGED <<db, ctx, held, doc, docSeq, taxCode, partner, docCtx>>
    BY <2>1 DEF Finished, Goto
  <2> HIDE DEF row
  <2> QED BY <1>3, <2>1, <2>2, <2>3, <2>4, PayEditInv
<1> QED BY <1>4, <1>5

LEMMA DeleteInv ==
  ASSUME DInv, NEW r \in Req, DeleteDoc(r) \/ DeletePay(r)
  PROVE  DInv'
<1> USE DEF DInv
<1>1. CASE DeleteDoc(r)
  <2>1. PICK d \in Req :
          /\ Arrives(r, "deleteDoc")
          /\ doc[d].status # "none"
          /\ CanLock(r, Exclusive("doc", d))
          /\ IF Is(doc[d], "DRAFT")
               THEN /\ doc' = [doc EXCEPT ![d].deletedAt = "set"]
                    /\ UNCHANGED pay
                    /\ Finished(r)
               ELSE Rejected(r)
    BY <1>1 DEF DeleteDoc
  <2>2. pc[r] = "start"
    BY <2>1 DEF Arrives
  <2>3. CASE Rejected(r)
    BY <2>2, <2>3, FailInv
  <2>4. CASE ~Rejected(r)
    <3> DEFINE row == [doc[d] EXCEPT !.deletedAt = "set"]
    <3>1. Is(doc[d], "DRAFT") /\ doc' = [doc EXCEPT ![d] = row] /\ UNCHANGED pay /\ Finished(r)
      BY <2>1, <2>4
    <3>2. doc[d] \in DocRow /\ row \in DocRow
      <4>1. doc[d] \in DocRow
        BY DEF DTypes
      <4> QED BY <4>1 DEF DocRow
    <3>3. /\ row.status = doc[d].status /\ row.entry = doc[d].entry /\ row.date \in Periods
          /\ doc[d].entry = Null
      BY <2>1, <3>1, <3>2 DEF Is, RowOK, DocRow
    <3>4. /\ pc' = [pc EXCEPT ![r] = "done"]
          /\ UNCHANGED <<db, ctx, held, pay, docSeq, taxCode, partner, docCtx>>
      BY <3>1 DEF Finished, Goto
    <3> HIDE DEF row
    <3> QED BY <2>1, <2>2, <3>1, <3>2, <3>3, <3>4, DocEditInv
  <2> QED BY <2>3, <2>4
<1>2. CASE DeletePay(r)
  <2>1. PICK d \in Req :
          /\ Arrives(r, "deletePay")
          /\ pay[d].status # "none"
          /\ CanLock(r, Exclusive("pay", d))
          /\ IF Is(pay[d], "DRAFT")
               THEN /\ pay' = [pay EXCEPT ![d].deletedAt = "set"]
                    /\ UNCHANGED doc
                    /\ Finished(r)
               ELSE Rejected(r)
    BY <1>2 DEF DeletePay
  <2>2. pc[r] = "start"
    BY <2>1 DEF Arrives
  <2>3. CASE Rejected(r)
    BY <2>2, <2>3, FailInv
  <2>4. CASE ~Rejected(r)
    <3> DEFINE row == [pay[d] EXCEPT !.deletedAt = "set"]
    <3>1. Is(pay[d], "DRAFT") /\ pay' = [pay EXCEPT ![d] = row] /\ UNCHANGED doc /\ Finished(r)
      BY <2>1, <2>4
    <3>2. pay[d] \in PayRow /\ row \in PayRow
      <4>1. pay[d] \in PayRow
        BY DEF DTypes
      <4> QED BY <4>1 DEF PayRow
    <3>3. /\ row.status = pay[d].status /\ row.entry = pay[d].entry /\ row.date \in Periods
          /\ row.alloc = pay[d].alloc /\ row.alloc \in Allocs /\ pay[d].entry = Null
      BY <2>1, <3>1, <3>2 DEF Is, RowOK, PayRow
    <3>4. /\ pc' = [pc EXCEPT ![r] = "done"]
          /\ UNCHANGED <<db, ctx, held, doc, docSeq, taxCode, partner, docCtx>>
      BY <3>1 DEF Finished, Goto
    <3> HIDE DEF row
    <3> QED BY <2>1, <2>2, <3>1, <3>2, <3>3, <3>4, PayEditInv
  <2> QED BY <2>3, <2>4
<1> QED BY <1>1, <1>2

\* updateRow, whatever the status of the row has become.
LEMMA UpdateRowInv ==
  ASSUME DInv, NEW r \in Req, UpdateRow(r)
  PROVE  DInv'
<1> USE DEF DInv
<1>1. pc[r] = "update" /\ DInFlight(r) /\ OpFits(r) /\ Knows(r)
  BY DEF UpdateRow, Own, DInFlight
<1>2. src[r] \in Req /\ doc[src[r]].status # "none" /\ date[r] \in Periods
  BY <1>1 DEF OpFits, Knows
<1>3. CASE Rejected(r)
  BY <1>1, <1>3, FailInv
<1>4. CASE ~Rejected(r)
  <2> DEFINE d == src[r]
             row == EditedRow(doc[d], date[r], calc[r])
  <2>1. /\ CanLock(r, Exclusive("doc", d)) /\ doc[d].deletedAt = Null
        /\ doc' = [doc EXCEPT ![d] = row] /\ UNCHANGED pay /\ Finished(r)
    BY <1>4 DEF UpdateRow, EditedRow
  <2>2. doc[d] \in DocRow /\ calc[r] \in Calcs
    BY <1>2 DEF DTypes
  <2>3. /\ row \in DocRow /\ row.status = doc[d].status /\ row.entry = doc[d].entry
        /\ row.date = date[r] /\ row.deletedAt = Null
    BY <1>2, <2>1, <2>2, DocRowEdited
  <2>5. /\ pc' = [pc EXCEPT ![r] = "done"]
        /\ UNCHANGED <<db, ctx, held, pay, docSeq, taxCode, partner, docCtx>>
    BY <2>1 DEF Finished, Goto
  <2> HIDE DEF row
  <2> QED BY <1>1, <1>2, <2>1, <2>3, <2>5, DocEditInv
<1> QED BY <1>3, <1>4

-----------------------------------------------------------------------------
(* What a posting and a void write. *)

\* createPostedEntryInTx: one new entry.
LEMMA PostedEntry ==
  ASSUME DInv, NEW r \in Req, pc[r] = "write", op[r] \in PostOps,
         NEW s \in Sources, CreatePostedEntry(r, s)
  PROVE  /\ journal' \in [Req -> EntryRow] /\ lines' \in [Req -> Lines]
         /\ nextNumber' \in [Years -> Nat]
         /\ journal[r].status = "none"
         /\ journal'[r].status = "POSTED" /\ journal'[r].date = date[r] /\ date[r] \in Periods
         /\ journal'[r].deletedAt = Null /\ lines'[r] = buf[r]
         /\ \A e \in Req \ {r} : journal'[e] = journal[e] /\ lines'[e] = lines[e]
<1> USE DEF DInv
<1>1. date[r] \in Periods /\ Year(r) \in Years
  BY LedgerAssumption DEF Own, Knows, DInFlight, Year
<1>2. num[r] \in Nat /\ buf[r] \in Lines /\ UserOf[r] \in Users
  BY LedgerAssumption DEF DTypes
<1>3. PostedRow(r, s, Null) \in EntryRow
  BY <1>1, <1>2 DEF PostedRow, EntryRow
<1>4. /\ PostedRow(r, s, Null).status = "POSTED" /\ PostedRow(r, s, Null).date = date[r]
      /\ PostedRow(r, s, Null).deletedAt = Null
  BY DEF PostedRow
<1>5. /\ journal' = [journal EXCEPT ![r] = PostedRow(r, s, Null)]
      /\ lines' = [lines EXCEPT ![r] = buf[r]]
      /\ nextNumber' = [nextNumber EXCEPT ![Year(r)] = num[r] + 1]
  BY DEF CreatePostedEntry, Increment
<1>6. journal[r].status = "none"
  BY DEF Fresh
<1>7. journal' \in [Req -> EntryRow] /\ lines' \in [Req -> Lines] /\ nextNumber' \in [Years -> Nat]
  BY <1>1, <1>2, <1>3, <1>5 DEF DTypes
<1>8. /\ journal'[r] = PostedRow(r, s, Null) /\ lines'[r] = buf[r]
      /\ \A e \in Req \ {r} : journal'[e] = journal[e] /\ lines'[e] = lines[e]
  BY <1>5 DEF DTypes
<1> QED BY <1>1, <1>4, <1>6, <1>7, <1>8

\* reverseInTx: a new entry, and the status of another one.
LEMMA ReversalEntry ==
  ASSUME DInv, NEW r \in Req, pc[r] = "write", op[r] \in {"voidDoc", "voidPay", "reverse"},
         CreateReversal(r)
  PROVE  /\ journal' \in [Req -> EntryRow] /\ lines' \in [Req -> Lines]
         /\ nextNumber' \in [Years -> Nat]
         /\ tgt[r] \in Req \ {r} /\ journal[tgt[r]].status # "none"
         /\ journal[r].status = "none"
         /\ journal'[r].status = "POSTED" /\ journal'[r].date = date[r] /\ date[r] \in Periods
         /\ journal'[r].deletedAt = Null
         /\ journal'[tgt[r]].status = "REVERSED" /\ journal'[tgt[r]].date = journal[tgt[r]].date
         /\ journal'[tgt[r]].deletedAt = journal[tgt[r]].deletedAt
         /\ \A e \in Req \ {r, tgt[r]} : journal'[e] = journal[e]
         /\ lines'[r] = buf[r] /\ buf[r] = Swapped(lines[tgt[r]])
         /\ \A e \in Req \ {r} : lines'[e] = lines[e]
<1> USE DEF DInv
<1>1. date[r] \in Periods /\ Year(r) \in Years /\ tgt[r] \in Req /\ journal[tgt[r]].status # "none"
      /\ buf[r] = Swapped(lines[tgt[r]])
  BY LedgerAssumption DEF Own, Knows, DInFlight, Year
<1>2. num[r] \in Nat /\ buf[r] \in Lines /\ UserOf[r] \in Users
  BY LedgerAssumption DEF DTypes
<1> DEFINE new == PostedRow(r, "REVERSAL", tgt[r])
           old == [journal[tgt[r]] EXCEPT !.status = "REVERSED"]
<1>3. /\ new \in EntryRow /\ new.status = "POSTED" /\ new.date = date[r] /\ new.deletedAt = Null
  BY <1>1, <1>2 DEF PostedRow, EntryRow, Sources
<1>4. journal[tgt[r]] \in EntryRow
  BY <1>1 DEF DTypes
<1>5. /\ old \in EntryRow /\ old.status = "REVERSED" /\ old.date = journal[tgt[r]].date
      /\ old.deletedAt = journal[tgt[r]].deletedAt
  BY <1>4 DEF EntryRow
<1>6. journal[r].status = "none"
  BY DEF Fresh
<1>7. tgt[r] # r
  BY <1>1, <1>6
<1>8. /\ journal' = [journal EXCEPT ![r] = new, ![tgt[r]].status = "REVERSED"]
      /\ lines' = [lines EXCEPT ![r] = buf[r]]
      /\ nextNumber' = [nextNumber EXCEPT ![Year(r)] = num[r] + 1]
  BY DEF CreateReversal, Increment
<1>9. /\ journal' \in [Req -> EntryRow] /\ journal'[r] = new /\ journal'[tgt[r]] = old
      /\ \A e \in Req \ {r, tgt[r]} : journal'[e] = journal[e]
  <2> HIDE DEF new
  <2>1. journal \in [Req -> EntryRow]
    BY DEF DTypes
  <2>2. journal' = [[journal EXCEPT ![r] = new] EXCEPT ![tgt[r]] = old]
    BY <1>1, <1>7, <1>8, <2>1
  <2> HIDE DEF old, DInv
  <2> QED BY <1>1, <1>3, <1>5, <1>7, <2>1, <2>2
<1>10. /\ lines' \in [Req -> Lines] /\ nextNumber' \in [Years -> Nat]
       /\ lines'[r] = buf[r] /\ \A e \in Req \ {r} : lines'[e] = lines[e]
  BY <1>1, <1>2, <1>8 DEF DTypes
<1> HIDE DEF new, old
<1> QED BY <1>1, <1>3, <1>5, <1>6, <1>7, <1>9, <1>10

\* The counter of document numbers.
LEMMA CounterIncremented ==
  ASSUME DInv, NEW r \in Req, pc[r] = "write", op[r] \in {"postDoc", "postPay"}, IncrementDoc(r)
  PROVE  /\ TypeOf(r) \in Types /\ Year(r) \in Years
         /\ docSeq' \in [Types -> [Years -> Nat \ {0}]]
         /\ docNum[r] = docSeq[TypeOf(r)][Year(r)]
         /\ docSeq'[TypeOf(r)][Year(r)] = docNum[r] + 1
         /\ \A t \in Types, y \in Years :
              t # TypeOf(r) \/ y # Year(r) => docSeq'[t][y] = docSeq[t][y]
         /\ CanLock(r, Exclusive("docSeq", <<TypeOf(r), Year(r)>>))
<1> USE DEF DInv
<1>1. date[r] \in Periods /\ TypeOf(r) \in Types /\ Year(r) \in Years
  BY LedgerAssumption DEF Own, Knows, DInFlight, Year, TypeOf, Types
<1>2. /\ Exclusive("docSeq", <<TypeOf(r), Year(r)>>) \in held[r]
      /\ docNum[r] = docSeq[TypeOf(r)][Year(r)]
  BY DEF Own, HoldsSeq, Inside
<1>3. docSeq \in [Types -> [Years -> Nat \ {0}]] /\ docNum[r] + 1 \in Nat \ {0}
  BY DEF DTypes
<1> DEFINE t == TypeOf(r)
           y == Year(r)
           n == docNum[r] + 1
<1>4. docSeq' = [docSeq EXCEPT ![t] = [docSeq[t] EXCEPT ![y] = n]]
  BY <1>3 DEF IncrementDoc
<1>5. [docSeq[t] EXCEPT ![y] = n] \in [Years -> Nat \ {0}]
  BY <1>1, <1>3
<1>6. CanLock(r, Exclusive("docSeq", <<TypeOf(r), Year(r)>>))
  BY <1>2, HolderCanLock
<1> HIDE DEF DInv
<1> QED BY <1>1, <1>2, <1>3, <1>4, <1>5, <1>6

\* finalizePosted, of a draft that the transaction holds.
LEMMA DocPosted ==
  ASSUME DInv, NEW r \in Req, WriteDocPosted(r)
  PROVE  /\ pc[r] = "write" /\ op[r] = "postDoc" /\ src[r] \in Req
         /\ CanLock(r, Exclusive("doc", src[r]))
         /\ Is(doc[src[r]], "DRAFT") /\ doc[src[r]].entry = Null
         /\ \A d \in Req \ {src[r]} : doc'[d] = doc[d]
         /\ doc'[src[r]] \in DocRow
         /\ doc'[src[r]].status = "POSTED" /\ doc'[src[r]].deletedAt = Null
         /\ doc'[src[r]].number = docNum[r] /\ doc'[src[r]].entry = r
         /\ doc'[src[r]].date = doc[src[r]].date /\ doc'[src[r]].paid = doc[src[r]].paid
         /\ doc'[src[r]].calc = [calc[r] EXCEPT !.lines = doc[src[r]].calc.lines]
         /\ pay' = pay /\ TypeOf(r) = "DOC"
<1> USE DEF DInv
<1>1. pc[r] = "write" /\ op[r] = "postDoc" /\ DInFlight(r) /\ Knows(r) /\ HoldsDoc(r)
  BY DEF WriteDocPosted, DInFlight, Own
<1>2. /\ src[r] \in Req /\ doc[src[r]].status # "none" /\ Exclusive("doc", src[r]) \in held[r]
      /\ Is(doc[src[r]], "DRAFT")
  BY <1>1 DEF Knows, HoldsDoc, DocOps, Inside, DocAllows
<1>3. CanLock(r, Exclusive("doc", src[r])) /\ doc[src[r]].entry = Null
  BY <1>2, HolderCanLock DEF Is, RowOK
<1> DEFINE d == src[r]
           c == [calc[r] EXCEPT !.lines = doc[d].calc.lines]
           row == PostedDocRow(doc[d], c, docNum[r], r)
<1>4. doc' = [doc EXCEPT ![d] = row] /\ pay' = pay
  BY DEF WriteDocPosted, PostedDocRow
<1>5. doc[d] \in DocRow /\ docNum[r] \in Nat /\ calc[r] \in Calcs /\ doc[d].calc \in Calcs
  BY <1>2 DEF DTypes, DocRow
<1>6. c \in Calcs
  <2> HIDE DEF DInv
  <2> QED BY <1>5 DEF Calcs
<1>7. /\ row \in DocRow /\ row.status = "POSTED" /\ row.calc = c /\ row.number = docNum[r]
      /\ row.entry = r /\ row.date = doc[d].date /\ row.deletedAt = doc[d].deletedAt
      /\ row.paid = doc[d].paid
  <2> HIDE DEF c, DInv
  <2> QED BY <1>5, <1>6, DocRowPosted
<1>8. doc'[d] = row /\ \A e \in Req \ {d} : doc'[e] = doc[e]
  <2> HIDE DEF row
  <2> QED BY <1>2, <1>4 DEF DTypes
<1> HIDE DEF row, DInv
<1> QED BY <1>1, <1>2, <1>3, <1>4, <1>7, <1>8 DEF Is, TypeOf

LEMMA WriteDocPostedInv ==
  ASSUME DInv, NEW r \in Req, WriteDocPosted(r)
  PROVE  DInv'
<1>1. /\ pc' = [pc EXCEPT ![r] = "done"] /\ ReleaseAll(r)
      /\ UNCHANGED <<ctx, docCtx, taxCode, partner>>
      /\ CreatePostedEntry(r, DocSource) /\ IncrementDoc(r)
  BY DEF WriteDocPosted, Commit, Goto
<1>2. /\ pc[r] = "write" /\ op[r] = "postDoc" /\ src[r] \in Req
      /\ CanLock(r, Exclusive("doc", src[r]))
      /\ Is(doc[src[r]], "DRAFT") /\ doc[src[r]].entry = Null
      /\ \A d \in Req \ {src[r]} : doc'[d] = doc[d]
      /\ doc'[src[r]] \in DocRow
      /\ doc'[src[r]].status = "POSTED" /\ doc'[src[r]].deletedAt = Null
      /\ doc'[src[r]].entry = r
      /\ doc'[src[r]].date = doc[src[r]].date
      /\ pay' = pay
  BY DocPosted
<1>3. DocSource \in Sources /\ "postDoc" \in PostOps
  BY OpNames DEF DocSource, Sources
<1>4. /\ journal' \in [Req -> EntryRow] /\ lines' \in [Req -> Lines]
      /\ nextNumber' \in [Years -> Nat]
      /\ journal[r].status = "none"
      /\ journal'[r].status = "POSTED" /\ journal'[r].date = date[r] /\ date[r] \in Periods
      /\ \A e \in Req \ {r} : journal'[e] = journal[e] /\ lines'[e] = lines[e]
  BY <1>1, <1>2, <1>3, PostedEntry
<1>5. /\ docSeq' \in [Types -> [Years -> Nat \ {0}]]
      /\ \A t \in Types, y \in Years :
           t # TypeOf(r) \/ y # Year(r) => docSeq'[t][y] = docSeq[t][y]
      /\ CanLock(r, Exclusive("docSeq", <<TypeOf(r), Year(r)>>))
  BY <1>1, <1>2, CounterIncremented
<1>6. doc' \in [Req -> DocRow] /\ pay' \in [Req -> PayRow]
  <2>1. doc \in [Req -> DocRow] /\ pay \in [Req -> PayRow] /\ DOMAIN doc' = Req
    BY DEF DInv, DTypes, WriteDocPosted
  <2>2. doc' = [d \in Req |-> doc'[d]]
    BY <2>1 DEF WriteDocPosted
  <2> QED BY <1>2, <2>1, <2>2
<1> USE DEF DInv
<1>7. Protected(r)
  BY <1>2, <1>5 DEF Protected
<1>8. RowsPersist
  BY <1>2, <1>4 DEF RowsPersist
<1>9. ASSUME NEW d \in Req PROVE RowOK(d)'
  <2>1. RowOK(d) /\ r # Null
    BY LedgerAssumption
  <2>2. journal'[d].status # "none" => journal'[d].date \in Periods
    BY <1>4, <2>1 DEF RowOK
  <2>3. \A e \in Req : journal[e].status # "none" => journal'[e].status # "none"
    BY <1>4
  <2>4. pay[d].entry # Null => pay[d].entry \in Req
    BY DEF DTypes, PayRow
  <2>5. doc[d].entry # Null => doc[d].entry \in Req
    BY DEF DTypes, DocRow
  <2>6. CASE d = src[r]
    BY <1>2, <1>4, <2>1, <2>2, <2>3, <2>4, <2>6 DEF RowOK, Is
  <2>7. CASE d # src[r]
    BY <1>2, <2>1, <2>2, <2>3, <2>4, <2>5, <2>7 DEF RowOK
  <2> QED BY <2>6, <2>7
<1>10. \A d \in Req \ {r} : /\ journal[d].status = "none" => journal'[d].status = "none"
                            /\ doc[d].status = "none" => doc'[d].status = "none"
                            /\ pay[d].status = "none" => pay'[d].status = "none"
  BY <1>2, <1>4 DEF Is
<1>11. pc[r] # "done"
  BY <1>2
<1> HIDE DEF DInv
<1> QED BY <1>1, <1>4, <1>5, <1>6, <1>7, <1>8, <1>9, <1>10, <1>11, DoneInv

\* What a payment's transaction holds when it writes: the payment, and every document
\* that it moves.
LEMMA HoldsAllocated ==
  ASSUME DInv, NEW r \in Req, pc[r] = "write", op[r] \in PayOps
  PROVE  /\ src[r] \in Req /\ CanLock(r, Exclusive("pay", src[r]))
         /\ Is(pay[src[r]], IF op[r] = "postPay" THEN "DRAFT" ELSE "POSTED")
         /\ Alloc(r) \in Allocs
         /\ \A d \in Req : AllocatedTo(Alloc(r), d) \in Nat
         /\ \A d \in Req : AllocatedTo(Alloc(r), d) # 0 =>
              /\ CanLock(r, Exclusive("doc", d))
              /\ op[r] = "postPay" =>
                   /\ doc[d].status = "POSTED"
                   /\ doc[d].paid + AllocatedTo(Alloc(r), d) <= doc[d].calc.total
<1> USE DEF DInv
<1>1. DInFlight(r) /\ Knows(r) /\ HoldsPay(r)
  BY DEF DInFlight, Own
<1>2. /\ src[r] \in Req /\ pay[src[r]].status # "none" /\ Exclusive("pay", src[r]) \in held[r]
      /\ Is(pay[src[r]], IF op[r] = "postPay" THEN "DRAFT" ELSE "POSTED")
      /\ pos[r] = Len(Alloc(r)) + 1
  BY <1>1 DEF Knows, HoldsPay, Inside
<1>3. CanLock(r, Exclusive("pay", src[r])) /\ Alloc(r) \in Allocs
  BY <1>2, HolderCanLock DEF RowOK, Alloc
<1> DEFINE al == Alloc(r)
<1>4. \A i \in 1 .. (pos[r] - 1) :
         /\ Exclusive("doc", al[i].doc) \in held[r]
         /\ op[r] = "postPay" =>
              /\ doc[al[i].doc].status = "POSTED"
              /\ doc[al[i].doc].paid + AllocatedTo(SubSeq(al, 1, pos[r] - 1), al[i].doc)
                   <= doc[al[i].doc].calc.total
  BY <1>1 DEF HoldsPay, Inside
<1>5. al \in Allocs \cup {<<>>}
  BY <1>3
<1>6. pos[r] = Len(al) + 1
  BY <1>2
<1> HIDE DEF al, DInv
<1>7. Len(al) \in Nat /\ DOMAIN al = 1 .. Len(al) /\ \A d : AllocatedTo(al, d) \in Nat
  BY <1>5, AllocTypes
<1>8. SubSeq(al, 1, Len(al)) = al
  BY <1>5, <1>7, AllocPrefix
<1>9. pos[r] - 1 = Len(al)
  BY <1>6, <1>7
<1>10. ASSUME NEW d \in Req, AllocatedTo(al, d) # 0
       PROVE  /\ CanLock(r, Exclusive("doc", d))
              /\ op[r] = "postPay" =>
                   /\ doc[d].status = "POSTED"
                   /\ doc[d].paid + AllocatedTo(al, d) <= doc[d].calc.total
  <2>1. \E i \in DOMAIN al : al[i].doc = d
    BY <1>5, <1>10, AllocPositive
  <2>2. PICK i \in 1 .. Len(al) : al[i].doc = d
    BY <1>7, <2>1
  <2>3. Exclusive("doc", d) \in held[r]
    BY <1>4, <1>9, <2>2
  <2>4. CanLock(r, Exclusive("doc", d))
    BY <2>3, HolderCanLock DEF DInv
  <2> QED BY <1>4, <1>8, <1>9, <2>2, <2>4
<1> QED BY <1>2, <1>3, <1>7, <1>10 DEF al

\* applyPaid: a row whose amount paid has moved.
MovedRow(row, x) == [row EXCEPT !.paid = x]

LEMMA MovedRowIs ==
  ASSUME NEW row \in DocRow, NEW x \in Int
  PROVE  /\ MovedRow(row, x) \in DocRow /\ MovedRow(row, x).paid = x
         /\ MovedRow(row, x).status = row.status /\ MovedRow(row, x).deletedAt = row.deletedAt
         /\ MovedRow(row, x).date = row.date /\ MovedRow(row, x).calc = row.calc
         /\ MovedRow(row, x).number = row.number /\ MovedRow(row, x).entry = row.entry
         /\ x = row.paid => MovedRow(row, x) = row
BY DEF MovedRow, DocRow

\* The documents after a payment has been posted or voided.
LEMMA PaidMoved ==
  ASSUME DInv, NEW r \in Req, pc[r] = "write", op[r] \in PayOps,
         NEW x \in [Req -> Int], \A d \in Req : doc'[d] = MovedRow(doc[d], x[d]),
         \A d \in Req : AllocatedTo(Alloc(r), d) = 0 => x[d] = doc[d].paid
  PROVE  /\ \A d \in Req :
              /\ doc'[d] \in DocRow /\ doc'[d].paid = x[d]
              /\ doc'[d].status = doc[d].status /\ doc'[d].deletedAt = doc[d].deletedAt
              /\ doc'[d].date = doc[d].date /\ doc'[d].calc = doc[d].calc
              /\ doc'[d].number = doc[d].number /\ doc'[d].entry = doc[d].entry
              /\ doc'[d] # doc[d] => CanLock(r, Exclusive("doc", d))
<1> SUFFICES ASSUME NEW d \in Req
             PROVE  /\ doc'[d] \in DocRow /\ doc'[d].paid = x[d]
                    /\ doc'[d].status = doc[d].status /\ doc'[d].deletedAt = doc[d].deletedAt
                    /\ doc'[d].date = doc[d].date /\ doc'[d].calc = doc[d].calc
                    /\ doc'[d].number = doc[d].number /\ doc'[d].entry = doc[d].entry
                    /\ doc'[d] # doc[d] => CanLock(r, Exclusive("doc", d))
  OBVIOUS
<1>1. doc[d] \in DocRow /\ x[d] \in Int
  BY DEF DInv, DTypes
<1>2. doc'[d] = MovedRow(doc[d], x[d])
  OBVIOUS
<1>3. /\ doc'[d] \in DocRow /\ doc'[d].paid = x[d]
      /\ doc'[d].status = doc[d].status /\ doc'[d].deletedAt = doc[d].deletedAt
      /\ doc'[d].date = doc[d].date /\ doc'[d].calc = doc[d].calc
      /\ doc'[d].number = doc[d].number /\ doc'[d].entry = doc[d].entry
      /\ x[d] = doc[d].paid => doc'[d] = doc[d]
  <2> DEFINE row == doc[d]
             v == x[d]
  <2>1. row \in DocRow /\ v \in Int /\ doc'[d] = MovedRow(row, v)
    BY <1>1, <1>2
  <2> HIDE DEF row, v
  <2>2. /\ MovedRow(row, v) \in DocRow /\ MovedRow(row, v).paid = v
        /\ MovedRow(row, v).status = row.status /\ MovedRow(row, v).deletedAt = row.deletedAt
        /\ MovedRow(row, v).date = row.date /\ MovedRow(row, v).calc = row.calc
        /\ MovedRow(row, v).number = row.number /\ MovedRow(row, v).entry = row.entry
        /\ v = row.paid => MovedRow(row, v) = row
    BY <2>1, MovedRowIs
  <2>3. /\ doc'[d] \in DocRow /\ doc'[d].paid = v
        /\ doc'[d].status = row.status /\ doc'[d].deletedAt = row.deletedAt
        /\ doc'[d].date = row.date /\ doc'[d].calc = row.calc
        /\ doc'[d].number = row.number /\ doc'[d].entry = row.entry
        /\ v = row.paid => doc'[d] = row
    BY <2>1, <2>2
  <2> QED BY <2>3 DEF row, v
<1>4. doc'[d] # doc[d] => CanLock(r, Exclusive("doc", d))
  BY <1>3, HoldsAllocated
<1> QED BY <1>3, <1>4

\* createPostedEntryInTx, applyPaid of every allocation, and the payment.
LEMMA PayPosted ==
  ASSUME DInv, NEW r \in Req, WritePayPosted(r)
  PROVE  /\ pc[r] = "write" /\ op[r] = "postPay" /\ src[r] \in Req
         /\ CanLock(r, Exclusive("pay", src[r]))
         /\ Is(pay[src[r]], "DRAFT") /\ pay[src[r]].entry = Null
         /\ \A d \in Req \ {src[r]} : pay'[d] = pay[d]
         /\ pay'[src[r]] \in PayRow
         /\ pay'[src[r]].status = "POSTED" /\ pay'[src[r]].deletedAt = Null
         /\ pay'[src[r]].number = docNum[r] /\ pay'[src[r]].entry = r
         /\ pay'[src[r]].date = pay[src[r]].date /\ pay'[src[r]].alloc = pay[src[r]].alloc
         /\ \A d \in Req :
              /\ doc'[d] \in DocRow /\ doc'[d].paid = doc[d].paid + AllocatedTo(Alloc(r), d)
              /\ doc'[d].status = doc[d].status /\ doc'[d].deletedAt = doc[d].deletedAt
              /\ doc'[d].date = doc[d].date /\ doc'[d].calc = doc[d].calc
              /\ doc'[d].number = doc[d].number /\ doc'[d].entry = doc[d].entry
              /\ doc'[d] # doc[d] => CanLock(r, Exclusive("doc", d))
         /\ TypeOf(r) = "PAY"
<1>1. pc[r] = "write" /\ op[r] = "postPay" /\ op[r] \in PayOps
  BY OpNames DEF WritePayPosted
<1>2. /\ src[r] \in Req /\ CanLock(r, Exclusive("pay", src[r])) /\ Is(pay[src[r]], "DRAFT")
      /\ \A d \in Req : AllocatedTo(Alloc(r), d) \in Nat
  BY <1>1, HoldsAllocated
<1>3. pay[src[r]].entry = Null /\ pay[src[r]] \in PayRow /\ docNum[r] \in Nat
      /\ pay \in [Req -> PayRow] /\ doc \in [Req -> DocRow]
  BY <1>2 DEF Is, DInv, DTypes, RowOK
<1> DEFINE row == PostedPayRow(pay[src[r]], docNum[r], r)
           x == [d \in Req |-> doc[d].paid + AllocatedTo(Alloc(r), d)]
<1>4. pay' = [pay EXCEPT ![src[r]] = row]
  BY DEF WritePayPosted, PostedPayRow
<1>5. \A d \in Req : doc'[d] = MovedRow(doc[d], x[d])
  BY DEF WritePayPosted, MovedRow
<1>6. /\ row \in PayRow /\ row.status = "POSTED" /\ row.number = docNum[r] /\ row.entry = r
      /\ row.date = pay[src[r]].date /\ row.deletedAt = pay[src[r]].deletedAt
      /\ row.alloc = pay[src[r]].alloc
  BY <1>3, PayRowPosted
<1>7. pay'[src[r]] = row /\ \A d \in Req \ {src[r]} : pay'[d] = pay[d]
  <2> HIDE DEF row
  <2> QED BY <1>2, <1>3, <1>4
<1>8. ASSUME NEW d \in Req
      PROVE  /\ x[d] = doc[d].paid + AllocatedTo(Alloc(r), d) /\ x[d] \in Int
             /\ AllocatedTo(Alloc(r), d) = 0 => x[d] = doc[d].paid
  <2>1. doc[d].paid \in Int
    BY <1>3 DEF DocRow
  <2> QED BY <1>2, <2>1
<1>9. x \in [Req -> Int]
  BY <1>8
<1> HIDE DEF row, x
<1>10. \A d \in Req :
         /\ doc'[d] \in DocRow /\ doc'[d].paid = x[d]
         /\ doc'[d].status = doc[d].status /\ doc'[d].deletedAt = doc[d].deletedAt
         /\ doc'[d].date = doc[d].date /\ doc'[d].calc = doc[d].calc
         /\ doc'[d].number = doc[d].number /\ doc'[d].entry = doc[d].entry
         /\ doc'[d] # doc[d] => CanLock(r, Exclusive("doc", d))
  BY <1>1, <1>5, <1>8, <1>9, PaidMoved
<1> QED BY <1>1, <1>2, <1>3, <1>6, <1>7, <1>8, <1>10 DEF Is, TypeOf

LEMMA WritePayPostedInv ==
  ASSUME DInv, NEW r \in Req, WritePayPosted(r)
  PROVE  DInv'
<1>1. /\ pc' = [pc EXCEPT ![r] = "done"] /\ ReleaseAll(r)
      /\ UNCHANGED <<ctx, docCtx, taxCode, partner>>
      /\ CreatePostedEntry(r, "PAYMENT") /\ IncrementDoc(r)
  BY DEF WritePayPosted, Commit, Goto
<1>2. /\ pc[r] = "write" /\ op[r] = "postPay" /\ src[r] \in Req
      /\ CanLock(r, Exclusive("pay", src[r]))
      /\ Is(pay[src[r]], "DRAFT") /\ pay[src[r]].entry = Null
      /\ \A d \in Req \ {src[r]} : pay'[d] = pay[d]
      /\ pay'[src[r]] \in PayRow
      /\ pay'[src[r]].status = "POSTED" /\ pay'[src[r]].deletedAt = Null
      /\ pay'[src[r]].entry = r
      /\ pay'[src[r]].date = pay[src[r]].date /\ pay'[src[r]].alloc = pay[src[r]].alloc
      /\ \A d \in Req :
           /\ doc'[d] \in DocRow
           /\ doc'[d].status = doc[d].status /\ doc'[d].deletedAt = doc[d].deletedAt
           /\ doc'[d].date = doc[d].date /\ doc'[d].entry = doc[d].entry
           /\ doc'[d] # doc[d] => CanLock(r, Exclusive("doc", d))
  BY PayPosted
<1>3. "PAYMENT" \in Sources /\ "postPay" \in PostOps
  BY OpNames DEF Sources
<1>4. /\ journal' \in [Req -> EntryRow] /\ lines' \in [Req -> Lines]
      /\ nextNumber' \in [Years -> Nat]
      /\ journal[r].status = "none"
      /\ journal'[r].status = "POSTED" /\ journal'[r].date = date[r] /\ date[r] \in Periods
      /\ \A e \in Req \ {r} : journal'[e] = journal[e] /\ lines'[e] = lines[e]
  BY <1>1, <1>2, <1>3, PostedEntry
<1>5. /\ docSeq' \in [Types -> [Years -> Nat \ {0}]]
      /\ \A t \in Types, y \in Years :
           t # TypeOf(r) \/ y # Year(r) => docSeq'[t][y] = docSeq[t][y]
      /\ CanLock(r, Exclusive("docSeq", <<TypeOf(r), Year(r)>>))
  BY <1>1, <1>2, CounterIncremented
<1>6. doc' \in [Req -> DocRow] /\ pay' \in [Req -> PayRow]
  <2>1. doc' = [d \in Req |-> doc'[d]]
    BY DEF WritePayPosted
  <2>2. pay \in [Req -> PayRow]
    BY DEF DInv, DTypes
  <2>3. pay' = [d \in Req |-> pay'[d]]
    BY <2>2 DEF WritePayPosted
  <2> QED BY <1>2, <2>1, <2>2, <2>3
<1> USE DEF DInv
<1>7. Protected(r)
  BY <1>2, <1>5 DEF Protected
<1>8. RowsPersist
  BY <1>2, <1>4 DEF RowsPersist
<1>9. ASSUME NEW d \in Req PROVE RowOK(d)'
  <2>1. RowOK(d) /\ r # Null
    BY LedgerAssumption
  <2>2. journal'[d].status # "none" => journal'[d].date \in Periods
    BY <1>4, <2>1 DEF RowOK
  <2>3. \A e \in Req : journal[e].status # "none" => journal'[e].status # "none"
    BY <1>4
  <2>4. pay[d].entry # Null => pay[d].entry \in Req
    BY DEF DTypes, PayRow
  <2>5. doc[d].entry # Null => doc[d].entry \in Req
    BY DEF DTypes, DocRow
  <2>6. CASE d = src[r]
    BY <1>2, <1>4, <2>1, <2>2, <2>3, <2>5, <2>6 DEF RowOK, Is
  <2>7. CASE d # src[r]
    BY <1>2, <2>1, <2>2, <2>3, <2>4, <2>5, <2>7 DEF RowOK
  <2> QED BY <2>6, <2>7
<1>10. \A d \in Req \ {r} : /\ journal[d].status = "none" => journal'[d].status = "none"
                            /\ doc[d].status = "none" => doc'[d].status = "none"
                            /\ pay[d].status = "none" => pay'[d].status = "none"
  BY <1>2, <1>4 DEF Is
<1>11. pc[r] # "done"
  BY <1>2
<1> HIDE DEF DInv
<1> QED BY <1>1, <1>4, <1>5, <1>6, <1>7, <1>8, <1>9, <1>10, <1>11, DoneInv

\* markVoid, of a document that the transaction holds and that nothing is paid on.
LEMMA DocVoided ==
  ASSUME DInv, NEW r \in Req, WriteDocVoid(r), ~RolledBack(r)
  PROVE  /\ pc[r] = "write" /\ op[r] = "voidDoc" /\ src[r] \in Req
         /\ CanLock(r, Exclusive("doc", src[r]))
         /\ Is(doc[src[r]], "POSTED") /\ doc[src[r]].paid = 0 /\ doc[src[r]].entry = tgt[r]
         /\ \A d \in Req \ {src[r]} : doc'[d] = doc[d]
         /\ doc'[src[r]] \in DocRow /\ doc'[src[r]].status = "VOID"
         /\ doc'[src[r]].deletedAt = Null /\ doc'[src[r]].number = doc[src[r]].number
         /\ doc'[src[r]].entry = doc[src[r]].entry /\ doc'[src[r]].date = doc[src[r]].date
         /\ doc'[src[r]].paid = 0 /\ doc'[src[r]].calc = doc[src[r]].calc
         /\ pay' = pay /\ docSeq' = docSeq
<1> USE DEF DInv
<1>1. pc[r] = "write" /\ op[r] = "voidDoc" /\ DInFlight(r) /\ Knows(r) /\ HoldsDoc(r)
  BY DEF WriteDocVoid, DInFlight, Own
<1>2. /\ src[r] \in Req /\ Exclusive("doc", src[r]) \in held[r]
      /\ Is(doc[src[r]], "POSTED") /\ doc[src[r]].paid = 0 /\ doc[src[r]].entry = tgt[r]
  BY <1>1 DEF Knows, HoldsDoc, DocOps, Inside, DocAllows
<1>3. CanLock(r, Exclusive("doc", src[r])) /\ doc[src[r]] \in DocRow
  BY <1>2, HolderCanLock DEF DTypes
<1> DEFINE row == [doc[src[r]] EXCEPT !.status = "VOID"]
<1>4. doc' = [doc EXCEPT ![src[r]] = row] /\ pay' = pay /\ docSeq' = docSeq
  BY DEF WriteDocVoid
<1>5. /\ row \in DocRow /\ row.status = "VOID" /\ row.number = doc[src[r]].number
      /\ row.entry = doc[src[r]].entry /\ row.date = doc[src[r]].date
      /\ row.deletedAt = doc[src[r]].deletedAt /\ row.paid = doc[src[r]].paid
      /\ row.calc = doc[src[r]].calc
  BY <1>3 DEF DocRow, Statuses
<1>6. doc'[src[r]] = row /\ \A e \in Req \ {src[r]} : doc'[e] = doc[e]
  <2> HIDE DEF row
  <2> QED BY <1>2, <1>4 DEF DTypes
<1> HIDE DEF row, DInv
<1> QED BY <1>1, <1>2, <1>3, <1>4, <1>5, <1>6 DEF Is

\* applyInTx of a void: the allocations are unwound.
LEMMA PayVoided ==
  ASSUME DInv, NEW r \in Req, WritePayVoid(r), ~RolledBack(r)
  PROVE  /\ pc[r] = "write" /\ op[r] = "voidPay" /\ src[r] \in Req
         /\ CanLock(r, Exclusive("pay", src[r]))
         /\ Is(pay[src[r]], "POSTED") /\ pay[src[r]].entry # Null /\ pay[src[r]].entry = tgt[r]
         /\ \A d \in Req \ {src[r]} : pay'[d] = pay[d]
         /\ pay'[src[r]] \in PayRow /\ pay'[src[r]].status = "VOID"
         /\ pay'[src[r]].deletedAt = Null /\ pay'[src[r]].number = pay[src[r]].number
         /\ pay'[src[r]].entry = pay[src[r]].entry
         /\ pay'[src[r]].date = pay[src[r]].date /\ pay'[src[r]].alloc = pay[src[r]].alloc
         /\ \A d \in Req :
              /\ doc'[d] \in DocRow /\ doc'[d].paid = doc[d].paid - AllocatedTo(Alloc(r), d)
              /\ doc'[d].status = doc[d].status /\ doc'[d].deletedAt = doc[d].deletedAt
              /\ doc'[d].date = doc[d].date /\ doc'[d].calc = doc[d].calc
              /\ doc'[d].number = doc[d].number /\ doc'[d].entry = doc[d].entry
              /\ doc'[d] # doc[d] => CanLock(r, Exclusive("doc", d))
         /\ docSeq' = docSeq
<1>1. pc[r] = "write" /\ op[r] = "voidPay" /\ op[r] \in PayOps
  BY OpNames DEF WritePayVoid
<1>2. /\ src[r] \in Req /\ CanLock(r, Exclusive("pay", src[r])) /\ Is(pay[src[r]], "POSTED")
      /\ \A d \in Req : AllocatedTo(Alloc(r), d) \in Nat
  BY <1>1, HoldsAllocated
<1>3. pay[src[r]].entry # Null /\ pay[src[r]].entry = tgt[r]
  BY <1>1 DEF DInv, Own, Knows, DInFlight
<1>3a. /\ pay[src[r]] \in PayRow /\ pay \in [Req -> PayRow] /\ doc \in [Req -> DocRow]
  BY <1>2 DEF DInv, DTypes
<1> DEFINE row == [pay[src[r]] EXCEPT !.status = "VOID"]
           x == [d \in Req |-> doc[d].paid - AllocatedTo(Alloc(r), d)]
<1>4. pay' = [pay EXCEPT ![src[r]] = row] /\ docSeq' = docSeq
  BY DEF WritePayVoid
<1>5. \A d \in Req : doc'[d] = MovedRow(doc[d], x[d])
  BY DEF WritePayVoid, MovedRow
<1>6. /\ row \in PayRow /\ row.status = "VOID" /\ row.number = pay[src[r]].number
      /\ row.entry = pay[src[r]].entry /\ row.date = pay[src[r]].date
      /\ row.deletedAt = pay[src[r]].deletedAt /\ row.alloc = pay[src[r]].alloc
  BY <1>3a DEF PayRow, Statuses
<1>7. pay'[src[r]] = row /\ \A d \in Req \ {src[r]} : pay'[d] = pay[d]
  <2> HIDE DEF row
  <2> QED BY <1>2, <1>3a, <1>4
<1>8. ASSUME NEW d \in Req
      PROVE  /\ x[d] = doc[d].paid - AllocatedTo(Alloc(r), d) /\ x[d] \in Int
             /\ AllocatedTo(Alloc(r), d) = 0 => x[d] = doc[d].paid
  <2>1. doc[d].paid \in Int
    BY <1>3a DEF DocRow
  <2> QED BY <1>2, <2>1
<1>9. x \in [Req -> Int]
  BY <1>8
<1> HIDE DEF row, x
<1>10. \A d \in Req :
         /\ doc'[d] \in DocRow /\ doc'[d].paid = x[d]
         /\ doc'[d].status = doc[d].status /\ doc'[d].deletedAt = doc[d].deletedAt
         /\ doc'[d].date = doc[d].date /\ doc'[d].calc = doc[d].calc
         /\ doc'[d].number = doc[d].number /\ doc'[d].entry = doc[d].entry
         /\ doc'[d] # doc[d] => CanLock(r, Exclusive("doc", d))
  BY <1>1, <1>5, <1>8, <1>9, PaidMoved
<1> QED BY <1>1, <1>2, <1>3, <1>4, <1>6, <1>7, <1>8, <1>10 DEF Is

\* A void keeps the invariant whatever it voids; so does a reversal by hand.
LEMMA VoidInv ==
  ASSUME DInv, NEW r \in Req, pc[r] = "write", op[r] \in {"voidDoc", "voidPay", "reverse"},
         CreateReversal(r), Commit(r), UNCHANGED <<ctx, docCtx, taxCode, partner, docSeq>>,
         doc' \in [Req -> DocRow], pay' \in [Req -> PayRow],
         \A d \in Req :
           /\ doc'[d] # doc[d] => CanLock(r, Exclusive("doc", d))
           /\ doc'[d].status = doc[d].status \/ (Is(doc[d], "POSTED") /\ doc'[d].status = "VOID")
           /\ doc'[d].deletedAt = doc[d].deletedAt /\ doc'[d].date = doc[d].date
           /\ doc'[d].entry = doc[d].entry
           /\ pay'[d] # pay[d] => CanLock(r, Exclusive("pay", d))
           /\ pay'[d].status = pay[d].status \/ (Is(pay[d], "POSTED") /\ pay'[d].status = "VOID")
           /\ pay'[d].deletedAt = pay[d].deletedAt /\ pay'[d].date = pay[d].date
           /\ pay'[d].entry = pay[d].entry /\ pay'[d].alloc = pay[d].alloc
  PROVE  DInv'
<1>1. pc' = [pc EXCEPT ![r] = "done"] /\ ReleaseAll(r)
  BY DEF Commit, Goto
<1>2. /\ journal' \in [Req -> EntryRow] /\ lines' \in [Req -> Lines]
      /\ nextNumber' \in [Years -> Nat]
      /\ tgt[r] \in Req \ {r} /\ journal[tgt[r]].status # "none"
      /\ journal[r].status = "none"
      /\ journal'[r].status = "POSTED" /\ journal'[r].date = date[r] /\ date[r] \in Periods
      /\ journal'[tgt[r]].status = "REVERSED" /\ journal'[tgt[r]].date = journal[tgt[r]].date
      /\ \A e \in Req \ {r, tgt[r]} : journal'[e] = journal[e]
      /\ \A e \in Req \ {r} : lines'[e] = lines[e]
  BY ReversalEntry
<1> USE DEF DInv
<1>3. Protected(r)
  BY DEF Protected
<1>4. RowsPersist
  <2>1. ASSUME NEW e \in Req, journal[e].status # "none"
        PROVE  journal'[e].status # "none" /\ journal'[e].date = journal[e].date /\ lines'[e] = lines[e]
    BY <1>2, <2>1
  <2>2. ASSUME NEW e \in Req
        PROVE  /\ doc[e].status # "none" => doc'[e].status # "none"
               /\ pay[e].status # "none" => pay'[e].status # "none"
    OBVIOUS
  <2> QED BY <2>1, <2>2 DEF RowsPersist
<1>5. ASSUME NEW d \in Req PROVE RowOK(d)'
  <2>1. RowOK(d) /\ d \in Req
    OBVIOUS
  <2>2. journal'[d].status # "none" => journal'[d].date \in Periods
    BY <1>2, <2>1 DEF RowOK
  <2>3. \A e \in Req : journal[e].status # "none" => journal'[e].status # "none"
    BY <1>2
  <2>4. /\ pay[d].entry # Null => pay[d].entry \in Req
        /\ doc[d].entry # Null => doc[d].entry \in Req
    BY DEF DTypes, PayRow, DocRow
  <2>5. /\ doc'[d].entry = doc[d].entry /\ doc'[d].date = doc[d].date
        /\ doc'[d].deletedAt = doc[d].deletedAt
        /\ doc'[d].status = doc[d].status \/ (doc[d].status = "POSTED" /\ doc'[d].status = "VOID")
    BY DEF Is
  <2>6. /\ pay'[d].entry = pay[d].entry /\ pay'[d].date = pay[d].date
        /\ pay'[d].deletedAt = pay[d].deletedAt /\ pay'[d].alloc = pay[d].alloc
        /\ pay'[d].status = pay[d].status \/ (pay[d].status = "POSTED" /\ pay'[d].status = "VOID")
    BY DEF Is
  <2> HIDE DEF DInv
  <2> QED BY <2>1, <2>2, <2>3, <2>4, <2>5, <2>6 DEF RowOK
<1>6. \A d \in Req \ {r} : /\ journal[d].status = "none" => journal'[d].status = "none"
                           /\ doc[d].status = "none" => doc'[d].status = "none"
                           /\ pay[d].status = "none" => pay'[d].status = "none"
  BY <1>2 DEF Is
<1>7. docSeq' \in [Types -> [Years -> Nat \ {0}]]
  BY DEF DTypes
<1> HIDE DEF DInv
<1> QED BY <1>1, <1>2, <1>3, <1>4, <1>5, <1>6, <1>7, DoneInv

LEMMA WriteVoidInv ==
  ASSUME DInv, NEW r \in Req,
         \/ WriteDocVoid(r) \/ WritePayVoid(r)
         \/ WriteReversal(r) /\ UNCHANGED docVars
  PROVE  DInv'
<1>0. doc \in [Req -> DocRow] /\ pay \in [Req -> PayRow]
  BY DEF DInv, DTypes
<1>1. CASE RolledBack(r)
  <2>1. pc[r] # "done"
    BY DEF WriteDocVoid, WritePayVoid, WriteReversal
  <2> QED BY <1>1, <2>1, FailInv
<1>2. CASE WriteDocVoid(r) /\ ~RolledBack(r)
  <2>1. /\ pc[r] = "write" /\ op[r] = "voidDoc" /\ CreateReversal(r) /\ Commit(r)
        /\ UNCHANGED <<ctx, docCtx, taxCode, partner, docSeq, pay>>
        /\ doc' = [doc EXCEPT ![src[r]].status = "VOID"]
    BY <1>2 DEF WriteDocVoid
  <2>2. /\ src[r] \in Req /\ CanLock(r, Exclusive("doc", src[r])) /\ Is(doc[src[r]], "POSTED")
        /\ \A d \in Req \ {src[r]} : doc'[d] = doc[d]
        /\ doc'[src[r]] \in DocRow /\ doc'[src[r]].status = "VOID"
        /\ doc'[src[r]].deletedAt = doc[src[r]].deletedAt
        /\ doc'[src[r]].entry = doc[src[r]].entry /\ doc'[src[r]].date = doc[src[r]].date
    BY <1>2, DocVoided DEF Is
  <2>3. doc' \in [Req -> DocRow]
    <3>1. doc' = [d \in Req |-> doc'[d]]
      BY <1>0, <2>1
    <3> QED BY <1>0, <2>2, <3>1
  <2> QED BY <1>0, <2>1, <2>2, <2>3, VoidInv
<1>3. CASE WritePayVoid(r) /\ ~RolledBack(r)
  <2>1. /\ pc[r] = "write" /\ op[r] = "voidPay" /\ CreateReversal(r) /\ Commit(r)
        /\ UNCHANGED <<ctx, docCtx, taxCode, partner, docSeq>>
        /\ doc' = [d \in Req |-> doc'[d]]
        /\ pay' = [pay EXCEPT ![src[r]].status = "VOID"]
    BY <1>3 DEF WritePayVoid
  <2>2. /\ src[r] \in Req /\ CanLock(r, Exclusive("pay", src[r])) /\ Is(pay[src[r]], "POSTED")
        /\ \A d \in Req \ {src[r]} : pay'[d] = pay[d]
        /\ pay'[src[r]] \in PayRow /\ pay'[src[r]].status = "VOID"
        /\ pay'[src[r]].deletedAt = pay[src[r]].deletedAt /\ pay'[src[r]].alloc = pay[src[r]].alloc
        /\ pay'[src[r]].entry = pay[src[r]].entry /\ pay'[src[r]].date = pay[src[r]].date
        /\ \A d \in Req :
              /\ doc'[d] \in DocRow
              /\ doc'[d].status = doc[d].status /\ doc'[d].deletedAt = doc[d].deletedAt
              /\ doc'[d].date = doc[d].date /\ doc'[d].entry = doc[d].entry
              /\ doc'[d] # doc[d] => CanLock(r, Exclusive("doc", d))
    BY <1>3, PayVoided DEF Is
  <2>3. doc' \in [Req -> DocRow] /\ pay' \in [Req -> PayRow]
    <3>1. pay' = [d \in Req |-> pay'[d]]
      BY <1>0, <2>1
    <3> QED BY <1>0, <2>1, <2>2, <3>1
  <2> QED BY <1>0, <2>1, <2>2, <2>3, VoidInv
<1>4. CASE WriteReversal(r) /\ UNCHANGED docVars /\ ~RolledBack(r)
  <2>1. /\ pc[r] = "write" /\ op[r] = "reverse" /\ CreateReversal(r) /\ Commit(r)
        /\ UNCHANGED <<ctx, docCtx, taxCode, partner, docSeq, doc, pay>>
    BY <1>4 DEF WriteReversal, RolledBack, docVars, docDb
  <2> QED BY <1>0, <2>1, VoidInv
<1> QED BY <1>1, <1>2, <1>3, <1>4

-----------------------------------------------------------------------------
(* The specification keeps the invariant. *)

LEMMA NextDInv ==
  ASSUME DInv, [DNext]_allVars
  PROVE  DInv'
<1>1. CASE UNCHANGED allVars
  <2> USE DEF DInv
  <2>1. /\ UNCHANGED <<journal, lines, nextNumber, pc, op, tgt, date, num, buf, held>>
        /\ UNCHANGED <<doc, pay, docSeq, taxCode, partner, src, calc, pos, docNum>>
    BY <1>1 DEF allVars, vars, db, ctx, docVars, docDb, docCtx
  <2>2. DTypes'
    BY <2>1 DEF DTypes
  <2>3. LocksCompatible'
    BY <2>1 DEF LocksCompatible
  <2>4. ASSUME NEW r \in Req PROVE (Fresh(r) /\ RowOK(r))'
    BY <2>1 DEF Fresh, RowOK
  <2>5. ASSUME NEW r \in Req PROVE (OpFits(r) /\ Knows(r))'
    BY <2>1 DEF Own, OpFits, Knows, DInFlight, Alloc, Swapped
  <2>6. ASSUME NEW r \in Req PROVE (HoldsDoc(r) /\ HoldsPay(r) /\ HoldsSeq(r))'
    <3>1. HoldsDoc(r) /\ HoldsPay(r) /\ HoldsSeq(r)
      BY DEF Own
    <3>2. Alloc(r)' = Alloc(r) /\ TypeOf(r)' = TypeOf(r) /\ Year(r)' = Year(r)
      BY <2>1 DEF Alloc, TypeOf, Year
    <3> HIDE DEF DInv
    <3>3. HoldsDoc(r)'
      BY <2>1, <3>1 DEF HoldsDoc
    <3>4. HoldsPay(r)'
      BY <2>1, <3>1, <3>2 DEF HoldsPay
    <3>5. HoldsSeq(r)'
      BY <2>1, <3>1, <3>2 DEF HoldsSeq
    <3> QED BY <3>3, <3>4, <3>5
  <2> QED BY <2>2, <2>3, <2>4, <2>5, <2>6 DEF Own
<1>2. ASSUME NEW r \in Req, DBegin(r) PROVE DInv'
  BY <1>2, CreateDocInv, CreatePayInv, DeleteInv, BeginDocInv, BeginOtherInv DEF DBegin
<1>3. ASSUME NEW r \in Req, LedgerStep(r) PROVE DInv'
  BY <1>3, LedgerInv, WriteVoidInv DEF LedgerStep
<1>4. ASSUME NEW r \in Req, DocStep(r) PROVE DInv'
  BY <1>4, UpdateRowInv, LoadEntryInv, CalculateInv, LockDocInv, LockPayInv, SettleInv, DrawDocInv,
     WriteDocPostedInv, WritePayPostedInv, WriteVoidInv DEF DocStep
<1>5. ASSUME NEW r \in Req, DAbort(r) PROVE DInv'
  BY <1>5, FailInv DEF DAbort, DInTransaction
<1> QED BY <1>1, <1>2, <1>3, <1>4, <1>5 DEF DNext, DIdle

\* Every step of every request keeps the invariant, so what each request knows of
\* rows it read before its transaction, and holds locked in it, is true whenever the
\* other requests get to run.
THEOREM DocumentsInductive == DSpec => []DInv
<1>1. DInv /\ [DNext]_allVars => DInv'
  BY NextDInv
<1> QED BY InitDInv, <1>1, PTL DEF DSpec

-----------------------------------------------------------------------------
(* What a step does to the tables. *)

\* A step that writes drafts or nothing at all.
DocEdited(d) ==
  /\ doc'[d].entry = doc[d].entry
  /\ doc[d].entry # Null => doc'[d].number = doc[d].number
  /\ \/ doc'[d].status = doc[d].status /\ doc'[d].paid = doc[d].paid
     \/ doc[d].status = "none" /\ doc'[d].status = "DRAFT" /\ doc'[d].paid = 0
  /\ doc[d].status \in {"POSTED", "VOID"} =>
       /\ doc'[d].deletedAt = doc[d].deletedAt
       /\ \/ doc'[d].calc = doc[d].calc /\ doc'[d].date = doc[d].date
          \/ \E r \in Req : UpdateRow(r) /\ src[r] = d
PayEdited(d) ==
  /\ pay'[d].entry = pay[d].entry
  /\ pay[d].entry # Null => pay'[d] = pay[d]
  /\ \/ pay'[d].status = pay[d].status /\ pay'[d].alloc = pay[d].alloc
     \/ pay[d].status = "none" /\ pay'[d].status = "DRAFT"
Edits ==
  /\ UNCHANGED <<journal, lines, docSeq>>
  /\ \A d \in Req : DocEdited(d) /\ PayEdited(d)

\* The documents and payments of a step that touches none.
LEMMA NothingEdited ==
  ASSUME UNCHANGED <<journal, lines, docSeq, doc, pay>>
  PROVE  Edits
BY DEF Edits, DocEdited, PayEdited

LEMMA DraftEdits ==
  ASSUME DInv, NEW r \in Req,
         CreateDoc(r) \/ CreatePay(r) \/ DeleteDoc(r) \/ DeletePay(r) \/ UpdateRow(r)
  PROVE  Edits
<1> USE DEF DInv
<1>0. doc \in [Req -> DocRow] /\ pay \in [Req -> PayRow]
  BY DEF DTypes
<1>1. CASE Rejected(r)
  BY <1>1, NothingEdited DEF Rejected, Reject, db, docVars, docDb
<1>2. CASE CreateDoc(r) /\ ~Rejected(r)
  <2>1. \E ls \in LineLists, p \in Periods :
          /\ Arrives(r, "createDoc") /\ Accepts(Nature, ls, taxCode)
          /\ doc' = [doc EXCEPT ![r] = DraftDoc(p, ComputeTotals(ls))]
          /\ UNCHANGED pay
          /\ Finished(r)
    BY <1>2, Zenon DEF CreateDoc, DraftDoc
  <2>2. PICK ls \in LineLists, p \in Periods :
          /\ Arrives(r, "createDoc") /\ Accepts(Nature, ls, taxCode)
          /\ doc' = [doc EXCEPT ![r] = DraftDoc(p, ComputeTotals(ls))]
          /\ UNCHANGED pay
          /\ Finished(r)
    BY <2>1
  <2> DEFINE row == DraftDoc(p, ComputeTotals(ls))
  <2>3. row.status = "DRAFT" /\ row.entry = Null /\ row.paid = 0
    BY <2>2, ComputeType, NewDocType
  <2>4. doc[r].status = "none" /\ doc[r].entry = Null
    BY <2>2 DEF Arrives, Fresh, RowOK
  <2>5. doc' = [doc EXCEPT ![r] = row] /\ UNCHANGED <<journal, lines, docSeq, pay>>
    BY <2>2 DEF Finished, db
  <2>6. doc'[r] = row /\ \A d \in Req \ {r} : doc'[d] = doc[d]
    <3> HIDE DEF row
    <3> QED BY <1>0, <2>5
  <2> HIDE DEF row, DInv
  <2> QED BY <2>3, <2>4, <2>5, <2>6 DEF Edits, DocEdited, PayEdited
<1>3. CASE CreatePay(r) /\ ~Rejected(r)
  <2>1. \E al \in AllocLists, p \in Periods :
          /\ Arrives(r, "createPay")
          /\ pay' = [pay EXCEPT ![r] = DraftPay(p, al)]
          /\ UNCHANGED doc
          /\ Finished(r)
    BY <1>3, Zenon DEF CreatePay, DraftPay
  <2>2. PICK al \in AllocLists, p \in Periods :
          /\ Arrives(r, "createPay")
          /\ pay' = [pay EXCEPT ![r] = DraftPay(p, al)]
          /\ UNCHANGED doc
          /\ Finished(r)
    BY <2>1
  <2> DEFINE row == DraftPay(p, al)
  <2>3. row.status = "DRAFT" /\ row.entry = Null
    BY DocumentsAssumption, NewPayType
  <2>4. pay[r].status = "none" /\ pay[r].entry = Null
    BY <2>2 DEF Arrives, Fresh, RowOK
  <2>5. pay' = [pay EXCEPT ![r] = row] /\ UNCHANGED <<journal, lines, docSeq, doc>>
    BY <2>2 DEF Finished, db
  <2>6. pay'[r] = row /\ \A d \in Req \ {r} : pay'[d] = pay[d]
    <3> HIDE DEF row
    <3> QED BY <1>0, <2>5
  <2> HIDE DEF row, DInv
  <2> QED BY <2>3, <2>4, <2>5, <2>6 DEF Edits, DocEdited, PayEdited
<1>4. CASE DeleteDoc(r) /\ ~Rejected(r)
  <2>1. PICK d \in Req :
          /\ Is(doc[d], "DRAFT") /\ doc' = [doc EXCEPT ![d].deletedAt = "set"]
          /\ UNCHANGED pay /\ Finished(r)
    BY <1>4 DEF DeleteDoc
  <2> DEFINE row == [doc[d] EXCEPT !.deletedAt = "set"]
  <2>2. doc[d] \in DocRow
    BY <1>0
  <2>3. /\ row.status = doc[d].status /\ row.entry = doc[d].entry /\ row.paid = doc[d].paid
        /\ row.number = doc[d].number /\ doc[d].status = "DRAFT"
    BY <2>1, <2>2 DEF DocRow, Is
  <2>4. doc'[d] = row /\ \A c \in Req \ {d} : doc'[c] = doc[c]
    BY <1>0, <2>1
  <2>5. UNCHANGED <<journal, lines, docSeq, pay>>
    BY <2>1 DEF Finished, db
  <2> HIDE DEF row, DInv
  <2> QED BY <2>3, <2>4, <2>5 DEF Edits, DocEdited, PayEdited
<1>5. CASE DeletePay(r) /\ ~Rejected(r)
  <2>1. PICK d \in Req :
          /\ Is(pay[d], "DRAFT") /\ pay' = [pay EXCEPT ![d].deletedAt = "set"]
          /\ UNCHANGED doc /\ Finished(r)
    BY <1>5 DEF DeletePay
  <2> DEFINE row == [pay[d] EXCEPT !.deletedAt = "set"]
  <2>2. pay[d] \in PayRow /\ pay[d].entry = Null
    BY <1>0, <2>1 DEF RowOK, Is
  <2>3. /\ row.status = pay[d].status /\ row.entry = pay[d].entry /\ row.alloc = pay[d].alloc
    BY <2>1, <2>2 DEF PayRow, Is
  <2>4. pay'[d] = row /\ \A c \in Req \ {d} : pay'[c] = pay[c]
    BY <1>0, <2>1
  <2>5. UNCHANGED <<journal, lines, docSeq, doc>>
    BY <2>1 DEF Finished, db
  <2> HIDE DEF row, DInv
  <2> QED BY <2>2, <2>3, <2>4, <2>5 DEF Edits, DocEdited, PayEdited
<1>6. CASE UpdateRow(r) /\ ~Rejected(r)
  <2> DEFINE d == src[r]
             row == EditedRow(doc[d], date[r], calc[r])
  <2>1. pc[r] = "update" /\ DInFlight(r) /\ OpFits(r) /\ Knows(r)
    BY <1>6 DEF UpdateRow, Own, DInFlight
  <2>2. d \in Req /\ date[r] \in Periods
    BY <2>1 DEF OpFits, Knows
  <2>3. doc' = [doc EXCEPT ![d] = row] /\ UNCHANGED <<journal, lines, docSeq, pay>>
    BY <1>6 DEF UpdateRow, EditedRow, Finished, db
  <2>4. doc[d] \in DocRow /\ calc[r] \in Calcs
    BY <2>2 DEF DTypes
  <2>5. /\ row.status = doc[d].status /\ row.entry = doc[d].entry /\ row.paid = doc[d].paid
        /\ row.number = doc[d].number /\ row.deletedAt = doc[d].deletedAt
    BY <2>2, <2>4, DocRowEdited
  <2>6. doc'[d] = row /\ \A c \in Req \ {d} : doc'[c] = doc[c]
    <3> HIDE DEF row
    <3> QED BY <1>0, <2>2, <2>3
  <2>7. \E q \in Req : UpdateRow(q) /\ src[q] = d
    BY <1>6
  <2> HIDE DEF row, DInv
  <2> QED BY <2>3, <2>5, <2>6, <2>7 DEF Edits, DocEdited, PayEdited
<1> QED BY <1>1, <1>2, <1>3, <1>4, <1>5, <1>6

\* A step edits drafts, or posts or voids a document or a payment, or reverses an entry.
LEMMA StepCases ==
  ASSUME DInv, [DNext]_allVars
  PROVE  \/ Edits
         \/ \E r \in Req : \/ WriteDocPosted(r)
                           \/ WritePayPosted(r)
                           \/ WriteDocVoid(r) /\ ~RolledBack(r)
                           \/ WritePayVoid(r) /\ ~RolledBack(r)
                           \/ WriteReversal(r) /\ ~RolledBack(r) /\ UNCHANGED docVars
<1>1. CASE UNCHANGED allVars
  BY <1>1, NothingEdited DEF allVars, vars, db, docVars, docDb
<1>2. ASSUME NEW r \in Req, Rejected(r) \/ RolledBack(r) PROVE Edits
  BY <1>2, NothingEdited DEF Rejected, RolledBack, Reject, Rollback, db, docVars, docDb
<1>3. ASSUME NEW r \in Req, DBegin(r) PROVE Edits
  <2>1. CASE CreateDoc(r) \/ CreatePay(r) \/ DeleteDoc(r) \/ DeletePay(r)
    BY <2>1, DraftEdits
  <2>2. ASSUME BeginUpdateDoc(r) \/ BeginPostDoc(r) \/ BeginVoidDoc(r) \/ BeginPostPay(r) \/ BeginVoidPay(r)
        PROVE  UNCHANGED <<journal, lines, docSeq, doc, pay>>
    BY <2>2 DEF BeginUpdateDoc, BeginPostDoc, BeginVoidDoc, BeginPostPay, BeginVoidPay, Begins,
                Rejected, Reject, db, docVars, docDb
  <2>3. ASSUME \/ ChangeTaxCode(r) \/ ChangePartner(r)
               \/ (BeginReverse(r) \/ BeginClosePeriod(r)) /\ UNCHANGED docVars
        PROVE  UNCHANGED <<journal, lines, docSeq, doc, pay>>
    BY <2>3 DEF ChangeTaxCode, ChangePartner, BeginReverse, BeginClosePeriod,
                Rejected, Reject, db, docVars, docDb
  <2> QED BY <1>3, <2>1, <2>2, <2>3, NothingEdited DEF DBegin
<1>4. ASSUME NEW r \in Req, LedgerStep(r), ~WriteReversal(r) PROVE Edits
  <2>1. UNCHANGED <<journal, lines>>
    BY <1>4 DEF LedgerStep, FindOpenPeriod, FindClosedYear, AssertPostableAccounts, LockYearShared,
            RecheckYear, LockPeriodShared, NextNumber, SetPeriodClosed, Reject, Rollback, db
  <2> QED BY <1>4, <2>1, NothingEdited DEF LedgerStep, docVars, docDb
<1>5. ASSUME NEW r \in Req, LedgerStep(r), WriteReversal(r), ~RolledBack(r)
      PROVE  WriteReversal(r) /\ ~RolledBack(r) /\ UNCHANGED docVars
  BY <1>5 DEF LedgerStep
<1>6. ASSUME NEW r \in Req,
             UpdateRow(r) \/ LoadEntry(r) \/ Calculate(r) \/ LockDoc(r) \/ LockPay(r)
               \/ Settle(r) \/ Unwind(r) \/ DrawDoc(r)
      PROVE  Edits
  <2>1. CASE UpdateRow(r)
    BY <2>1, DraftEdits
  <2>2. CASE LoadEntry(r) \/ Calculate(r)
    BY <2>2, NothingEdited DEF LoadEntry, Calculate, Rejected, Reject, db, docVars, docDb
  <2>3. CASE LockDoc(r) \/ LockPay(r) \/ Settle(r) \/ Unwind(r) \/ DrawDoc(r)
    BY <2>3, NothingEdited DEF LockDoc, LockPay, Settle, Unwind, DrawDoc, NextAlloc,
                               RolledBack, Rollback, db, docVars, docDb
  <2> QED BY <1>6, <2>1, <2>2, <2>3
<1>7. ASSUME NEW r \in Req, DAbort(r) PROVE Edits
  BY <1>2, <1>7 DEF DAbort
<1> QED BY <1>1, <1>2, <1>3, <1>4, <1>5, <1>6, <1>7 DEF DNext, DIdle, DocStep

-----------------------------------------------------------------------------
(* Types, and document numbers. *)

\* DTypeOK: the rows and counters of documents, and what requests carry and hold.
THEOREM DocumentTypes == DSpec => []DTypeOK
<1>1. ASSUME DInv PROVE DTypeOK
  <2>1. ASSUME NEW r \in Req
        PROVE  /\ DOMAIN doc[r] = DOMAIN NoDoc /\ doc[r].status \in Statuses
               /\ doc[r].deletedAt \in {Null, "set"} /\ doc[r].calc.total \in Nat
               /\ doc[r].paid \in Int /\ doc[r].number \in Nat /\ doc[r].entry \in Req \cup {Null}
    <3>1. doc[r] \in DocRow
      BY <1>1 DEF DInv, DTypes
    <3> QED BY <3>1 DEF DocRow, NoDoc, Calcs
  <2>2. ASSUME NEW r \in Req
        PROVE  /\ DOMAIN pay[r] = DOMAIN NoPay /\ pay[r].status \in Statuses
               /\ pay[r].deletedAt \in {Null, "set"}
               /\ pay[r].number \in Nat /\ pay[r].entry \in Req \cup {Null}
    <3>1. pay[r] \in PayRow
      BY <1>1 DEF DInv, DTypes
    <3> QED BY <3>1 DEF PayRow, NoPay
  <2>3. ASSUME NEW r \in Req PROVE DOMAIN calc[r] = DOMAIN NoCalc
    <3>1. calc[r] \in Calcs
      BY <1>1 DEF DInv, DTypes
    <3> QED BY <3>1 DEF Calcs, NoCalc
  <2>4. \A c \in DOMAIN taxCode : taxCode[c].status \in {"active", "inactive", "deleted"}
    BY <1>1 DEF TaxCodeRow, DInv, DTypes
  <2> QED BY <1>1, <2>1, <2>2, <2>3, <2>4 DEF DTypeOK, DInv, DTypes
<1> QED BY DocumentsInductive, <1>1, PTL

\* The rows of S carry the numbers below n, each exactly once.
Consecutive(S, f, n) ==
  /\ \A d \in S : f[d].number \in 1 .. (n - 1)
  /\ \A m \in 1 .. (n - 1) : \E d \in S : f[d].number = m
  /\ \A c, d \in S : f[c].number = f[d].number => c = d

LEMMA ConsecutiveCounts ==
  ASSUME NEW S, NEW f, NEW n \in Nat \ {0}, Consecutive(S, f, n)
  PROVE  {f[d].number : d \in S} = 1 .. (n - 1) /\ Cardinality(S) = n - 1
<1> DEFINE g == [d \in S |-> f[d].number]
           T == 1 .. (n - 1)
<1>1. {f[d].number : d \in S} = T
  BY DEF Consecutive
<1>2. g \in Injection(S, T) /\ g \in Surjection(S, T)
  BY DEF Consecutive, Injection, IsInjective, Surjection
<1>3. IsFiniteSet(T) /\ Cardinality(T) = n - 1
  BY FS_Interval
<1> HIDE DEF g, T
<1>4. Cardinality(S) = Cardinality(T)
  BY <1>2, <1>3, FS_Injection
<1> QED BY <1>1, <1>3, <1>4 DEF T

LEMMA ConsecutiveSame ==
  ASSUME NEW S, NEW f, NEW g, NEW n, Consecutive(S, f, n), \A d \in S : g[d].number = f[d].number
  PROVE  Consecutive(S, g, n)
BY DEF Consecutive

LEMMA ConsecutiveNext ==
  ASSUME NEW S, NEW f, NEW g, NEW n \in Nat \ {0}, Consecutive(S, f, n),
         NEW e, e \notin S, g[e].number = n, \A d \in S : g[d].number = f[d].number
  PROVE  Consecutive(S \cup {e}, g, n + 1)
<1>1. ASSUME NEW d \in S PROVE g[d].number \in 1 .. (n - 1)
  BY DEF Consecutive
<1>2. ASSUME NEW m \in 1 .. (n + 1 - 1) PROVE \E d \in S \cup {e} : g[d].number = m
  <2>1. CASE m = n
    BY <2>1
  <2>2. CASE m # n
    <3>1. m \in 1 .. (n - 1)
      BY <2>2
    <3>2. PICK d \in S : f[d].number = m
      BY <3>1 DEF Consecutive
    <3> QED BY <3>2
  <2> QED BY <2>1, <2>2
<1>3. ASSUME NEW c \in S \cup {e}, NEW d \in S \cup {e}, g[c].number = g[d].number
      PROVE  c = d
  <2>1. CASE c \in S /\ d \in S
    <3>1. f[c].number = f[d].number
      BY <1>3, <2>1
    <3> QED BY <2>1, <3>1 DEF Consecutive
  <2>2. CASE c \notin S \/ d \notin S
    <3>1. \A b \in S : g[b].number # n
      BY <1>1
    <3> QED BY <1>3, <2>2, <3>1
  <2> QED BY <2>1, <2>2
<1>4. ASSUME NEW d \in S \cup {e} PROVE g[d].number \in 1 .. (n + 1 - 1)
  BY <1>1
<1> QED BY <1>2, <1>3, <1>4 DEF Consecutive

\* The inductive form: it says which numbers are taken and that no two rows share one.
NumbersInv ==
  \A y \in Years : /\ Consecutive(Numbered(doc, y), doc, docSeq["DOC"][y])
                   /\ Consecutive(Numbered(pay, y), pay, docSeq["PAY"][y])

LEMMA InitNumbers == DInit => NumbersInv
<1> SUFFICES ASSUME DInit, NEW y \in Years
             PROVE  /\ Consecutive(Numbered(doc, y), doc, docSeq["DOC"][y])
                    /\ Consecutive(Numbered(pay, y), pay, docSeq["PAY"][y])
  BY DEF NumbersInv
<1>1. "DOC" \in Types /\ "PAY" \in Types
  BY DEF Types
<1>2. /\ docSeq["PAY"][y] = 1
      /\ docSeq["DOC"][y] = IF y = YearOf[SomePeriod] THEN Len(History) + 1 ELSE 1
  BY <1>1, InitTables
<1>3. Numbered(pay, y) = {}
  <2>1. ASSUME NEW d \in Req PROVE pay[d].entry = Null
    <3>1. pay[d] = IF d \in DOMAIN Drafted THEN DraftedPay(d) ELSE NoPay
      BY InitTables
    <3> QED BY <3>1 DEF DraftedPay, NoPay
  <2> QED BY <2>1 DEF Numbered
<1>4. ASSUME NEW d \in Req
      PROVE  /\ InHistory(d) => doc[d].entry = d /\ doc[d].number = Index(d)
                                /\ journal[d].date = SomePeriod
             /\ ~InHistory(d) => doc[d].entry = Null
  <2>1. doc[d] = IF InHistory(d) THEN HistoryDoc(d) ELSE NoDoc
    BY InitTables
  <2>2. journal[d] = IF InHistory(d) THEN HistoryEntry(d) ELSE NoRow
    BY InitTables
  <2>3. InHistory(d) => doc[d].entry = d /\ doc[d].number = Index(d)
    BY <2>1 DEF HistoryDoc
  <2>4. ~InHistory(d) => doc[d].entry = Null
    BY <2>1 DEF NoDoc
  <2>5. InHistory(d) => journal[d].date = SomePeriod
    BY <2>2 DEF HistoryEntry, NoRow
  <2> QED BY <2>3, <2>4, <2>5
<1>5. Numbered(doc, y) = IF y = YearOf[SomePeriod] THEN {d \in Req : InHistory(d)} ELSE {}
  <2>1. \A d \in Req : d # Null
    BY LedgerAssumption
  <2> QED BY <1>4, <2>1 DEF Numbered
<1>6. Consecutive(Numbered(pay, y), pay, docSeq["PAY"][y])
  BY <1>2, <1>3 DEF Consecutive
<1>7. CASE y # YearOf[SomePeriod]
  BY <1>2, <1>5, <1>6, <1>7 DEF Consecutive
<1>8. CASE y = YearOf[SomePeriod]
  <2> DEFINE S == {d \in Req : InHistory(d)}
             n == Len(History)
  <2>1. n \in Nat /\ DOMAIN History = 1 .. n
    BY HistoryTypes
  <2>2. ASSUME NEW d \in S
        PROVE  doc[d].number = Index(d) /\ Index(d) \in 1 .. n /\ History[Index(d)] = d
    BY <1>4, <2>1, HistoryTypes
  <2>3. ASSUME NEW m \in 1 .. n PROVE \E d \in S : doc[d].number = m
    <3>1. m \in DOMAIN History
      BY <2>1
    <3>2. History[m] \in Req /\ Index(History[m]) = m /\ InHistory(History[m])
      BY <3>1, HistoryTypes DEF InHistory
    <3>3. History[m] \in S /\ doc[History[m]].number = m
      BY <1>4, <3>2
    <3> QED BY <3>3
  <2>4. ASSUME NEW c \in S, NEW d \in S, doc[c].number = doc[d].number PROVE c = d
    <3>1. Index(c) = Index(d) /\ History[Index(c)] = c /\ History[Index(d)] = d
      BY <2>2, <2>4
    <3> QED BY <3>1
  <2>5. (n + 1) - 1 = n
    BY <2>1
  <2>6. Numbered(doc, y) = S /\ docSeq["DOC"][y] = n + 1
    BY <1>2, <1>5, <1>8
  <2> HIDE DEF S, n
  <2>7. Consecutive(S, doc, n + 1)
    <3>1. \A d \in S : doc[d].number \in 1 .. ((n + 1) - 1)
      BY <2>2, <2>5
    <3>2. \A m \in 1 .. ((n + 1) - 1) : \E d \in S : doc[d].number = m
      BY <2>3, <2>5
    <3>3. \A c, d \in S : doc[c].number = doc[d].number => c = d
      BY <2>4
    <3> QED BY <3>1, <3>2, <3>3, Zenon DEF Consecutive
  <2> QED BY <1>6, <2>6, <2>7
<1> QED BY <1>7, <1>8

\* The date of every entry that a document names stays what it is.
LEMMA EntryDatesPersist ==
  ASSUME DInv, [DNext]_allVars
  PROVE  \A e \in Req : journal[e].status # "none" => journal'[e].date = journal[e].date
<1>1. CASE Edits
  BY <1>1 DEF Edits
<1>2. ASSUME NEW r \in Req, NEW s \in Sources, pc[r] = "write", op[r] \in PostOps, CreatePostedEntry(r, s)
      PROVE  \A e \in Req : journal[e].status # "none" => journal'[e].date = journal[e].date
  <2>1. journal[r].status = "none" /\ \A e \in Req \ {r} : journal'[e] = journal[e]
    BY <1>2, PostedEntry
  <2> QED BY <2>1
<1>3. ASSUME NEW r \in Req, pc[r] = "write", op[r] \in {"voidDoc", "voidPay", "reverse"}, CreateReversal(r)
      PROVE  \A e \in Req : journal[e].status # "none" => journal'[e].date = journal[e].date
  <2>1. /\ journal[r].status = "none" /\ journal'[tgt[r]].date = journal[tgt[r]].date
        /\ \A e \in Req \ {r, tgt[r]} : journal'[e] = journal[e]
    BY <1>3, ReversalEntry
  <2> QED BY <2>1
<1>4. ASSUME NEW r \in Req, WriteDocPosted(r) \/ WritePayPosted(r)
      PROVE  \A e \in Req : journal[e].status # "none" => journal'[e].date = journal[e].date
  <2>1. DocSource \in Sources /\ "PAYMENT" \in Sources
    BY DEF DocSource, Sources
  <2> QED BY <1>2, <1>4, <2>1, OpNames DEF WriteDocPosted, WritePayPosted
<1>5. ASSUME NEW r \in Req, ~RolledBack(r),
             \/ WriteDocVoid(r)
             \/ WritePayVoid(r)
             \/ WriteReversal(r) /\ UNCHANGED docVars
      PROVE  \A e \in Req : journal[e].status # "none" => journal'[e].date = journal[e].date
  BY <1>3, <1>5 DEF WriteDocVoid, WritePayVoid, WriteReversal, RolledBack
<1>6. CASE \E r \in Req : \/ WriteDocPosted(r)
                          \/ WritePayPosted(r)
                          \/ WriteDocVoid(r) /\ ~RolledBack(r)
                          \/ WritePayVoid(r) /\ ~RolledBack(r)
                          \/ WriteReversal(r) /\ ~RolledBack(r) /\ UNCHANGED docVars
  <2>1. PICK r \in Req : \/ WriteDocPosted(r)
                         \/ WritePayPosted(r)
                         \/ WriteDocVoid(r) /\ ~RolledBack(r)
                         \/ WritePayVoid(r) /\ ~RolledBack(r)
                         \/ WriteReversal(r) /\ ~RolledBack(r) /\ UNCHANGED docVars
    BY <1>6
  <2>2. CASE WriteDocPosted(r) \/ WritePayPosted(r)
    BY <1>4, <2>2
  <2>3. CASE ~(WriteDocPosted(r) \/ WritePayPosted(r))
    <3>1. /\ ~RolledBack(r)
          /\ \/ WriteDocVoid(r)
             \/ WritePayVoid(r)
             \/ WriteReversal(r) /\ UNCHANGED docVars
      BY <2>1, <2>3, Zenon
    <3> QED BY <1>5, <3>1, Zenon
  <2> QED BY <2>2, <2>3
<1> QED BY <1>1, <1>6, StepCases

\* The same rows of a table f of documents or payments, over a journal J.
NumberedIn(f, J, y) == {d \in Req : f[d].entry # Null /\ YearOf[J[f[d].entry].date] = y}

LEMMA NumbersKept ==
  ASSUME NEW f, NEW g, NEW J, NEW K, NEW y, NEW n, Consecutive(NumberedIn(f, J, y), f, n),
         \A d \in Req : /\ g[d].entry = f[d].entry
                        /\ f[d].entry # Null => /\ g[d].number = f[d].number
                                                /\ K[f[d].entry].date = J[f[d].entry].date
  PROVE  Consecutive(NumberedIn(g, K, y), g, n)
<1>1. NumberedIn(g, K, y) = NumberedIn(f, J, y)
  BY DEF NumberedIn
<1>2. \A d \in NumberedIn(f, J, y) : g[d].number = f[d].number
  BY DEF NumberedIn
<1> QED BY <1>1, <1>2, ConsecutiveSame

\* Row e is numbered, and no other is.
OneMore(f, g, J, K, e) ==
  /\ e \in Req /\ f[e].entry = Null /\ g[e].entry # Null
  /\ \A d \in Req \ {e} :
       /\ g[d].entry = f[d].entry
       /\ f[d].entry # Null => /\ g[d].number = f[d].number
                               /\ K[f[d].entry].date = J[f[d].entry].date

LEMMA NumberAdded ==
  ASSUME NEW f, NEW g, NEW J, NEW K, NEW y, NEW n \in Nat \ {0},
         Consecutive(NumberedIn(f, J, y), f, n), NEW e \in Req, OneMore(f, g, J, K, e)
  PROVE  IF YearOf[K[g[e].entry].date] = y
           THEN g[e].number = n => Consecutive(NumberedIn(g, K, y), g, n + 1)
           ELSE Consecutive(NumberedIn(g, K, y), g, n)
<1> DEFINE F == NumberedIn(f, J, y)
           G == NumberedIn(g, K, y)
<1>1. f[e].entry = Null /\ g[e].entry # Null
  BY DEF OneMore
<1>2. ASSUME NEW d \in Req, d # e
      PROVE  /\ g[d].entry = f[d].entry
             /\ f[d].entry # Null => /\ g[d].number = f[d].number
                                     /\ K[f[d].entry].date = J[f[d].entry].date
  <2>1. d \in Req \ {e}
    BY <1>2
  <2> HIDE DEF F, G
  <2> QED BY <2>1 DEF OneMore
<1>3. \A d : d \in F <=> d \in Req /\ f[d].entry # Null /\ YearOf[J[f[d].entry].date] = y
  BY DEF NumberedIn
<1>4. \A d : d \in G <=> d \in Req /\ g[d].entry # Null /\ YearOf[K[g[d].entry].date] = y
  BY DEF NumberedIn
<1>5. Consecutive(F, f, n)
  OBVIOUS
<1> HIDE DEF F, G
<1>6. e \notin F
  BY <1>1, <1>3
<1>7. ASSUME NEW d \in F
      PROVE  g[d].number = f[d].number
  <2>1. d \in Req /\ f[d].entry # Null
    BY <1>3
  <2>2. d # e
    BY <1>6
  <2> QED BY <2>1, <2>2, <1>2
<1>8. ASSUME NEW d \in Req, d # e
      PROVE  d \in F <=> d \in G
  <2>1. g[d].entry = f[d].entry
    BY <1>8, <1>2
  <2>2. CASE f[d].entry = Null
    BY <1>3, <1>4, <2>1, <2>2
  <2>3. CASE f[d].entry # Null
    <3>1. K[g[d].entry].date = J[f[d].entry].date
      BY <1>8, <1>2, <2>1, <2>3
    <3> QED BY <1>3, <1>4, <2>1, <3>1
  <2> QED BY <2>2, <2>3
<1>9. F \subseteq Req /\ G \subseteq Req
  BY <1>3, <1>4
<1>10. CASE YearOf[K[g[e].entry].date] = y
  <2>1. e \in G
    BY <1>1, <1>4, <1>10
  <2>2. G = F \cup {e}
    BY <1>8, <1>9, <2>1
  <2>3. g[e].number = n => Consecutive(G, g, n + 1)
    BY <1>5, <1>6, <1>7, <2>2, ConsecutiveNext
  <2> QED BY <1>10, <2>3 DEF G
<1>11. CASE YearOf[K[g[e].entry].date] # y
  <2>1. e \notin G
    BY <1>4, <1>11
  <2>2. G = F
    BY <1>6, <1>8, <1>9, <2>1
  <2>3. Consecutive(G, g, n)
    BY <1>5, <1>7, <2>2, ConsecutiveSame
  <2> QED BY <1>11, <2>3 DEF G
<1> QED BY <1>10, <1>11

LEMMA NumbersStep ==
  ASSUME DInv, NumbersInv, [DNext]_allVars
  PROVE  NumbersInv'
<1> SUFFICES ASSUME NEW y \in Years
             PROVE  /\ Consecutive(NumberedIn(doc', journal', y), doc', docSeq'["DOC"][y])
                    /\ Consecutive(NumberedIn(pay', journal', y), pay', docSeq'["PAY"][y])
  BY DEF NumbersInv, Numbered, NumberedIn
<1>1. /\ Consecutive(NumberedIn(doc, journal, y), doc, docSeq["DOC"][y])
      /\ Consecutive(NumberedIn(pay, journal, y), pay, docSeq["PAY"][y])
  BY DEF NumbersInv, Numbered, NumberedIn
<1>2. ASSUME NEW d \in Req
      PROVE  /\ doc[d].entry # Null => journal'[doc[d].entry].date = journal[doc[d].entry].date
             /\ pay[d].entry # Null => journal'[pay[d].entry].date = journal[pay[d].entry].date
  <2>1. /\ doc[d].entry # Null => doc[d].entry \in Req /\ journal[doc[d].entry].status # "none"
        /\ pay[d].entry # Null => pay[d].entry \in Req /\ journal[pay[d].entry].status # "none"
    BY DEF DInv, DTypes, DocRow, PayRow, RowOK
  <2> QED BY <2>1, EntryDatesPersist
<1>3. /\ "DOC" \in Types /\ "PAY" \in Types
      /\ docSeq["DOC"][y] \in Nat \ {0} /\ docSeq["PAY"][y] \in Nat \ {0}
  BY DEF DInv, DTypes, Types
<1>4. ASSUME \A d \in Req : /\ doc'[d].entry = doc[d].entry
                            /\ doc[d].entry # Null => doc'[d].number = doc[d].number,
             docSeq'["DOC"][y] = docSeq["DOC"][y]
      PROVE  Consecutive(NumberedIn(doc', journal', y), doc', docSeq'["DOC"][y])
  BY <1>1, <1>2, <1>4, NumbersKept
<1>5. ASSUME \A d \in Req : /\ pay'[d].entry = pay[d].entry
                            /\ pay[d].entry # Null => pay'[d].number = pay[d].number,
             docSeq'["PAY"][y] = docSeq["PAY"][y]
      PROVE  Consecutive(NumberedIn(pay', journal', y), pay', docSeq'["PAY"][y])
  BY <1>1, <1>2, <1>5, NumbersKept
<1>6. CASE Edits
  BY <1>4, <1>5, <1>6 DEF Edits, DocEdited, PayEdited
<1>7. ASSUME NEW r \in Req, WriteDocPosted(r)
      PROVE  /\ Consecutive(NumberedIn(doc', journal', y), doc', docSeq'["DOC"][y])
             /\ Consecutive(NumberedIn(pay', journal', y), pay', docSeq'["PAY"][y])
  <2>1. /\ pc[r] = "write" /\ op[r] = "postDoc" /\ src[r] \in Req /\ doc[src[r]].entry = Null
        /\ doc'[src[r]].entry = r /\ doc'[src[r]].number = docNum[r]
        /\ \A d \in Req \ {src[r]} : doc'[d] = doc[d]
        /\ pay' = pay /\ TypeOf(r) = "DOC"
    BY <1>7, DocPosted
  <2>2. DocSource \in Sources
    BY DEF DocSource, Sources
  <2>3. journal'[r].date = date[r]
    BY <1>7, <2>1, <2>2, PostedEntry, OpNames DEF WriteDocPosted
  <2>4. /\ docNum[r] = docSeq["DOC"][Year(r)] /\ docSeq'["DOC"][Year(r)] = docNum[r] + 1
        /\ y # Year(r) => docSeq'["DOC"][y] = docSeq["DOC"][y]
        /\ docSeq'["PAY"][y] = docSeq["PAY"][y]
    <3>1. IncrementDoc(r)
      BY <1>7 DEF WriteDocPosted
    <3>2. /\ docNum[r] = docSeq[TypeOf(r)][Year(r)] /\ docSeq'[TypeOf(r)][Year(r)] = docNum[r] + 1
          /\ \A t \in Types, z \in Years :
               t # TypeOf(r) \/ z # Year(r) => docSeq'[t][z] = docSeq[t][z]
      BY <2>1, <3>1, CounterIncremented
    <3>3. "PAY" # TypeOf(r)
      BY <2>1
    <3> QED BY <1>3, <2>1, <3>2, <3>3
  <2>5. Consecutive(NumberedIn(pay', journal', y), pay', docSeq'["PAY"][y])
    BY <1>5, <2>1, <2>4
  <2>6. YearOf[journal'[doc'[src[r]].entry].date] = Year(r) /\ r # Null
    BY <2>1, <2>3, LedgerAssumption DEF Year
  <2> DEFINE n == docSeq["DOC"][y]
  <2>7. IF YearOf[journal'[doc'[src[r]].entry].date] = y
          THEN doc'[src[r]].number = n => Consecutive(NumberedIn(doc', journal', y), doc', n + 1)
          ELSE Consecutive(NumberedIn(doc', journal', y), doc', n)
    <3>1. n \in Nat \ {0} /\ Consecutive(NumberedIn(doc, journal, y), doc, n)
      BY <1>1, <1>3
    <3>2. src[r] \in Req /\ doc[src[r]].entry = Null /\ doc'[src[r]].entry # Null
      BY <2>1, <2>6
    <3>3. \A d \in Req \ {src[r]} :
            /\ doc'[d].entry = doc[d].entry
            /\ doc[d].entry # Null =>
                 /\ doc'[d].number = doc[d].number
                 /\ journal'[doc[d].entry].date = journal[doc[d].entry].date
      BY <1>2, <2>1
    <3>4. OneMore(doc, doc', journal, journal', src[r])
      BY <3>2, <3>3 DEF OneMore
    <3> HIDE DEF n
    <3> QED BY <3>1, <3>2, <3>4, NumberAdded
  <2>8. Consecutive(NumberedIn(doc', journal', y), doc', docSeq'["DOC"][y])
    BY <2>1, <2>4, <2>6, <2>7
  <2> QED BY <2>5, <2>8
<1>8. ASSUME NEW r \in Req, WritePayPosted(r)
      PROVE  /\ Consecutive(NumberedIn(doc', journal', y), doc', docSeq'["DOC"][y])
             /\ Consecutive(NumberedIn(pay', journal', y), pay', docSeq'["PAY"][y])
  <2>1. /\ pc[r] = "write" /\ op[r] = "postPay" /\ src[r] \in Req /\ pay[src[r]].entry = Null
        /\ pay'[src[r]].entry = r /\ pay'[src[r]].number = docNum[r]
        /\ \A d \in Req \ {src[r]} : pay'[d] = pay[d]
        /\ \A d \in Req : doc'[d].number = doc[d].number /\ doc'[d].entry = doc[d].entry
        /\ TypeOf(r) = "PAY"
    BY <1>8, PayPosted
  <2>2. "PAYMENT" \in Sources
    BY DEF Sources
  <2>3. journal'[r].date = date[r]
    BY <1>8, <2>1, <2>2, PostedEntry, OpNames DEF WritePayPosted
  <2>4. /\ docNum[r] = docSeq["PAY"][Year(r)] /\ docSeq'["PAY"][Year(r)] = docNum[r] + 1
        /\ y # Year(r) => docSeq'["PAY"][y] = docSeq["PAY"][y]
        /\ docSeq'["DOC"][y] = docSeq["DOC"][y]
    <3>1. IncrementDoc(r)
      BY <1>8 DEF WritePayPosted
    <3>2. /\ docNum[r] = docSeq[TypeOf(r)][Year(r)] /\ docSeq'[TypeOf(r)][Year(r)] = docNum[r] + 1
          /\ \A t \in Types, z \in Years :
               t # TypeOf(r) \/ z # Year(r) => docSeq'[t][z] = docSeq[t][z]
      BY <2>1, <3>1, CounterIncremented
    <3>3. "DOC" # TypeOf(r)
      BY <2>1
    <3> QED BY <1>3, <2>1, <3>2, <3>3
  <2>5. Consecutive(NumberedIn(doc', journal', y), doc', docSeq'["DOC"][y])
    BY <1>4, <2>1, <2>4
  <2>6. YearOf[journal'[pay'[src[r]].entry].date] = Year(r) /\ r # Null
    BY <2>1, <2>3, LedgerAssumption DEF Year
  <2> DEFINE n == docSeq["PAY"][y]
  <2>7. IF YearOf[journal'[pay'[src[r]].entry].date] = y
          THEN pay'[src[r]].number = n => Consecutive(NumberedIn(pay', journal', y), pay', n + 1)
          ELSE Consecutive(NumberedIn(pay', journal', y), pay', n)
    <3>1. n \in Nat \ {0} /\ Consecutive(NumberedIn(pay, journal, y), pay, n)
      BY <1>1, <1>3
    <3>2. src[r] \in Req /\ pay[src[r]].entry = Null /\ pay'[src[r]].entry # Null
      BY <2>1, <2>6
    <3>3. \A d \in Req \ {src[r]} :
            /\ pay'[d].entry = pay[d].entry
            /\ pay[d].entry # Null =>
                 /\ pay'[d].number = pay[d].number
                 /\ journal'[pay[d].entry].date = journal[pay[d].entry].date
      BY <1>2, <2>1
    <3>4. OneMore(pay, pay', journal, journal', src[r])
      BY <3>2, <3>3 DEF OneMore
    <3> HIDE DEF n
    <3> QED BY <3>1, <3>2, <3>4, NumberAdded
  <2>8. Consecutive(NumberedIn(pay', journal', y), pay', docSeq'["PAY"][y])
    BY <2>1, <2>4, <2>6, <2>7
  <2> QED BY <2>5, <2>8
<1>9. ASSUME NEW r \in Req, WriteDocVoid(r), ~RolledBack(r)
      PROVE  /\ Consecutive(NumberedIn(doc', journal', y), doc', docSeq'["DOC"][y])
             /\ Consecutive(NumberedIn(pay', journal', y), pay', docSeq'["PAY"][y])
  <2>1. /\ doc'[src[r]].number = doc[src[r]].number /\ doc'[src[r]].entry = doc[src[r]].entry
        /\ \A d \in Req \ {src[r]} : doc'[d] = doc[d]
        /\ pay' = pay /\ docSeq' = docSeq
    BY <1>9, DocVoided
  <2>2. \A d \in Req : doc'[d].number = doc[d].number /\ doc'[d].entry = doc[d].entry
    BY <2>1
  <2> QED BY <1>4, <1>5, <2>1, <2>2
<1>10. ASSUME NEW r \in Req, WritePayVoid(r), ~RolledBack(r)
       PROVE  /\ Consecutive(NumberedIn(doc', journal', y), doc', docSeq'["DOC"][y])
              /\ Consecutive(NumberedIn(pay', journal', y), pay', docSeq'["PAY"][y])
  <2>1. /\ pay'[src[r]].number = pay[src[r]].number /\ pay'[src[r]].entry = pay[src[r]].entry
        /\ \A d \in Req \ {src[r]} : pay'[d] = pay[d]
        /\ \A d \in Req : doc'[d].number = doc[d].number /\ doc'[d].entry = doc[d].entry
        /\ docSeq' = docSeq
    BY <1>10, PayVoided
  <2>2. \A d \in Req : pay'[d].number = pay[d].number /\ pay'[d].entry = pay[d].entry
    BY <2>1
  <2> QED BY <1>4, <1>5, <2>1, <2>2
<1>11. ASSUME UNCHANGED docVars
       PROVE  /\ Consecutive(NumberedIn(doc', journal', y), doc', docSeq'["DOC"][y])
              /\ Consecutive(NumberedIn(pay', journal', y), pay', docSeq'["PAY"][y])
  BY <1>4, <1>5, <1>11 DEF docVars, docDb
<1> QED BY <1>6, <1>7, <1>8, <1>9, <1>10, <1>11, StepCases

\* DocumentNumbersGapless: the numbers of invoices or bills, and of payments, are in
\* each fiscal year 1, 2, 3 ... without a gap or a duplicate, whatever was aborted or
\* voided in between.
THEOREM DocumentNumbering == DSpec => []DocumentNumbersGapless
<1>1. DInit => NumbersInv
  BY InitNumbers
<1>2. DInv /\ NumbersInv /\ [DNext]_allVars => NumbersInv'
  BY NumbersStep
<1>3. ASSUME DInv, NumbersInv PROVE DocumentNumbersGapless
  <2> SUFFICES ASSUME NEW y \in Years
               PROVE  /\ {doc[d].number : d \in Numbered(doc, y)} = 1 .. (docSeq["DOC"][y] - 1)
                      /\ Cardinality(Numbered(doc, y)) = docSeq["DOC"][y] - 1
                      /\ {pay[d].number : d \in Numbered(pay, y)} = 1 .. (docSeq["PAY"][y] - 1)
                      /\ Cardinality(Numbered(pay, y)) = docSeq["PAY"][y] - 1
    BY DEF DocumentNumbersGapless, GaplessIn
  <2>1. docSeq["DOC"][y] \in Nat \ {0} /\ docSeq["PAY"][y] \in Nat \ {0}
    BY <1>3 DEF DInv, DTypes, Types
  <2>2. /\ Consecutive(Numbered(doc, y), doc, docSeq["DOC"][y])
        /\ Consecutive(Numbered(pay, y), pay, docSeq["PAY"][y])
    BY <1>3 DEF NumbersInv
  <2> QED BY <2>1, <2>2, ConsecutiveCounts
<1> QED BY <1>1, <1>2, <1>3, DocumentsInductive, PTL DEF DSpec

-----------------------------------------------------------------------------
(* What is paid. *)

\* What the payments of S allocate to document d.
PaidBy(f, S, d) == SumOver([p \in S |-> AllocatedTo(f[p].alloc, d)], S)

LEMMA PaidBySame ==
  ASSUME NEW f, NEW g, NEW S, \A p \in S : g[p].alloc = f[p].alloc, NEW d
  PROVE  PaidBy(g, S, d) = PaidBy(f, S, d)
<1>1. [p \in S |-> AllocatedTo(g[p].alloc, d)] = [p \in S |-> AllocatedTo(f[p].alloc, d)]
  OBVIOUS
<1> QED BY <1>1 DEF PaidBy

\* What is paid is an amount.
LEMMA PaidByNat ==
  ASSUME NEW f, NEW S, IsFiniteSet(S), \A p \in S : f[p].alloc \in Allocs \cup {<<>>}, NEW d
  PROVE  PaidBy(f, S, d) \in Nat
<1> DEFINE v == [p \in S |-> AllocatedTo(f[p].alloc, d)]
<1>1. \A p \in S : v[p] \in Nat
  BY AllocTypes
<1>2. PaidBy(f, S, d) = SumOver(v, S)
  BY DEF PaidBy
<1> HIDE DEF v
<1> QED BY <1>1, <1>2, SumNat

\* One more payment.
LEMMA PaidByMore ==
  ASSUME NEW f, NEW S, IsFiniteSet(S), NEW x, x \notin S,
         \A p \in S \cup {x} : f[p].alloc \in Allocs \cup {<<>>}, NEW d
  PROVE  /\ PaidBy(f, S, d) \in Nat
         /\ PaidBy(f, S \cup {x}, d) = PaidBy(f, S, d) + AllocatedTo(f[x].alloc, d)
<1> DEFINE v == [p \in S |-> AllocatedTo(f[p].alloc, d)]
           w == [p \in S \cup {x} |-> AllocatedTo(f[p].alloc, d)]
<1>1. \A p \in S \cup {x} : AllocatedTo(f[p].alloc, d) \in Nat
  BY AllocTypes
<1>2. /\ \A p \in S : v[p] \in Nat /\ w[p] = v[p]
      /\ \A p \in S \cup {x} : w[p] \in Int
      /\ w[x] = AllocatedTo(f[x].alloc, d) /\ w[x] \in Nat
  BY <1>1
<1>3. PaidBy(f, S, d) = SumOver(v, S) /\ PaidBy(f, S \cup {x}, d) = SumOver(w, S \cup {x})
  BY DEF PaidBy
<1> HIDE DEF v, w
<1>4. SumOver(v, S) \in Nat
  BY <1>2, SumNat
<1>5. SumOver(w, S) = SumOver(v, S)
  BY <1>2, SumSame
<1>6. SumOver(w, S \cup {x}) = w[x] + SumOver(w, S)
  BY <1>2, SumOneMore
<1> QED BY <1>2, <1>3, <1>4, <1>5, <1>6

\* A document that is paid nothing has no payment, and the other way around.
LEMMA PaidByNone ==
  ASSUME NEW f, NEW S, IsFiniteSet(S), \A p \in S : f[p].alloc \in Allocs \cup {<<>>}, NEW d
  PROVE  PaidBy(f, S, d) = 0 <=> \A p \in S : \A i \in DOMAIN f[p].alloc : f[p].alloc[i].doc # d
<1> DEFINE v == [p \in S |-> AllocatedTo(f[p].alloc, d)]
<1>1. ASSUME NEW p \in S
      PROVE  /\ v[p] \in Nat
             /\ v[p] = 0 <=> \A i \in DOMAIN f[p].alloc : f[p].alloc[i].doc # d
  <2>1. AllocatedTo(f[p].alloc, d) \in Nat
    BY AllocTypes
  <2>2. IF \E i \in DOMAIN f[p].alloc : f[p].alloc[i].doc = d
          THEN AllocatedTo(f[p].alloc, d) > 0
          ELSE AllocatedTo(f[p].alloc, d) = 0
    BY AllocPositive
  <2> QED BY <2>1, <2>2
<1>2. PaidBy(f, S, d) = SumOver(v, S)
  BY DEF PaidBy
<1> HIDE DEF v
<1>3. ASSUME \A p \in S : v[p] = 0 PROVE SumOver(v, S) = 0
  BY <1>3, SumZero
<1>4. ASSUME NEW p \in S, SumOver(v, S) = 0 PROVE v[p] = 0
  <2>1. v[p] <= SumOver(v, S)
    BY <1>1, SumAtLeast
  <2> QED BY <1>1, <1>4, <2>1
<1> QED BY <1>1, <1>2, <1>3, <1>4

\* The two properties support each other: a document that is not posted is paid
\* nothing, and one that is paid nothing may be voided.
PaidInv ==
  /\ IsFiniteSet(PostedPays)
  /\ PaidIsAllocated
  /\ SettledDocumentsStand

LEMMA PaidIs ==
  ASSUME NEW d \in Req
  PROVE  PaidIsAllocated => doc[d].paid = PaidBy(pay, PostedPays, d)
BY DEF PaidIsAllocated, PaidBy

LEMMA PostedAlloc ==
  ASSUME DInv
  PROVE  \A p \in PostedPays : pay[p].alloc \in Allocs /\ p \in Req
BY DEF PostedPays, DInv, RowOK

\* Nothing is paid on what is not posted.
LEMMA UnpostedUnpaid ==
  ASSUME DInv, PaidInv, NEW d \in Req, doc[d].status # "POSTED"
  PROVE  doc[d].paid = 0
<1>1. \A p \in PostedPays : \A i \in DOMAIN pay[p].alloc : pay[p].alloc[i].doc # d
  BY DEF PaidInv, SettledDocumentsStand, PostedDocs
<1>2. PaidBy(pay, PostedPays, d) = 0
  BY <1>1, PostedAlloc, PaidByNone DEF PaidInv
<1> QED BY <1>2, PaidIs DEF PaidInv

LEMMA InitSettle == DInit => PaidInv
<1> SUFFICES ASSUME DInit PROVE PaidInv
  OBVIOUS
<1>1. ASSUME NEW d \in Req PROVE pay[d].status # "POSTED"
  <2>1. pay[d] = IF d \in DOMAIN Drafted THEN DraftedPay(d) ELSE NoPay
    BY InitTables
  <2> QED BY <2>1 DEF DraftedPay, NoPay
<1>2. PostedPays = {}
  BY <1>1 DEF PostedPays
<1>3. ASSUME NEW d \in Req PROVE doc[d].paid = 0
  <2>1. doc[d] = IF InHistory(d) THEN HistoryDoc(d) ELSE NoDoc
    BY InitTables
  <2> QED BY <2>1 DEF HistoryDoc, NoDoc
<1>4. \A f : SumOver(f, PostedPays) = 0
  BY <1>2, SumEmpty
<1>5. IsFiniteSet({})
  BY FS_EmptySet
<1> QED BY <1>2, <1>3, <1>4, <1>5 DEF PaidInv, PaidIsAllocated, SettledDocumentsStand

\* The state after a step, from what it does to documents and payments.
LEMMA SettleKept ==
  ASSUME DInv, PaidInv, PostedPays' = PostedPays,
         \A p \in PostedPays : pay'[p].alloc = pay[p].alloc,
         \A d \in Req : doc'[d].paid = doc[d].paid,
         \A p \in PostedPays : \A i \in DOMAIN pay[p].alloc :
           pay[p].alloc[i].doc \in PostedDocs => pay[p].alloc[i].doc \in PostedDocs'
  PROVE  PaidInv'
<1>1. IsFiniteSet(PostedPays')
  BY DEF PaidInv
<1>2. PaidIsAllocated'
  <2> SUFFICES ASSUME NEW d \in Req PROVE doc'[d].paid = PaidBy(pay', PostedPays', d)
    BY DEF PaidIsAllocated, PaidBy
  <2>1. PaidBy(pay', PostedPays, d) = PaidBy(pay, PostedPays, d)
    BY PaidBySame
  <2> QED BY <2>1, PaidIs DEF PaidInv
<1>3. SettledDocumentsStand'
  BY DEF PaidInv, SettledDocumentsStand
<1> QED BY <1>1, <1>2, <1>3 DEF PaidInv

LEMMA EditsSettle ==
  ASSUME DInv, PaidInv, Edits
  PROVE  PaidInv'
<1>1. ASSUME NEW p \in Req
      PROVE  /\ pay'[p].status = "POSTED" <=> pay[p].status = "POSTED"
             /\ pay[p].status = "POSTED" => pay'[p].alloc = pay[p].alloc
  BY DEF Edits, PayEdited
<1>2. PostedPays' = PostedPays
  BY <1>1 DEF PostedPays
<1>3. \A p \in PostedPays : pay'[p].alloc = pay[p].alloc
  BY <1>1 DEF PostedPays
<1>4. ASSUME NEW d \in Req PROVE doc'[d].paid = doc[d].paid
  <2>1. CASE doc[d].status # "none"
    BY <2>1 DEF Edits, DocEdited
  <2>2. CASE doc[d].status = "none"
    <3>1. doc[d].paid = 0
      BY <2>2, UnpostedUnpaid
    <3> QED BY <3>1 DEF Edits, DocEdited
  <2> QED BY <2>1, <2>2
<1>5. PostedDocs \subseteq PostedDocs'
  BY DEF PostedDocs, Edits, DocEdited
<1> QED BY <1>2, <1>3, <1>4, <1>5, SettleKept

\* settleInTx: a payment is posted.
LEMMA PayPostedSettle ==
  ASSUME DInv, PaidInv, NEW r \in Req, WritePayPosted(r)
  PROVE  PaidInv'
<1> DEFINE s == src[r]
<1>1. /\ pc[r] = "write" /\ op[r] \in PayOps /\ op[r] = "postPay" /\ s \in Req
      /\ Is(pay[s], "DRAFT")
      /\ \A d \in Req \ {s} : pay'[d] = pay[d]
      /\ pay'[s].status = "POSTED" /\ pay'[s].alloc = pay[s].alloc
      /\ \A d \in Req : /\ doc'[d].paid = doc[d].paid + AllocatedTo(pay[s].alloc, d)
                        /\ doc'[d].status = doc[d].status
  BY PayPosted, OpNames DEF Alloc
<1>2. /\ pay[s].alloc \in Allocs
      /\ \A d \in Req : AllocatedTo(pay[s].alloc, d) # 0 => doc[d].status = "POSTED"
  BY <1>1, HoldsAllocated DEF Alloc
<1> HIDE DEF s
<1>3. PostedPays' = PostedPays \cup {s} /\ s \notin PostedPays
  BY <1>1 DEF PostedPays, Is
<1>4. IsFiniteSet(PostedPays')
  BY <1>3, FS_AddElement DEF PaidInv
<1>5. PaidIsAllocated'
  <2> SUFFICES ASSUME NEW d \in Req PROVE doc'[d].paid = PaidBy(pay', PostedPays', d)
    BY DEF PaidIsAllocated, PaidBy
  <2>1. \A p \in PostedPays \cup {s} : pay'[p].alloc = pay[p].alloc
    BY <1>1, PostedAlloc
  <2>2. PaidBy(pay', PostedPays', d) = PaidBy(pay, PostedPays \cup {s}, d)
    BY <1>3, <2>1, PaidBySame
  <2>3. \A p \in PostedPays \cup {s} : pay[p].alloc \in Allocs \cup {<<>>}
    BY <1>2, PostedAlloc
  <2>4. PaidBy(pay, PostedPays \cup {s}, d) = PaidBy(pay, PostedPays, d) + AllocatedTo(pay[s].alloc, d)
    BY <1>3, <2>3, PaidByMore DEF PaidInv
  <2> QED BY <1>1, <2>2, <2>4, PaidIs DEF PaidInv
<1>6. SettledDocumentsStand'
  <2> SUFFICES ASSUME NEW p \in PostedPays', NEW i \in DOMAIN pay'[p].alloc
               PROVE  pay'[p].alloc[i].doc \in PostedDocs'
    BY DEF SettledDocumentsStand
  <2>1. PostedDocs' = PostedDocs
    BY <1>1 DEF PostedDocs
  <2>2. CASE p = s
    <3> DEFINE d == pay[s].alloc[i].doc
    <3>1. i \in DOMAIN pay[s].alloc
      BY <1>1, <2>2
    <3>2. d \in Req /\ AllocatedTo(pay[s].alloc, d) > 0 /\ AllocatedTo(pay[s].alloc, d) \in Nat
      BY <1>2, <3>1, AllocTypes, AllocPositive
    <3>3. doc[d].status = "POSTED"
      BY <1>2, <3>2
    <3> QED BY <1>1, <2>1, <2>2, <3>2, <3>3 DEF PostedDocs
  <2>3. CASE p # s
    <3>1. p \in PostedPays /\ pay'[p] = pay[p]
      BY <1>1, <1>3, <2>3, PostedAlloc
    <3> QED BY <2>1, <3>1 DEF PaidInv, SettledDocumentsStand
  <2> QED BY <2>2, <2>3
<1> QED BY <1>4, <1>5, <1>6 DEF PaidInv

\* unwindInTx: a payment is voided.
LEMMA PayVoidedSettle ==
  ASSUME DInv, PaidInv, NEW r \in Req, WritePayVoid(r), ~RolledBack(r)
  PROVE  PaidInv'
<1> DEFINE s == src[r]
<1>1. /\ s \in Req /\ Is(pay[s], "POSTED")
      /\ \A d \in Req \ {s} : pay'[d] = pay[d]
      /\ pay'[s].status = "VOID" /\ pay'[s].alloc = pay[s].alloc
      /\ \A d \in Req : /\ doc'[d].paid = doc[d].paid - AllocatedTo(pay[s].alloc, d)
                        /\ doc'[d].status = doc[d].status
  BY PayVoided DEF Alloc
<1> HIDE DEF s
<1>2. PostedPays = PostedPays' \cup {s} /\ s \notin PostedPays'
  BY <1>1 DEF PostedPays, Is
<1>3. IsFiniteSet(PostedPays')
  <2>1. PostedPays' \subseteq PostedPays
    BY <1>2
  <2> QED BY <2>1, FS_Subset DEF PaidInv
<1>4. PaidIsAllocated'
  <2> SUFFICES ASSUME NEW d \in Req PROVE doc'[d].paid = PaidBy(pay', PostedPays', d)
    BY DEF PaidIsAllocated, PaidBy
  <2>1. \A p \in PostedPays' : pay'[p].alloc = pay[p].alloc
    BY <1>1, <1>2, PostedAlloc
  <2>2. PaidBy(pay', PostedPays', d) = PaidBy(pay, PostedPays', d)
    BY <2>1, PaidBySame
  <2>3. \A p \in PostedPays' \cup {s} : pay[p].alloc \in Allocs \cup {<<>>}
    BY <1>2, PostedAlloc
  <2>4. /\ PaidBy(pay, PostedPays', d) \in Nat
        /\ PaidBy(pay, PostedPays, d) = PaidBy(pay, PostedPays', d) + AllocatedTo(pay[s].alloc, d)
    BY <1>2, <1>3, <2>3, PaidByMore
  <2>5. AllocatedTo(pay[s].alloc, d) \in Nat
    BY <1>2, <2>3, AllocTypes
  <2> QED BY <1>1, <2>2, <2>4, <2>5, PaidIs DEF PaidInv
<1>5. SettledDocumentsStand'
  BY <1>1, <1>2, PostedAlloc DEF PaidInv, SettledDocumentsStand, PostedDocs
<1> QED BY <1>3, <1>4, <1>5 DEF PaidInv

LEMMA SettleStep ==
  ASSUME DInv, PaidInv, [DNext]_allVars
  PROVE  PaidInv'
<1>1. CASE Edits
  BY <1>1, EditsSettle
<1>2. ASSUME NEW r \in Req, WriteDocPosted(r) PROVE PaidInv'
  <2>1. /\ src[r] \in Req /\ Is(doc[src[r]], "DRAFT")
        /\ \A d \in Req \ {src[r]} : doc'[d] = doc[d]
        /\ doc'[src[r]].status = "POSTED" /\ doc'[src[r]].paid = doc[src[r]].paid /\ pay' = pay
    BY <1>2, DocPosted
  <2>2. PostedDocs \subseteq PostedDocs' /\ PostedPays' = PostedPays
    BY <2>1 DEF PostedDocs, PostedPays
  <2> QED BY <2>1, <2>2, SettleKept
<1>3. ASSUME NEW r \in Req, WriteDocVoid(r), ~RolledBack(r) PROVE PaidInv'
  <2>1. /\ src[r] \in Req /\ doc[src[r]].paid = 0 /\ doc'[src[r]].paid = 0
        /\ \A d \in Req \ {src[r]} : doc'[d] = doc[d]
        /\ pay' = pay
    BY <1>3, DocVoided
  <2>2. \A p \in PostedPays : pay[p].alloc \in Allocs \cup {<<>>}
    BY PostedAlloc
  <2>3. PaidBy(pay, PostedPays, src[r]) = 0
    BY <2>1, PaidIs DEF PaidInv
  <2>4. \A p \in PostedPays : \A i \in DOMAIN pay[p].alloc : pay[p].alloc[i].doc # src[r]
    BY <2>2, <2>3, PaidByNone DEF PaidInv
  <2>5. PostedPays' = PostedPays
    BY <2>1 DEF PostedPays
  <2>6. \A d \in PostedDocs : d # src[r] => d \in PostedDocs'
    BY <2>1 DEF PostedDocs
  <2> QED BY <2>1, <2>4, <2>5, <2>6, SettleKept
<1>4. ASSUME UNCHANGED docVars PROVE PaidInv'
  BY <1>4, SettleKept DEF docVars, docDb, PostedPays, PostedDocs
<1> QED BY <1>1, <1>2, <1>3, <1>4, PayPostedSettle, PayVoidedSettle, StepCases

LEMMA SettleInductive == DSpec => []PaidInv
<1>1. DInv /\ PaidInv /\ [DNext]_allVars => PaidInv'
  BY SettleStep
<1> QED BY InitSettle, <1>1, DocumentsInductive, PTL DEF DSpec

\* PaidIsAllocated: amount_paid of every document is what the posted payments allocate
\* to it, after any interleaving of payments posted, voided and aborted.
THEOREM PaidExactly == DSpec => []PaidIsAllocated
<1>1. PaidInv => PaidIsAllocated
  BY DEF PaidInv
<1> QED BY <1>1, SettleInductive, PTL

\* SettledDocumentsStand: no document is voided under a posted payment, and no payment
\* is posted on a document that is not.
THEOREM SettledStand == DSpec => []SettledDocumentsStand
<1>1. PaidInv => SettledDocumentsStand
  BY DEF PaidInv
<1> QED BY <1>1, SettleInductive, PTL

\* A step that leaves posted documents as they were posted.  An update of a draft that
\* is posted meanwhile is no such step.
Immutable ==
  \A d \in PostedDocs : /\ doc'[d].calc = doc[d].calc
                        /\ doc'[d].number = doc[d].number
                        /\ doc'[d].date = doc[d].date

LEMMA OverpaidStep ==
  ASSUME DInv, PaidInv, NeverOverpaid, [DNext]_allVars, DInv', PaidInv', Immutable
  PROVE  NeverOverpaid'
<1> SUFFICES ASSUME NEW d \in Req PROVE doc'[d].paid \in 0 .. doc'[d].calc.total
  BY DEF NeverOverpaid
<1>1. /\ doc[d].paid \in Nat /\ doc[d].paid <= doc[d].calc.total
      /\ doc[d].calc.total \in Nat /\ doc'[d].calc.total \in Nat
  <2>1. doc[d] \in DocRow /\ doc'[d] \in DocRow
    BY DEF DInv, DTypes
  <2>2. doc[d].calc.total \in Nat /\ doc'[d].calc.total \in Nat
    BY <2>1 DEF DocRow, Calcs
  <2> QED BY <2>2 DEF NeverOverpaid
<1>2. ASSUME doc'[d].status # "POSTED" PROVE doc'[d].paid = 0
  <2>1. \A p \in PostedPays' : pay'[p].alloc \in Allocs \cup {<<>>}
    BY DEF PostedPays, DInv, RowOK
  <2>2. \A p \in PostedPays' : \A i \in DOMAIN pay'[p].alloc : pay'[p].alloc[i].doc # d
    BY <1>2 DEF PaidInv, SettledDocumentsStand, PostedDocs
  <2>3. PaidBy(pay', PostedPays', d) = 0
    BY <2>1, <2>2, PaidByNone DEF PaidInv
  <2> QED BY <2>3 DEF PaidInv, PaidIsAllocated, PaidBy
<1>3. ASSUME doc'[d].paid \in Nat, doc'[d].paid <= doc[d].paid, doc[d].status = doc'[d].status
      PROVE  doc'[d].paid \in 0 .. doc'[d].calc.total
  <2>1. CASE doc[d].status = "POSTED"
    BY <1>1, <1>3, <2>1 DEF Immutable, PostedDocs
  <2>2. CASE doc[d].status # "POSTED"
    BY <1>1, <1>2, <1>3, <2>2
  <2> QED BY <2>1, <2>2
<1>4. CASE Edits
  <2>1. CASE doc[d].status = "POSTED"
    BY <1>1, <1>3, <1>4, <2>1 DEF Edits, DocEdited
  <2>2. CASE doc[d].status # "POSTED"
    BY <1>1, <1>2, <1>4, <2>2 DEF Edits, DocEdited
  <2> QED BY <2>1, <2>2
<1>5. ASSUME NEW r \in Req, WriteDocPosted(r) PROVE doc'[d].paid \in 0 .. doc'[d].calc.total
  <2>1. /\ src[r] \in Req /\ Is(doc[src[r]], "DRAFT") /\ doc'[src[r]].paid = doc[src[r]].paid
        /\ \A c \in Req \ {src[r]} : doc'[c] = doc[c]
    BY <1>5, DocPosted
  <2>2. doc[src[r]].paid = 0
    BY <2>1, UnpostedUnpaid DEF Is
  <2> QED BY <1>1, <2>1, <2>2
<1>6. ASSUME NEW r \in Req, WritePayPosted(r) PROVE doc'[d].paid \in 0 .. doc'[d].calc.total
  <2>1. /\ pc[r] = "write" /\ op[r] \in PayOps /\ op[r] = "postPay"
        /\ doc'[d].paid = doc[d].paid + AllocatedTo(Alloc(r), d)
        /\ doc'[d].calc = doc[d].calc
    BY <1>6, PayPosted, OpNames
  <2>2. /\ AllocatedTo(Alloc(r), d) \in Nat
        /\ AllocatedTo(Alloc(r), d) # 0 => doc[d].paid + AllocatedTo(Alloc(r), d) <= doc[d].calc.total
    BY <2>1, HoldsAllocated
  <2> QED BY <1>1, <2>1, <2>2
<1>7. ASSUME NEW r \in Req, WriteDocVoid(r), ~RolledBack(r)
      PROVE  doc'[d].paid \in 0 .. doc'[d].calc.total
  <2>1. /\ src[r] \in Req /\ doc'[src[r]].paid = 0
        /\ \A c \in Req \ {src[r]} : doc'[c] = doc[c]
    BY <1>7, DocVoided
  <2> QED BY <1>1, <2>1
<1>8. ASSUME NEW r \in Req, WritePayVoid(r), ~RolledBack(r)
      PROVE  doc'[d].paid \in 0 .. doc'[d].calc.total
  <2>1. /\ doc'[d].paid = doc[d].paid - AllocatedTo(Alloc(r), d)
        /\ doc'[d].calc = doc[d].calc /\ pc[r] = "write" /\ op[r] = "voidPay" /\ op[r] \in PayOps
    BY <1>8, PayVoided, OpNames
  <2>2. AllocatedTo(Alloc(r), d) \in Nat
    BY <2>1, HoldsAllocated
  <2>3. doc'[d].paid \in Nat
    <3>1. \A p \in PostedPays' : pay'[p].alloc \in Allocs \cup {<<>>}
      BY DEF PostedPays, DInv, RowOK
    <3>2. doc'[d].paid = PaidBy(pay', PostedPays', d)
      BY DEF PaidInv, PaidIsAllocated, PaidBy
    <3> QED BY <3>1, <3>2, PaidByNat DEF PaidInv
  <2> QED BY <1>1, <2>1, <2>2, <2>3
<1>9. ASSUME UNCHANGED docVars PROVE doc'[d].paid \in 0 .. doc'[d].calc.total
  BY <1>1, <1>9 DEF docVars, docDb
<1> QED BY <1>4, <1>5, <1>6, <1>7, <1>8, <1>9, StepCases

\* NeverOverpaid: no number of payments posted concurrently settles a document beyond
\* its total, in the behaviours that leave posted documents as they were posted.
THEOREM NoOverpayment == DSpec /\ PostedDocumentsImmutable => []NeverOverpaid
<1>1. ASSUME DInit PROVE NeverOverpaid
  <2> SUFFICES ASSUME NEW d \in Req PROVE doc[d].paid \in 0 .. doc[d].calc.total
    BY DEF NeverOverpaid
  <2>1. doc[d] = IF InHistory(d) THEN HistoryDoc(d) ELSE NoDoc
    BY <1>1, InitTables
  <2>2. doc[d].paid = 0
    BY <2>1 DEF HistoryDoc, NoDoc
  <2>3. doc[d] \in DocRow
    BY <1>1, InitDInv DEF DInv, DTypes
  <2>4. doc[d].calc.total \in Nat
    BY <2>3 DEF DocRow, Calcs
  <2> QED BY <2>2, <2>4
<1>2. ASSUME DInv, PaidInv, NeverOverpaid, [DNext]_allVars, DInv', PaidInv', [Immutable]_allVars
      PROVE  NeverOverpaid'
  <2>1. CASE Immutable
    BY <1>2, <2>1, OverpaidStep
  <2>2. CASE UNCHANGED allVars
    BY <1>2, <2>2 DEF allVars, docVars, docDb, NeverOverpaid
  <2> QED BY <1>2, <2>1, <2>2
<1>3. PostedDocumentsImmutable => [][Immutable]_allVars
  BY DEF PostedDocumentsImmutable, Immutable
<1> QED BY <1>1, <1>2, <1>3, DocumentsInductive, SettleInductive, PTL DEF DSpec

-----------------------------------------------------------------------------
(* What the calculation of a document posts. *)

Side == IF Nature = "SALE" THEN -1 ELSE 1
BaseOn(ls, S) == SumOver(Amounts(ls), {i \in DOMAIN ls : ls[i].account \in S})
TaxOn(ls, table, S, normal) ==
  SumOver(Taxes(ls, table),
          {c \in CodesIn(ls) : table[c].account \in S /\ RequiredNormalBalance(table[c].kind) = normal})

\* The same number times one or minus one, in every term.
LEMMA SumSided ==
  ASSUME NEW v, NEW w, NEW S, IsFiniteSet(S), \A x \in S : v[x] \in Int,
         \A x \in S : w[x] = Side * v[x]
  PROVE  SumOver(w, S) = Side * SumOver(v, S)
<1>0. SumOver(v, S) \in Int
  BY SumType
<1>1. CASE Nature = "SALE"
  <2>1. \A x \in S : w[x] = -v[x]
    BY <1>1 DEF Side
  <2>2. SumOver(w, S) = -SumOver(v, S)
    BY <2>1, SumNegated
  <2> QED BY <1>0, <1>1, <2>2 DEF Side
<1>2. CASE Nature # "SALE"
  <2>1. \A x \in S : w[x] = v[x]
    BY <1>2 DEF Side
  <2>2. SumOver(w, S) = SumOver(v, S)
    BY <2>1, SumSame
  <2> QED BY <1>0, <1>2, <2>2 DEF Side
<1> QED BY <1>1, <1>2

\* A function that is zero but for one element.
LEMMA SumSingle ==
  ASSUME NEW v, NEW S, IsFiniteSet(S), NEW c, NEW n \in Int,
         \A x \in S : v[x] = IF x = c THEN n ELSE 0
  PROVE  SumOver(v, S) = IF c \in S THEN n ELSE 0
<1>1. CASE c \in S
  <2>1. SumOver(v, S) = v[c] + SumOver(v, S \ {c})
    BY <1>1, SumTake
  <2>2. IsFiniteSet(S \ {c})
    BY FS_RemoveElement
  <2>3. SumOver(v, S \ {c}) = 0
    BY <2>2, SumZero
  <2> QED BY <1>1, <2>1, <2>3
<1>2. CASE c \notin S
  BY <1>2, SumZero
<1> QED BY <1>1, <1>2

\* Sums by account.
LEMMA BaseByAccount ==
  ASSUME NEW ls \in LineLists \cup {<<>>}, NEW S \in SUBSET Accounts
  PROVE  /\ BaseOn(ls, S) \in Nat
         /\ BaseOn(ls, S) = SumOver([a \in S |-> BaseOn(ls, {a})], S)
<1> DEFINE L == {i \in DOMAIN ls : ls[i].account \in S}
           g == [i \in L |-> ls[i].account]
           h == [a \in S |-> SumOver(Amounts(ls), {i \in L : g[i] = a})]
<1>1. IsFiniteSet(S)
  BY LedgerAssumption, FS_Subset
<1>2. \A R \in SUBSET DOMAIN ls : IsFiniteSet(R) /\ SumOver(Amounts(ls), R) \in Nat
  <2> SUFFICES ASSUME NEW R \in SUBSET DOMAIN ls
               PROVE  IsFiniteSet(R) /\ SumOver(Amounts(ls), R) \in Nat
    OBVIOUS
  <2>1. IsFiniteSet(R) /\ \A i \in R : Amounts(ls)[i] \in Nat
    BY LineTypes, FS_Subset
  <2> QED BY <2>1, SumNat
<1>3. BaseOn(ls, S) \in Nat
  BY <1>2 DEF BaseOn
<1>4. IsFiniteSet(L) /\ (\A i \in L : Amounts(ls)[i] \in Int) /\ \A i \in L : g[i] \in S
  BY <1>2, LineTypes
<1>5. SumOver(Amounts(ls), L) = SumOver(h, S)
  <2> HIDE DEF L, g
  <2> QED BY <1>1, <1>4, SumGrouped
<1>6. ASSUME NEW a \in S PROVE h[a] = BaseOn(ls, {a})
  <2>1. {i \in L : g[i] = a} = {i \in DOMAIN ls : ls[i].account \in {a}}
    OBVIOUS
  <2> QED BY <2>1 DEF BaseOn
<1>7. h = [a \in S |-> BaseOn(ls, {a})]
  BY <1>6
<1>8. BaseOn(ls, S) = SumOver(Amounts(ls), L)
  BY DEF BaseOn
<1> QED BY <1>3, <1>5, <1>7, <1>8

LEMMA TaxByAccount ==
  ASSUME NEW ls \in LineLists \cup {<<>>}, NEW table \in [DOMAIN TaxCodes -> TaxCodeRow],
         NEW S \in SUBSET Accounts, NEW n \in {"DEBIT", "CREDIT"}
  PROVE  /\ TaxOn(ls, table, S, n) \in Nat
         /\ TaxOn(ls, table, S, n) = SumOver([a \in S |-> TaxOn(ls, table, {a}, n)], S)
<1> DEFINE C == {c \in CodesIn(ls) : table[c].account \in S /\ RequiredNormalBalance(table[c].kind) = n}
           g == [c \in C |-> table[c].account]
           h == [a \in S |-> SumOver(Taxes(ls, table), {c \in C : g[c] = a})]
<1>1. IsFiniteSet(S)
  BY LedgerAssumption, FS_Subset
<1>2. \A R \in SUBSET CodesIn(ls) : SumOver(Taxes(ls, table), R) \in Nat
  BY TaxSum
<1>3. TaxOn(ls, table, S, n) \in Nat
  BY <1>2 DEF TaxOn
<1>4. IsFiniteSet(C) /\ (\A c \in C : Taxes(ls, table)[c] \in Int) /\ \A c \in C : g[c] \in S
  <2>1. C \in SUBSET CodesIn(ls)
    OBVIOUS
  <2>2. IsFiniteSet(C)
    BY <2>1, LineTypes, FS_Subset
  <2> QED BY <2>1, <2>2, TaxesTypes
<1>5. SumOver(Taxes(ls, table), C) = SumOver(h, S)
  <2> HIDE DEF C, g
  <2> QED BY <1>1, <1>4, SumGrouped
<1>6. ASSUME NEW a \in S PROVE h[a] = TaxOn(ls, table, {a}, n)
  <2>1. {c \in C : g[c] = a}
          = {c \in CodesIn(ls) : table[c].account \in {a} /\ RequiredNormalBalance(table[c].kind) = n}
    OBVIOUS
  <2> QED BY <2>1 DEF TaxOn
<1>7. h = [a \in S |-> TaxOn(ls, table, {a}, n)]
  BY <1>6
<1>8. TaxOn(ls, table, S, n) = SumOver(Taxes(ls, table), C)
  BY DEF TaxOn
<1> QED BY <1>3, <1>5, <1>7, <1>8

\* What is posted on any group of accounts.
LEMMA CalculatedTotal ==
  ASSUME NEW ls \in LineLists \cup {<<>>}, NEW table \in [DOMAIN TaxCodes -> TaxCodeRow],
         NEW S \in SUBSET Accounts
  PROVE  Total(CalculatedLines(Nature, ls, table, Control, Accounts), S)
           = Side * BaseOn(ls, S) + TaxOn(ls, table, S, "DEBIT") - TaxOn(ls, table, S, "CREDIT")
               - (IF Control \in S THEN Side * SettlementAmount(ls, table) ELSE 0)
<1>0. ASSUME NEW a \in S
      PROVE  /\ BaseOn(ls, {a}) \in Nat
             /\ TaxOn(ls, table, {a}, "DEBIT") \in Nat /\ TaxOn(ls, table, {a}, "CREDIT") \in Nat
  <2>1. {a} \in SUBSET Accounts
    OBVIOUS
  <2>2. BaseOn(ls, {a}) \in Nat
    BY <2>1, BaseByAccount
  <2>3. TaxOn(ls, table, {a}, "DEBIT") \in Nat
    BY <2>1, TaxByAccount
  <2>4. TaxOn(ls, table, {a}, "CREDIT") \in Nat
    BY <2>1, TaxByAccount
  <2> QED BY <2>2, <2>3, <2>4
<1> DEFINE v == CalculatedLines(Nature, ls, table, Control, Accounts)
           s == SettlementAmount(ls, table)
           b == [a \in S |-> BaseOn(ls, {a})]
           d == [a \in S |-> TaxOn(ls, table, {a}, "DEBIT")]
           c == [a \in S |-> TaxOn(ls, table, {a}, "CREDIT")]
           x == [a \in S |-> Side * b[a]]
           m == [a \in S |-> -c[a]]
           k == [a \in S |-> IF a = Control THEN -(Side * s) ELSE 0]
           p == [a \in S |-> x[a] + d[a]]
           q == [a \in S |-> m[a] + k[a]]
<1>1. IsFiniteSet(S)
  BY LedgerAssumption, FS_Subset
<1>2. s \in Int /\ Side \in Int
  BY TotalTypes DEF Side
<1>3. \A a \in S : b[a] \in Int /\ d[a] \in Int /\ c[a] \in Int
  <2> HIDE DEF v, s, x, m, k, p, q
  <2> QED BY <1>0
<1>4. ASSUME NEW a \in S PROVE v[a] = x[a] + d[a] + (m[a] + k[a])
  <2>1. v[a] = Side * b[a] + d[a] - c[a] - (IF a = Control THEN Side * s ELSE 0)
    BY DEF CalculatedLines, BaseOn, TaxOn, Side
  <2> DEFINE y == Side * b[a]
             n == Side * s
  <2>2. y \in Int /\ n \in Int /\ b[a] \in Int /\ d[a] \in Int /\ c[a] \in Int
    <3> HIDE DEF s, b, d, c
    <3> QED BY <1>2, <1>3
  <2>3. x[a] = y /\ m[a] = -c[a] /\ k[a] = IF a = Control THEN -n ELSE 0
    OBVIOUS
  <2>4. v[a] = y + d[a] - c[a] - (IF a = Control THEN n ELSE 0)
    BY <2>1
  <2> HIDE DEF v, s, b, d, c, x, m, k, y, n
  <2>5. CASE a = Control
    BY <2>2, <2>3, <2>4, <2>5
  <2>6. CASE a # Control
    BY <2>2, <2>3, <2>4, <2>6
  <2> QED BY <2>5, <2>6
<1>5. \A a \in S : x[a] \in Int /\ m[a] \in Int /\ k[a] \in Int
  <2> HIDE DEF s, b, d, c
  <2> QED BY <1>2, <1>3
<1>6. /\ SumOver(b, S) = BaseOn(ls, S) /\ BaseOn(ls, S) \in Int
      /\ SumOver(d, S) = TaxOn(ls, table, S, "DEBIT") /\ TaxOn(ls, table, S, "DEBIT") \in Int
      /\ SumOver(c, S) = TaxOn(ls, table, S, "CREDIT") /\ TaxOn(ls, table, S, "CREDIT") \in Int
  <2>1. SumOver(b, S) = BaseOn(ls, S) /\ BaseOn(ls, S) \in Nat
    BY BaseByAccount
  <2>2. SumOver(d, S) = TaxOn(ls, table, S, "DEBIT") /\ TaxOn(ls, table, S, "DEBIT") \in Nat
    BY TaxByAccount
  <2>3. SumOver(c, S) = TaxOn(ls, table, S, "CREDIT") /\ TaxOn(ls, table, S, "CREDIT") \in Nat
    BY TaxByAccount
  <2> QED BY <2>1, <2>2, <2>3
<1> HIDE DEF v, s, b, d, c
<1>7. SumOver(x, S) = Side * SumOver(b, S)
  <2>1. \A a \in S : x[a] = Side * b[a]
    OBVIOUS
  <2> HIDE DEF x
  <2> QED BY <1>1, <1>3, <2>1, SumSided
<1>8. SumOver(m, S) = -SumOver(c, S)
  <2>1. \A a \in S : m[a] = -c[a]
    OBVIOUS
  <2> HIDE DEF m
  <2> QED BY <1>1, <1>3, <2>1, SumNegated
<1>9. SumOver(k, S) = IF Control \in S THEN -(Side * s) ELSE 0
  <2>1. \A a \in S : k[a] = IF a = Control THEN -(Side * s) ELSE 0
    OBVIOUS
  <2>2. -(Side * s) \in Int
    BY <1>2
  <2> HIDE DEF k
  <2> QED BY <1>1, <2>1, <2>2, SumSingle
<1> HIDE DEF x, m, k
<1>10. SumOver(p, S) = SumOver(x, S) + SumOver(d, S)
  <2>1. \A a \in S : p[a] = x[a] + d[a]
    OBVIOUS
  <2> HIDE DEF p
  <2> QED BY <1>1, <1>3, <1>5, <2>1, SumPlus
<1>11. SumOver(q, S) = SumOver(m, S) + SumOver(k, S)
  <2>1. \A a \in S : q[a] = m[a] + k[a]
    OBVIOUS
  <2> HIDE DEF q
  <2> QED BY <1>1, <1>5, <2>1, SumPlus
<1>12. SumOver(v, S) = SumOver(p, S) + SumOver(q, S)
  <2>1. \A a \in S : p[a] \in Int /\ q[a] \in Int /\ v[a] = p[a] + q[a]
    BY <1>3, <1>4, <1>5
  <2> HIDE DEF p, q
  <2> QED BY <1>1, <2>1, SumPlus
<1>13. Total(v, S) = SumOver(v, S)
  BY DEF Total
<1> HIDE DEF p, q
<1> DEFINE y == Side * BaseOn(ls, S)
           n == Side * s
<1>14. y \in Int /\ n \in Int
  BY <1>2, <1>6
<1>15. SumOver(x, S) = y /\ SumOver(k, S) = IF Control \in S THEN -n ELSE 0
  BY <1>6, <1>7, <1>9
<1> HIDE DEF y, n
<1>16. SumOver(v, S) = y + TaxOn(ls, table, S, "DEBIT") - TaxOn(ls, table, S, "CREDIT")
                         - (IF Control \in S THEN n ELSE 0)
  BY <1>6, <1>8, <1>10, <1>11, <1>12, <1>14, <1>15
<1> QED BY <1>13, <1>16 DEF v, s, y, n

\* The kinds that calculate accepts: on the side of the trade that it is for, tax is
\* posted on the one side and withholding on the other.
LEMMA TaxOnAll ==
  ASSUME NEW ls \in LineLists \cup {<<>>}, NEW table \in [DOMAIN TaxCodes -> TaxCodeRow],
         Accepts(Nature, ls, table),
         NEW S, \A c \in CodesIn(ls) : table[c].account \in S
  PROVE  IF Nature = "SALE"
           THEN /\ TaxOn(ls, table, S, "DEBIT") = WithholdingTotal(ls, table)
                /\ TaxOn(ls, table, S, "CREDIT") = TaxTotal(ls, table)
           ELSE /\ TaxOn(ls, table, S, "DEBIT") = TaxTotal(ls, table)
                /\ TaxOn(ls, table, S, "CREDIT") = WithholdingTotal(ls, table)
<1> DEFINE On(n) == {c \in CodesIn(ls) : table[c].account \in S
                                         /\ RequiredNormalBalance(table[c].kind) = n}
           Of(k) == {c \in CodesIn(ls) : table[c].kind \in k}
           ppn == {"PPN_OUTPUT", "PPN_INPUT"}
           pph == {"PPH_PREPAID", "PPH_PAYABLE"}
<1>1. /\ \A n : TaxOn(ls, table, S, n) = SumOver(Taxes(ls, table), On(n))
      /\ TaxTotal(ls, table) = SumOver(Taxes(ls, table), Of(ppn))
      /\ WithholdingTotal(ls, table) = SumOver(Taxes(ls, table), Of(pph))
  BY DEF TaxOn, TaxTotal, WithholdingTotal, TaxOfKinds
<1>2. CASE Nature = "SALE"
  <2>1. \A c \in CodesIn(ls) : table[c].kind \in {"PPN_OUTPUT", "PPH_PREPAID"}
    BY <1>2 DEF Accepts, ALLOWED_KINDS
  <2>2. ASSUME NEW c \in CodesIn(ls)
        PROVE  /\ RequiredNormalBalance(table[c].kind) = "DEBIT" <=> table[c].kind \in pph
               /\ RequiredNormalBalance(table[c].kind) = "CREDIT" <=> table[c].kind \in ppn
    <3>1. table[c].kind = "PPN_OUTPUT" \/ table[c].kind = "PPH_PREPAID"
      BY <2>1
    <3> QED BY <3>1 DEF RequiredNormalBalance
  <2>3. On("DEBIT") = Of(pph) /\ On("CREDIT") = Of(ppn)
    <3> HIDE DEF ppn, pph
    <3> QED BY <2>2
  <2> HIDE DEF On, Of, ppn, pph
  <2> QED BY <1>1, <1>2, <2>3
<1>3. CASE Nature # "SALE"
  <2>1. \A c \in CodesIn(ls) : table[c].kind \in {"PPN_INPUT", "PPH_PAYABLE"}
    BY <1>3, DocumentsAssumption DEF Accepts, ALLOWED_KINDS
  <2>2. ASSUME NEW c \in CodesIn(ls)
        PROVE  /\ RequiredNormalBalance(table[c].kind) = "DEBIT" <=> table[c].kind \in ppn
               /\ RequiredNormalBalance(table[c].kind) = "CREDIT" <=> table[c].kind \in pph
    <3>1. table[c].kind = "PPN_INPUT" \/ table[c].kind = "PPH_PAYABLE"
      BY <2>1
    <3> QED BY <3>1 DEF RequiredNormalBalance
  <2>3. On("DEBIT") = Of(ppn) /\ On("CREDIT") = Of(pph)
    <3> HIDE DEF ppn, pph
    <3> QED BY <2>2
  <2> HIDE DEF On, Of, ppn, pph
  <2> QED BY <1>1, <1>3, <2>3
<1> QED BY <1>2, <1>3

LEMMA BaseOnAll ==
  ASSUME NEW ls \in LineLists \cup {<<>>}, NEW S
  PROVE  /\ (\A i \in DOMAIN ls : ls[i].account \in S) => BaseOn(ls, S) = Subtotal(ls)
         /\ (\A i \in DOMAIN ls : ls[i].account \notin S) => BaseOn(ls, S) = 0
<1> DEFINE L == {i \in DOMAIN ls : ls[i].account \in S}
<1>1. ASSUME \A i \in DOMAIN ls : ls[i].account \in S PROVE BaseOn(ls, S) = Subtotal(ls)
  <2>1. L = DOMAIN ls
    BY <1>1
  <2> QED BY <2>1 DEF BaseOn, Subtotal
<1>2. ASSUME \A i \in DOMAIN ls : ls[i].account \notin S PROVE BaseOn(ls, S) = 0
  <2>1. L = {}
    BY <1>2
  <2> QED BY <2>1, SumEmpty DEF BaseOn
<1> QED BY <1>1, <1>2

LEMMA TaxOnNone ==
  ASSUME NEW ls, NEW table, NEW S, NEW n \in {"DEBIT", "CREDIT"},
         \A c \in CodesIn(ls) : table[c].account \notin S
  PROVE  TaxOn(ls, table, S, n) = 0
<1> DEFINE C == {c \in CodesIn(ls) : table[c].account \in S /\ RequiredNormalBalance(table[c].kind) = n}
<1>1. C = {}
  OBVIOUS
<1> QED BY <1>1, SumEmpty DEF TaxOn

\* assertBalanced cannot fail: whatever calculate accepts, its lines balance.
LEMMA CalculatedBalances ==
  ASSUME NEW ls \in LineLists \cup {<<>>}, NEW table \in [DOMAIN TaxCodes -> TaxCodeRow],
         Accepts(Nature, ls, table)
  PROVE  AssertBalanced(CalculatedLines(Nature, ls, table, Control, Accounts))
<1> DEFINE v == CalculatedLines(Nature, ls, table, Control, Accounts)
           d == TaxOn(ls, table, Accounts, "DEBIT")
           c == TaxOn(ls, table, Accounts, "CREDIT")
<1>1. Subtotal(ls) \in Nat /\ TaxTotal(ls, table) \in Nat /\ WithholdingTotal(ls, table) \in Nat
  BY TotalTypes
<1>2. BaseOn(ls, Accounts) = Subtotal(ls)
  BY LineTypes, BaseOnAll
<1>3. \A k \in CodesIn(ls) : table[k].account \in Accounts
  BY LineTypes DEF TaxCodeRow
<1>4. IF Nature = "SALE" THEN d = WithholdingTotal(ls, table) /\ c = TaxTotal(ls, table)
                         ELSE d = TaxTotal(ls, table) /\ c = WithholdingTotal(ls, table)
  BY <1>3, TaxOnAll
<1>5. Total(v, Accounts) = Side * BaseOn(ls, Accounts) + d - c
                             - (IF Control \in Accounts THEN Side * SettlementAmount(ls, table) ELSE 0)
  BY CalculatedTotal
<1>6. Control \in Accounts
  BY DocumentsAssumption
<1>7. SettlementAmount(ls, table) = Subtotal(ls) + TaxTotal(ls, table) - WithholdingTotal(ls, table)
  BY DEF SettlementAmount
<1> HIDE DEF v, d, c
<1>8. Total(v, Accounts) = Side * Subtotal(ls) + d - c - Side * SettlementAmount(ls, table)
  BY <1>2, <1>5, <1>6
<1>9. CASE Nature = "SALE"
  <2>1. Side = -1 /\ d = WithholdingTotal(ls, table) /\ c = TaxTotal(ls, table)
    BY <1>4, <1>9 DEF Side
  <2>2. Total(v, Accounts) = (-1) * Subtotal(ls) + d - c - (-1) * SettlementAmount(ls, table)
    BY <1>8, <2>1
  <2>3. Total(v, Accounts) = 0
    BY <1>1, <1>7, <2>1, <2>2
  <2> QED BY <2>3 DEF AssertBalanced, v
<1>10. CASE Nature # "SALE"
  <2>1. Side = 1 /\ d = TaxTotal(ls, table) /\ c = WithholdingTotal(ls, table)
    BY <1>4, <1>10 DEF Side
  <2>2. Total(v, Accounts) = 1 * Subtotal(ls) + d - c - 1 * SettlementAmount(ls, table)
    BY <1>8, <2>1
  <2>3. Total(v, Accounts) = 0
    BY <1>1, <1>7, <2>1, <2>2
  <2> QED BY <2>3 DEF AssertBalanced, v
<1> QED BY <1>9, <1>10

\* One account.
LEMMA TotalOne ==
  ASSUME NEW v \in Lines, NEW a \in Accounts
  PROVE  Total(v, {a}) = v[a]
<1>1. IsFiniteSet({a}) /\ v[a] \in Int /\ \A x \in {a} : v[x] = IF x = a THEN v[a] ELSE 0
  BY FS_Singleton DEF Lines
<1>2. SumOver(v, {a}) = IF a \in {a} THEN v[a] ELSE 0
  BY <1>1, SumSingle
<1> QED BY <1>2 DEF Total

\* Where no line and no tax code uses the control account, it receives the total.
LEMMA CalculatedControl ==
  ASSUME NEW ls \in LineLists \cup {<<>>}, NEW table \in [DOMAIN TaxCodes -> TaxCodeRow],
         \A i \in DOMAIN ls : ls[i].account # Control,
         \A c \in CodesIn(ls) : table[c].account # Control
  PROVE  CalculatedLines(Nature, ls, table, Control, Accounts)[Control]
           = Signed(SettlementAmount(ls, table))
<1> DEFINE v == CalculatedLines(Nature, ls, table, Control, Accounts)
<1>1. Control \in Accounts /\ {Control} \in SUBSET Accounts /\ v \in Lines
  BY DocumentsAssumption, CalculatedType
<1>2. SettlementAmount(ls, table) \in Int
  BY TotalTypes
<1>3. BaseOn(ls, {Control}) = 0
  BY BaseOnAll
<1>4. TaxOn(ls, table, {Control}, "DEBIT") = 0 /\ TaxOn(ls, table, {Control}, "CREDIT") = 0
  BY TaxOnNone
<1>5. Total(v, {Control})
        = Side * BaseOn(ls, {Control}) + TaxOn(ls, table, {Control}, "DEBIT")
            - TaxOn(ls, table, {Control}, "CREDIT")
            - (IF Control \in {Control} THEN Side * SettlementAmount(ls, table) ELSE 0)
  BY <1>1, CalculatedTotal
<1>6. Total(v, {Control}) = v[Control]
  BY <1>1, TotalOne
<1> HIDE DEF v
<1>7. v[Control] = Side * 0 + 0 - 0 - Side * SettlementAmount(ls, table)
  BY <1>3, <1>4, <1>5, <1>6
<1>8. v[Control] = Signed(SettlementAmount(ls, table))
  <2>1. CASE Nature = "SALE"
    BY <1>2, <1>7, <2>1 DEF Side, Signed
  <2>2. CASE Nature # "SALE"
    BY <1>2, <1>7, <2>2 DEF Side, Signed
  <2> QED BY <2>1, <2>2
<1> QED BY <1>8 DEF v

-----------------------------------------------------------------------------
(* What a request is about to post. *)

\* It has calculated the lines of a document.
Prepared(r) == op[r] = "postDoc" /\ pc[r] \notin {"start", "calculate", "done", "failed"}

\* What a step does to it: nothing, or it begins with lines of its own, or it
\* calculates them.
KeepsLines(r) ==
  op'[r] = op[r] /\ buf'[r] = buf[r] /\ calc'[r] = calc[r] /\ (Prepared(r)' => Prepared(r))
BringsLines(r) ==
  /\ op'[r] \in Plan[r] \cup {op[r]} /\ ~Prepared(r)'
  /\ \/ buf'[r] = NoLines
     \/ \E n \in Nat : buf'[r] = PayLines(n)
     \/ \E e \in Req : buf'[r] = Swapped(lines[e])
CalculatesLines(r) ==
  /\ op'[r] = op[r]
  /\ \E ls \in LineLists \cup {<<>>} :
       /\ Accepts(Nature, ls, taxCode)
       /\ calc'[r] = ComputeTotals(ls)
       /\ buf'[r] = CalculatedLines(Nature, ls, taxCode, Control, Accounts)

LEMMA QuietLines ==
  ASSUME DInv, NEW q \in Req, NEW l, pc' = [pc EXCEPT ![q] = l], UNCHANGED <<op, buf, calc>>,
         l \in {"done", "failed"} \/ pc[q] \notin {"start", "calculate", "done", "failed"}
  PROVE  \A r \in Req : KeepsLines(r)
<1> SUFFICES ASSUME NEW r \in Req PROVE Prepared(r)' => Prepared(r)
  BY DEF KeepsLines
<1>1. pc'[r] = IF r = q THEN l ELSE pc[r]
  BY DEF DInv, DTypes
<1> QED BY <1>1 DEF Prepared

LEMMA BegunLines ==
  ASSUME DInv, NEW q \in Req, NEW o \in Plan[q], NEW v, NEW l, NEW a,
         op' = [op EXCEPT ![q] = o], buf' = [buf EXCEPT ![q] = v], calc' = [calc EXCEPT ![q] = a],
         pc' = [pc EXCEPT ![q] = l], o = "postDoc" => l = "calculate",
         \/ v = NoLines
         \/ \E n \in Nat : v = PayLines(n)
         \/ \E e \in Req : v = Swapped(lines[e])
  PROVE  \A r \in Req : KeepsLines(r) \/ BringsLines(r)
<1>0. /\ op \in [Req -> PostOps \cup {"none", "updateDoc", "closePeriod"}]
      /\ buf \in [Req -> Lines] /\ calc \in [Req -> Calcs] /\ pc \in [Req -> DLabels]
  BY DEF DInv, DTypes
<1>1. /\ op'[q] = o /\ buf'[q] = v /\ pc'[q] = l
      /\ \A r \in Req \ {q} : op'[r] = op[r] /\ buf'[r] = buf[r] /\ calc'[r] = calc[r] /\ pc'[r] = pc[r]
  BY <1>0
<1>2. \A r \in Req \ {q} : KeepsLines(r)
  BY <1>1 DEF KeepsLines, Prepared
<1>3. ~Prepared(q)'
  BY <1>1 DEF Prepared
<1>4. BringsLines(q)
  BY <1>1, <1>3 DEF BringsLines
<1> QED BY <1>2, <1>4

LEMMA PayLinesNat ==
  ASSUME DInv, NEW d \in Req
  PROVE  AllocTotal(pay[d].alloc) \in Nat
<1>1. pay[d].alloc \in Allocs \cup {<<>>}
  BY DEF DInv, DTypes, PayRow
<1> QED BY <1>1, AllocTypes

LEMMA BeginLines ==
  ASSUME DInv, NEW q \in Req, DBegin(q)
  PROVE  \A r \in Req : KeepsLines(r) \/ BringsLines(r)
<1>0. calc \in [Req -> Calcs]
  BY DEF DInv, DTypes
<1>1. CASE Rejected(q)
  BY <1>1, QuietLines DEF Rejected, Reject, Goto, ctx, docVars, docCtx
<1>2. CASE CreateDoc(q) \/ CreatePay(q) \/ DeleteDoc(q) \/ DeletePay(q)
  <2>1. Finished(q) \/ Rejected(q)
    BY <1>2, Zenon DEF CreateDoc, CreatePay, DeleteDoc, DeletePay
  <2>2. CASE Finished(q)
    BY <2>2, QuietLines DEF Finished, Goto, ctx, docCtx
  <2> QED BY <1>1, <2>1, <2>2
<1>3. CASE ChangeTaxCode(q) \/ ChangePartner(q)
  <2>1. (pc' = [pc EXCEPT ![q] = "done"] /\ UNCHANGED <<op, buf, calc>>) \/ Rejected(q)
    BY <1>3 DEF ChangeTaxCode, ChangePartner, Goto, ctx, docCtx
  <2> QED BY <1>1, <2>1, QuietLines
<1>4. ASSUME BeginUpdateDoc(q) \/ BeginPostDoc(q) \/ BeginVoidDoc(q) \/ BeginPostPay(q) \/ BeginVoidPay(q),
             ~Rejected(q)
      PROVE  \A r \in Req : KeepsLines(r) \/ BringsLines(r)
  <2>1. \E o, d, e, p, v, a, l :
          /\ o \in Plan[q] /\ Begins(q, o, d, e, p, v, a, l)
          /\ o = "postDoc" => l = "calculate"
          /\ v = NoLines \/ \E n \in Nat : v = PayLines(n)
    <3>1. CASE BeginUpdateDoc(q)
      BY <1>4, <3>1 DEF BeginUpdateDoc, Arrives
    <3>2. CASE BeginPostDoc(q)
      BY <1>4, <3>2 DEF BeginPostDoc, Arrives
    <3>3. CASE BeginVoidDoc(q)
      BY <1>4, <3>3 DEF BeginVoidDoc, Arrives
    <3>4. CASE BeginPostPay(q)
      BY <1>4, <3>4, PayLinesNat DEF BeginPostPay, Arrives
    <3>5. CASE BeginVoidPay(q)
      BY <1>4, <3>5 DEF BeginVoidPay, Arrives
    <3> QED BY <1>4, <3>1, <3>2, <3>3, <3>4, <3>5
  <2>2. PICK o, d, e, p, v, a, l :
          /\ o \in Plan[q] /\ Begins(q, o, d, e, p, v, a, l)
          /\ o = "postDoc" => l = "calculate"
          /\ v = NoLines \/ \E n \in Nat : v = PayLines(n)
    BY <2>1
  <2> QED BY <2>2, BegunLines DEF Begins, Carry, Goto
<1>5. ASSUME (BeginReverse(q) \/ BeginClosePeriod(q)) /\ UNCHANGED docVars, ~Rejected(q)
      PROVE  \A r \in Req : KeepsLines(r) \/ BringsLines(r)
  <2>1. \E o, e, p, v, l :
          /\ o \in Plan[q] /\ Carry(q, o, e, p, v) /\ Goto(q, l) /\ o # "postDoc"
          /\ v = NoLines \/ \E x \in Req : v = Swapped(lines[x])
    BY <1>5 DEF BeginReverse, BeginClosePeriod, Arrives, Rejected
  <2>2. PICK o, e, p, v, l :
          /\ o \in Plan[q] /\ Carry(q, o, e, p, v) /\ Goto(q, l) /\ o # "postDoc"
          /\ v = NoLines \/ \E x \in Req : v = Swapped(lines[x])
    BY <2>1
  <2>3. calc' = [calc EXCEPT ![q] = calc[q]]
    BY <1>0, <1>5 DEF docVars, docCtx
  <2> QED BY <2>2, <2>3, BegunLines DEF Carry, Goto
<1> QED BY <1>1, <1>2, <1>3, <1>4, <1>5 DEF DBegin

LEMMA LinesStep ==
  ASSUME DInv, [DNext]_allVars
  PROVE  \A r \in Req : KeepsLines(r) \/ BringsLines(r) \/ CalculatesLines(r)
<1>0. /\ op \in [Req -> PostOps \cup {"none", "updateDoc", "closePeriod"}]
      /\ buf \in [Req -> Lines] /\ calc \in [Req -> Calcs] /\ pc \in [Req -> DLabels]
  BY DEF DInv, DTypes
<1>1. CASE UNCHANGED allVars
  BY <1>1 DEF allVars, vars, ctx, docVars, docCtx, KeepsLines, Prepared
<1>2. ASSUME NEW q \in Req, Rejected(q) \/ RolledBack(q) PROVE \A r \in Req : KeepsLines(r)
  BY <1>2, QuietLines DEF Rejected, RolledBack, Reject, Rollback, Goto, ctx, docVars, docCtx
<1>3. ASSUME NEW q \in Req, LedgerStep(q) PROVE \A r \in Req : KeepsLines(r)
  <2>1. UNCHANGED <<op, buf, calc>>
    BY <1>3 DEF LedgerStep, FindOpenPeriod, FindClosedYear, AssertPostableAccounts, LockYearShared,
                RecheckYear, LockPeriodShared, NextNumber, WriteReversal, SetPeriodClosed, Reject,
                Rollback, ctx, docVars, docCtx
  <2>2. pc[q] \in {"findPeriod", "findClosed", "accounts", "lockYear", "recheckYear", "lockPeriod",
                   "draw", "write", "setClosed"}
    BY <1>3 DEF LedgerStep, FindOpenPeriod, FindClosedYear, AssertPostableAccounts, LockYearShared,
                RecheckYear, LockPeriodShared, NextNumber, WriteReversal, SetPeriodClosed
  <2>3. \E l : pc' = [pc EXCEPT ![q] = l]
    BY <1>3 DEF LedgerStep, FindOpenPeriod, FindClosedYear, AssertPostableAccounts, LockYearShared,
                RecheckYear, LockPeriodShared, NextNumber, WriteReversal, SetPeriodClosed, Reject,
                Rollback, Goto, Commit
  <2> QED BY <2>1, <2>2, <2>3, QuietLines
<1>4. ASSUME NEW q \in Req, LoadEntry(q) PROVE \A r \in Req : KeepsLines(r) \/ BringsLines(r)
  <2>1. CASE Rejected(q)
    BY <1>2, <2>1
  <2>2. CASE ~Rejected(q)
    <3>1. pc[q] = "loadEntry" /\ DInFlight(q) /\ OpFits(q) /\ Knows(q)
      BY <1>4 DEF LoadEntry, DInv, Own, DInFlight
    <3>2. op[q] \in {"voidDoc", "voidPay"} /\ tgt[q] \in Req
      BY <3>1 DEF OpFits, Knows
    <3>3. /\ buf' = [buf EXCEPT ![q] = Swapped(lines[tgt[q]])] /\ pc' = [pc EXCEPT ![q] = "findPeriod"]
          /\ UNCHANGED <<op, calc>>
      BY <1>4, <2>2 DEF LoadEntry, Goto, docVars, docCtx
    <3>4. \A r \in Req \ {q} : KeepsLines(r)
      BY <1>0, <3>3 DEF KeepsLines, Prepared
    <3>5. BringsLines(q)
      BY <1>0, <3>2, <3>3 DEF BringsLines, Prepared
    <3> QED BY <3>4, <3>5
  <2> QED BY <2>1, <2>2
<1>5. ASSUME NEW q \in Req, Calculate(q) PROVE \A r \in Req : KeepsLines(r) \/ CalculatesLines(r)
  <2>1. CASE Rejected(q)
    BY <1>2, <2>1
  <2>2. CASE ~Rejected(q)
    <3> DEFINE ls == calc[q].lines
               v == CalculatedLines(Nature, ls, taxCode, Control, Accounts)
               c == ComputeTotals(ls)
    <3>1. /\ Accepts(Nature, ls, taxCode)
          /\ calc' = [calc EXCEPT ![q] = c] /\ buf' = [buf EXCEPT ![q] = v]
          /\ pc' = [pc EXCEPT ![q] = "findPeriod"] /\ UNCHANGED op
      BY <1>5, <2>2 DEF Calculate, Goto
    <3>2. ls \in LineLists \cup {<<>>}
      BY <1>0 DEF Calcs
    <3>3. \A r \in Req \ {q} : KeepsLines(r)
      <4> HIDE DEF v, c
      <4> QED BY <1>0, <3>1 DEF KeepsLines, Prepared
    <3>4. calc'[q] = c /\ buf'[q] = v /\ op'[q] = op[q]
      <4> HIDE DEF v, c
      <4> QED BY <1>0, <3>1
    <3>5. CalculatesLines(q)
      BY <3>1, <3>2, <3>4, Zenon DEF CalculatesLines
    <3> QED BY <3>3, <3>5
  <2> QED BY <2>1, <2>2
<1>6. ASSUME NEW q \in Req, DocStep(q), ~LoadEntry(q), ~Calculate(q)
      PROVE  \A r \in Req : KeepsLines(r)
  <2>1. UNCHANGED <<op, buf, calc>>
    BY <1>6 DEF DocStep, UpdateRow, LockDoc, LockPay, Settle, Unwind, DrawDoc, NextAlloc, Finished,
                WriteDocPosted, WritePayPosted, WriteDocVoid, WritePayVoid,
                Rejected, RolledBack, Reject, Rollback, ctx, docVars, docCtx
  <2>2. pc[q] \in {"update", "lockDoc", "lockPay", "settle", "unwind", "drawDoc", "write"}
    BY <1>6 DEF DocStep, UpdateRow, LockDoc, LockPay, Settle, Unwind, DrawDoc,
                WriteDocPosted, WritePayPosted, WriteDocVoid, WritePayVoid
  <2>3. \E l : pc' = [pc EXCEPT ![q] = l]
    BY <1>6 DEF DocStep, UpdateRow, LockDoc, LockPay, Settle, Unwind, DrawDoc, NextAlloc, Finished,
                WriteDocPosted, WritePayPosted, WriteDocVoid, WritePayVoid,
                Rejected, RolledBack, Reject, Rollback, Goto, Commit
  <2> QED BY <2>1, <2>2, <2>3, QuietLines
<1>7. ASSUME NEW q \in Req, DAbort(q) PROVE \A r \in Req : KeepsLines(r)
  BY <1>2, <1>7 DEF DAbort
<1> QED BY <1>1, <1>3, <1>4, <1>5, <1>6, <1>7, BeginLines DEF DNext, DIdle

\* What a step does to the lines of entries: one more entry has those of a request.
LEMMA EntryLines ==
  ASSUME DInv, [DNext]_allVars
  PROVE  \A e \in Req : lines'[e] = lines[e] \/ (journal[e].status = "none" /\ lines'[e] = buf[e])
<1>1. CASE Edits
  BY <1>1 DEF Edits
<1>2. ASSUME NEW r \in Req, WriteDocPosted(r) \/ WritePayPosted(r)
      PROVE  \A e \in Req : lines'[e] = lines[e] \/ (journal[e].status = "none" /\ lines'[e] = buf[e])
  <2>1. DocSource \in Sources /\ "PAYMENT" \in Sources
    BY DEF DocSource, Sources
  <2> QED BY <1>2, <2>1, OpNames, PostedEntry DEF WriteDocPosted, WritePayPosted
<1>3. ASSUME NEW r \in Req, ~RolledBack(r),
             \/ WriteDocVoid(r)
             \/ WritePayVoid(r)
             \/ WriteReversal(r) /\ UNCHANGED docVars
      PROVE  \A e \in Req : lines'[e] = lines[e] \/ (journal[e].status = "none" /\ lines'[e] = buf[e])
  BY <1>3, ReversalEntry DEF WriteDocVoid, WritePayVoid, WriteReversal, RolledBack
<1> QED BY <1>1, <1>2, <1>3, StepCases

-----------------------------------------------------------------------------
(* Double entry. *)

\* Every entry balances, and so do the lines that any request is about to post.
Balanced == \A r \in Req : AssertBalanced(lines[r]) /\ AssertBalanced(buf[r])

\* Two accounts, one amount.
LEMMA TwoSided ==
  ASSUME NEW a \in Accounts, NEW b \in Accounts, a # b, NEW n \in Int
  PROVE  AssertBalanced([NoLines EXCEPT ![a] = n, ![b] = -n])
<1> DEFINE v == [NoLines EXCEPT ![a] = n, ![b] = -n]
           A == Accounts \ {a}
<1>1. IsFiniteSet(Accounts) /\ IsFiniteSet(A)
  BY LedgerAssumption, FS_RemoveElement
<1>2. /\ \A x \in Accounts : v[x] \in Int
      /\ v[a] = n /\ \A x \in A : v[x] = IF x = b THEN -n ELSE 0
  BY DEF NoLines
<1> HIDE DEF v
<1>3. SumOver(v, Accounts) = v[a] + SumOver(v, Accounts \ {a})
  BY <1>1, <1>2, SumTake
<1>4. SumOver(v, A) = IF b \in A THEN -n ELSE 0
  <2>1. -n \in Int
    OBVIOUS
  <2> HIDE DEF A
  <2> QED BY <1>1, <1>2, <2>1, SumSingle
<1>5. SumOver(v, Accounts) = 0
  BY <1>2, <1>3, <1>4
<1> QED BY <1>5 DEF v, AssertBalanced, Total

LEMMA NoLinesBalance == AssertBalanced(NoLines)
<1>1. IsFiniteSet(Accounts) /\ \A a \in Accounts : NoLines[a] = 0
  BY LedgerAssumption DEF NoLines
<1> QED BY <1>1, SumZero DEF AssertBalanced, Total

LEMMA SwappedBalance ==
  ASSUME NEW v \in Lines, AssertBalanced(v)
  PROVE  AssertBalanced(Swapped(v))
<1>1. IsFiniteSet(Accounts) /\ \A a \in Accounts : v[a] \in Int /\ Swapped(v)[a] = -v[a]
  BY LedgerAssumption DEF Lines, Swapped
<1>2. SumOver(Swapped(v), Accounts) = -SumOver(v, Accounts)
  BY <1>1, SumNegated
<1>3. SumOver(v, Accounts) = 0
  BY DEF AssertBalanced, Total
<1>4. SumOver(Swapped(v), Accounts) \in Int
  BY <1>1, SumType
<1>5. SumOver(Swapped(v), Accounts) = 0
  <2>1. \A m, n \in Int : m = -n => m + n = 0
    OBVIOUS
  <2>2. SumOver(v, Accounts) \in Int
    BY <1>3
  <2>3. SumOver(Swapped(v), Accounts) + SumOver(v, Accounts) = 0
    BY <1>2, <1>4, <2>1, <2>2
  <2> QED BY <1>3, <1>4, <2>3
<1> QED BY <1>5 DEF AssertBalanced, Total

LEMMA NotThree ==
  ASSUME NEW a, NEW b
  PROVE  Cardinality({a, b}) # 3
<1>1. IsFiniteSet({a}) /\ Cardinality({a}) = 1
  BY FS_Singleton
<1>2. Cardinality({a} \cup {b}) = IF b \in {a} THEN Cardinality({a}) ELSE Cardinality({a}) + 1
  BY <1>1, FS_AddElement
<1>3. {a} \cup {b} = {a, b}
  OBVIOUS
<1>4. Cardinality({a, b}) = 1 \/ Cardinality({a, b}) = 2
  BY <1>1, <1>2, <1>3
<1> QED BY <1>4

LEMMA ThreeAccounts == Control # Offset /\ Control # Cash /\ Offset # Cash
<1>2. Cardinality({Control, Offset, Cash}) = 3
  BY DocumentsAssumption
<1>3. Control # Offset
  <2>1. Control = Offset => {Control, Offset, Cash} = {Control, Cash}
    OBVIOUS
  <2>2. Cardinality({Control, Cash}) # 3
    BY NotThree
  <2> QED BY <1>2, <2>1, <2>2
<1>4. Control # Cash
  <2>1. Control = Cash => {Control, Offset, Cash} = {Control, Offset}
    OBVIOUS
  <2>2. Cardinality({Control, Offset}) # 3
    BY NotThree
  <2> QED BY <1>2, <2>1, <2>2
<1>5. Offset # Cash
  <2>1. Offset = Cash => {Control, Offset, Cash} = {Control, Offset}
    OBVIOUS
  <2>2. Cardinality({Control, Offset}) # 3
    BY NotThree
  <2> QED BY <1>2, <2>1, <2>2
<1> QED BY <1>3, <1>4, <1>5

\* The lines of a payment, and those of a document without tax.
LEMMA PlainBalance ==
  ASSUME NEW n \in Nat
  PROVE  AssertBalanced(PayLines(n)) /\ AssertBalanced(DocLines(n))
<1>1. /\ Control \in Accounts /\ Offset \in Accounts /\ Cash \in Accounts
      /\ Cash # Control /\ Control # Offset
  <2>1. Control \in Accounts /\ Offset \in Accounts /\ Cash \in Accounts
    BY DocumentsAssumption
  <2>2. Cash # Control /\ Control # Offset
    BY ThreeAccounts
  <2> QED BY <2>1, <2>2
<1>2. Signed(n) \in Int
  BY DEF Signed
<1> DEFINE s == Signed(n)
<1> HIDE DEF s
<1>3. s \in Int
  BY <1>2 DEF s
<1>4. AssertBalanced([NoLines EXCEPT ![Cash] = s, ![Control] = -s])
  BY <1>1, <1>3, TwoSided
<1>5. AssertBalanced([NoLines EXCEPT ![Control] = s, ![Offset] = -s])
  BY <1>1, <1>3, TwoSided
<1> QED BY <1>4, <1>5 DEF s, PayLines, DocLines

LEMMA BalancedStep ==
  ASSUME DInv, Balanced, [DNext]_allVars
  PROVE  Balanced'
<1> SUFFICES ASSUME NEW r \in Req PROVE AssertBalanced(lines[r])' /\ AssertBalanced(buf[r])'
  BY DEF Balanced
<1>1. AssertBalanced(lines'[r])
  BY EntryLines DEF Balanced
<1>2. AssertBalanced(buf'[r])
  <2>1. CASE KeepsLines(r)
    BY <2>1 DEF KeepsLines, Balanced
  <2>2. CASE BringsLines(r)
    <3>1. \A e \in Req : AssertBalanced(Swapped(lines[e]))
      BY SwappedBalance DEF Balanced, DInv, DTypes
    <3> QED BY <2>2, <3>1, NoLinesBalance, PlainBalance DEF BringsLines
  <2>3. CASE CalculatesLines(r)
    <3>1. PICK ls \in LineLists \cup {<<>>} :
            /\ Accepts(Nature, ls, taxCode)
            /\ buf'[r] = CalculatedLines(Nature, ls, taxCode, Control, Accounts)
      BY <2>3 DEF CalculatesLines
    <3>2. taxCode \in [DOMAIN TaxCodes -> TaxCodeRow]
      BY DEF DInv, DTypes
    <3> QED BY <3>1, <3>2, CalculatedBalances
  <2> QED BY <2>1, <2>2, <2>3, LinesStep
<1> QED BY <1>1, <1>2 DEF AssertBalanced

\* Every journal entry balances, whatever documents and payments were posted and
\* voided: what TaxService.calculate returns balances for every list of lines and every
\* tax table it accepts, and whatever changed since the draft was read.
THEOREM DocumentEntriesBalance == DSpec => [](\A e \in Req : AssertBalanced(lines[e]))
<1>1. ASSUME DInit PROVE Balanced
  <2> SUFFICES ASSUME NEW r \in Req PROVE AssertBalanced(lines[r]) /\ AssertBalanced(buf[r])
    BY DEF Balanced
  <2>1. lines[r] = IF InHistory(r) THEN DocLines(HistoryAmount) ELSE NoLines
    BY <1>1, InitTables
  <2>2. buf[r] = NoLines
    BY <1>1, InitContext
  <2>3. HistoryAmount \in Nat
    BY DocumentsAssumption
  <2> QED BY <2>1, <2>2, <2>3, PlainBalance, NoLinesBalance
<1>2. DInv /\ Balanced /\ [DNext]_allVars => Balanced'
  BY BalancedStep
<1>3. Balanced => \A e \in Req : AssertBalanced(lines[e])
  BY DEF Balanced
<1> QED BY <1>1, <1>2, <1>3, DocumentsInductive, PTL DEF DSpec

-----------------------------------------------------------------------------
(* The totals of a document and its entry. *)

TaxAccounts == {TaxCodes[k].account : k \in DOMAIN TaxCodes}

\* The chart of accounts is used as it is meant to be: document lines are not on the
\* control account, nor are taxes.  No code prevents it.
OffControl ==
  /\ \A ls \in LineLists : \A i \in DOMAIN ls : ls[i].account # Control
  /\ Control \notin TaxAccounts

\* All document lines are on one account, and taxes are on accounts of their own.
OffsetOnly ==
  /\ \A ls \in LineLists : \A i \in DOMAIN ls : ls[i].account = Offset
  /\ Control \notin TaxAccounts /\ Offset \notin TaxAccounts

\* Tax codes keep their account.
TaxKept == \A c \in DOMAIN TaxCodes : taxCode[c].account = TaxCodes[c].account

LEMMA TaxKeptStep ==
  ASSUME DInv, TaxKept, [DNext]_allVars
  PROVE  TaxKept'
<1>0. taxCode \in [DOMAIN TaxCodes -> TaxCodeRow]
  BY DEF DInv, DTypes
<1>1. CASE UNCHANGED taxCode
  BY <1>1 DEF TaxKept
<1>2. ASSUME NEW r \in Req, ChangeTaxCode(r), taxCode' # taxCode PROVE TaxKept'
  <2>1. PICK c \in DOMAIN taxCode : \E row \in Amended(c) : taxCode' = [taxCode EXCEPT ![c] = row]
    BY <1>2 DEF ChangeTaxCode, Rejected, docVars, docDb
  <2>2. PICK row \in Amended(c) : taxCode' = [taxCode EXCEPT ![c] = row]
    BY <2>1
  <2>3. row.account = taxCode[c].account
    <3>1. taxCode[c] \in TaxCodeRow
      BY <1>0
    <3>2. \/ \E x : row = [taxCode[c] EXCEPT !.rate = x]
          \/ \E st : row = [taxCode[c] EXCEPT !.status = st]
      BY <2>2 DEF Amended
    <3> QED BY <3>1, <3>2 DEF TaxCodeRow
  <2> QED BY <1>0, <2>2, <2>3 DEF TaxKept
<1>3. ASSUME NEW r \in Req, DBegin(r), ~ChangeTaxCode(r) PROVE UNCHANGED taxCode
  <2>1. CASE CreateDoc(r) \/ CreatePay(r) \/ DeleteDoc(r) \/ DeletePay(r)
    <3>1. Finished(r) \/ Rejected(r)
      BY <2>1, Zenon DEF CreateDoc, CreatePay, DeleteDoc, DeletePay
    <3> QED BY <3>1 DEF Finished, Rejected, docVars, docDb
  <2>2. CASE BeginUpdateDoc(r) \/ BeginPostDoc(r) \/ BeginVoidDoc(r) \/ BeginPostPay(r) \/ BeginVoidPay(r)
    BY <2>2 DEF BeginUpdateDoc, BeginPostDoc, BeginVoidDoc, BeginPostPay, BeginVoidPay, Begins,
                Rejected, docVars, docDb
  <2>3. CASE ChangePartner(r) \/ UNCHANGED docVars
    BY <2>3 DEF ChangePartner, Rejected, docVars, docDb
  <2> QED BY <1>3, <2>1, <2>2, <2>3 DEF DBegin
<1>4. ASSUME NEW r \in Req, LedgerStep(r) \/ DAbort(r) PROVE UNCHANGED taxCode
  BY <1>4 DEF LedgerStep, DAbort, RolledBack, docVars, docDb
<1>5. ASSUME NEW r \in Req, DocStep(r) PROVE UNCHANGED taxCode
  BY <1>5 DEF DocStep, UpdateRow, LoadEntry, Calculate, LockDoc, LockPay, Settle, Unwind, DrawDoc,
              NextAlloc, WriteDocPosted, WritePayPosted, WriteDocVoid, WritePayVoid, Finished,
              Rejected, RolledBack, docVars, docDb
<1> QED BY <1>1, <1>2, <1>3, <1>4, <1>5 DEF DNext, DIdle, allVars, docVars, docDb

\* What a request posts on the control account is the total that it shows, ...
OnControl(r) == Prepared(r) => buf[r][Control] = Signed(calc[r].total)

\* ... and elsewhere the subtotal and the taxes.
OnOthers(r) ==
  Prepared(r) =>
    /\ buf[r][Offset] = -Signed(calc[r].subtotal)
    /\ Total(buf[r], TaxAccounts) = -Signed(calc[r].taxTotal - calc[r].withholdingTotal)

\* The accounts of the codes of a document, as the table has them by now.
LEMMA CodeAccounts ==
  ASSUME DInv, TaxKept, NEW ls \in LineLists \cup {<<>>}
  PROVE  \A c \in CodesIn(ls) : taxCode[c].account \in TaxAccounts
BY LineTypes DEF TaxKept, TaxAccounts

LEMMA OnControlStep ==
  ASSUME OffControl, DInv, TaxKept, \A r \in Req : OnControl(r), [DNext]_allVars
  PROVE  \A r \in Req : OnControl(r)'
<1> SUFFICES ASSUME NEW r \in Req PROVE OnControl(r)'
  OBVIOUS
<1>1. CASE KeepsLines(r) \/ BringsLines(r)
  BY <1>1 DEF KeepsLines, BringsLines, OnControl
<1>2. CASE CalculatesLines(r)
  <2>1. PICK ls \in LineLists \cup {<<>>} :
          /\ calc'[r] = ComputeTotals(ls)
          /\ buf'[r] = CalculatedLines(Nature, ls, taxCode, Control, Accounts)
    BY <1>2 DEF CalculatesLines
  <2>2. taxCode \in [DOMAIN TaxCodes -> TaxCodeRow]
    BY DEF DInv, DTypes
  <2>3. /\ \A i \in DOMAIN ls : ls[i].account # Control
        /\ \A c \in CodesIn(ls) : taxCode[c].account # Control
    BY CodeAccounts DEF OffControl
  <2>4. CalculatedLines(Nature, ls, taxCode, Control, Accounts)[Control]
          = Signed(SettlementAmount(ls, taxCode))
    BY <2>2, <2>3, CalculatedControl
  <2>5. ComputeTotals(ls).total = SettlementAmount(ls, taxCode)
    BY DEF ComputeTotals
  <2> QED BY <2>1, <2>4, <2>5 DEF OnControl
<1> QED BY <1>1, <1>2, LinesStep

LEMMA CalculatedOthers ==
  ASSUME OffsetOnly, NEW ls \in LineLists \cup {<<>>},
         NEW table \in [DOMAIN TaxCodes -> TaxCodeRow], Accepts(Nature, ls, table),
         \A c \in CodesIn(ls) : table[c].account \in TaxAccounts
  PROVE  /\ CalculatedLines(Nature, ls, table, Control, Accounts)[Offset] = -Signed(Subtotal(ls))
         /\ Total(CalculatedLines(Nature, ls, table, Control, Accounts), TaxAccounts)
              = -Signed(TaxTotal(ls, table) - WithholdingTotal(ls, table))
<1> DEFINE v == CalculatedLines(Nature, ls, table, Control, Accounts)
           t == TaxTotal(ls, table)
           w == WithholdingTotal(ls, table)
           s == Subtotal(ls)
           x == Side * SettlementAmount(ls, table)
<1>1. s \in Nat /\ t \in Nat /\ w \in Nat /\ v \in Lines
  BY TotalTypes, CalculatedType
<1>2. Offset \in Accounts /\ {Offset} \in SUBSET Accounts /\ TaxAccounts \in SUBSET Accounts
  BY DocumentsAssumption DEF TaxAccounts, TaxCodeRow
<1>3. Control \notin {Offset} /\ Control \notin TaxAccounts /\ Offset \notin TaxAccounts
  BY ThreeAccounts DEF OffsetOnly
<1>4. \A i \in DOMAIN ls : ls[i].account = Offset
  BY DEF OffsetOnly
<1>5. BaseOn(ls, {Offset}) = s /\ BaseOn(ls, TaxAccounts) = 0
  <2>1. (\A i \in DOMAIN ls : ls[i].account \in {Offset}) => BaseOn(ls, {Offset}) = Subtotal(ls)
    BY BaseOnAll
  <2>2. (\A i \in DOMAIN ls : ls[i].account \notin TaxAccounts) => BaseOn(ls, TaxAccounts) = 0
    BY BaseOnAll
  <2> QED BY <1>3, <1>4, <2>1, <2>2
<1>6. TaxOn(ls, table, {Offset}, "DEBIT") = 0 /\ TaxOn(ls, table, {Offset}, "CREDIT") = 0
  BY <1>3, TaxOnNone
<1>7. IF Nature = "SALE"
        THEN TaxOn(ls, table, TaxAccounts, "DEBIT") = w /\ TaxOn(ls, table, TaxAccounts, "CREDIT") = t
        ELSE TaxOn(ls, table, TaxAccounts, "DEBIT") = t /\ TaxOn(ls, table, TaxAccounts, "CREDIT") = w
  BY TaxOnAll
<1>8. Total(v, {Offset})
        = Side * BaseOn(ls, {Offset}) + TaxOn(ls, table, {Offset}, "DEBIT")
            - TaxOn(ls, table, {Offset}, "CREDIT") - (IF Control \in {Offset} THEN x ELSE 0)
  BY <1>2, CalculatedTotal
<1>9. Total(v, TaxAccounts)
        = Side * BaseOn(ls, TaxAccounts) + TaxOn(ls, table, TaxAccounts, "DEBIT")
            - TaxOn(ls, table, TaxAccounts, "CREDIT") - (IF Control \in TaxAccounts THEN x ELSE 0)
  BY <1>2, CalculatedTotal
<1>10. Total(v, {Offset}) = v[Offset]
  BY <1>1, <1>2, TotalOne
<1> HIDE DEF v, t, w, s, x
<1>11. v[Offset] = Side * s + 0 - 0 - 0
  BY <1>3, <1>5, <1>6, <1>8, <1>10
<1>12. Total(v, TaxAccounts) = Side * 0 + TaxOn(ls, table, TaxAccounts, "DEBIT")
                                - TaxOn(ls, table, TaxAccounts, "CREDIT") - 0
  BY <1>3, <1>5, <1>9
<1>13. CASE Nature = "SALE"
  <2>1. v[Offset] = -Signed(s)
    BY <1>1, <1>11, <1>13 DEF Side, Signed
  <2>2. Total(v, TaxAccounts) = (-1) * 0 + w - t - 0
    BY <1>7, <1>12, <1>13 DEF Side
  <2>3. Total(v, TaxAccounts) = -Signed(t - w)
    BY <1>1, <1>13, <2>2 DEF Signed
  <2> QED BY <2>1, <2>3 DEF v, t, w, s
<1>14. CASE Nature # "SALE"
  <2>1. v[Offset] = -Signed(s)
    BY <1>1, <1>11, <1>14 DEF Side, Signed
  <2>2. Total(v, TaxAccounts) = 1 * 0 + t - w - 0
    BY <1>7, <1>12, <1>14 DEF Side
  <2>3. Total(v, TaxAccounts) = -Signed(t - w)
    BY <1>1, <1>14, <2>2 DEF Signed
  <2> QED BY <2>1, <2>3 DEF v, t, w, s
<1> QED BY <1>13, <1>14

LEMMA OnOthersStep ==
  ASSUME OffsetOnly, DInv, TaxKept, \A r \in Req : OnOthers(r), [DNext]_allVars
  PROVE  \A r \in Req : OnOthers(r)'
<1> SUFFICES ASSUME NEW r \in Req PROVE OnOthers(r)'
  OBVIOUS
<1>1. CASE KeepsLines(r) \/ BringsLines(r)
  BY <1>1 DEF KeepsLines, BringsLines, OnOthers
<1>2. CASE CalculatesLines(r)
  <2>1. PICK ls \in LineLists \cup {<<>>} :
          /\ Accepts(Nature, ls, taxCode)
          /\ calc'[r] = ComputeTotals(ls)
          /\ buf'[r] = CalculatedLines(Nature, ls, taxCode, Control, Accounts)
    BY <1>2 DEF CalculatesLines
  <2>2. taxCode \in [DOMAIN TaxCodes -> TaxCodeRow]
    BY DEF DInv, DTypes
  <2>3. \A c \in CodesIn(ls) : taxCode[c].account \in TaxAccounts
    BY CodeAccounts
  <2> DEFINE v == CalculatedLines(Nature, ls, taxCode, Control, Accounts)
  <2>4. /\ v[Offset] = -Signed(Subtotal(ls))
        /\ Total(v, TaxAccounts) = -Signed(TaxTotal(ls, taxCode) - WithholdingTotal(ls, taxCode))
    BY <2>1, <2>2, <2>3, CalculatedOthers
  <2>5. /\ ComputeTotals(ls).subtotal = Subtotal(ls)
        /\ ComputeTotals(ls).taxTotal = TaxTotal(ls, taxCode)
        /\ ComputeTotals(ls).withholdingTotal = WithholdingTotal(ls, taxCode)
    BY DEF ComputeTotals
  <2> HIDE DEF v
  <2>6. buf'[r] = v /\ calc'[r] = ComputeTotals(ls)
    BY <2>1 DEF v
  <2> QED BY <2>4, <2>5, <2>6 DEF OnOthers
<1> QED BY <1>1, <1>2, LinesStep

LEMMA OffsetImpliesOffControl == OffsetOnly => OffControl
BY ThreeAccounts DEF OffsetOnly, OffControl

\* A document that becomes posted does so with the totals and the lines of its request.
LEMMA PostedFrom ==
  ASSUME DInv, [DNext]_allVars, NEW d \in Req, doc[d].status = "DRAFT", doc'[d].status = "POSTED"
  PROVE  \E r \in Req : /\ Prepared(r) /\ doc'[d].entry = r /\ lines'[r] = buf[r]
                        /\ doc'[d].calc.total = calc[r].total
                        /\ doc'[d].calc.subtotal = calc[r].subtotal
                        /\ doc'[d].calc.taxTotal = calc[r].taxTotal
                        /\ doc'[d].calc.withholdingTotal = calc[r].withholdingTotal
<1>1. ~Edits
  BY DEF Edits, DocEdited
<1>2. \A r \in Req : ~WritePayPosted(r)
  BY PayPosted
<1>3. \A r \in Req : WriteDocVoid(r) => RolledBack(r)
  BY DocVoided
<1>4. \A r \in Req : WritePayVoid(r) => RolledBack(r)
  BY PayVoided
<1>5. ~UNCHANGED docVars
  BY DEF docVars, docDb
<1>6. PICK r \in Req : WriteDocPosted(r)
  BY <1>1, <1>2, <1>3, <1>4, <1>5, StepCases
<1>7. /\ pc[r] = "write" /\ op[r] = "postDoc" /\ \A e \in Req \ {src[r]} : doc'[e] = doc[e]
      /\ doc'[src[r]].entry = r
      /\ doc'[src[r]].calc = [calc[r] EXCEPT !.lines = doc[src[r]].calc.lines]
  BY <1>6, DocPosted
<1>8. d = src[r]
  BY <1>7
<1>9. lines'[r] = buf[r]
  <2>1. DocSource \in Sources /\ op[r] \in PostOps
    BY <1>7, OpNames DEF DocSource, Sources
  <2> QED BY <1>6, <1>7, <2>1, PostedEntry DEF WriteDocPosted
<1>10. calc[r] \in Calcs
  BY DEF DInv, DTypes
<1>11. Prepared(r)
  BY <1>7 DEF Prepared
<1> DEFINE c == [calc[r] EXCEPT !.lines = doc[src[r]].calc.lines]
<1>12. /\ c.total = calc[r].total /\ c.subtotal = calc[r].subtotal
       /\ c.taxTotal = calc[r].taxTotal /\ c.withholdingTotal = calc[r].withholdingTotal
  BY <1>10 DEF Calcs
<1>13. doc'[d].calc = c /\ doc'[d].entry = r
  BY <1>7, <1>8
<1> HIDE DEF c
<1> QED BY <1>9, <1>11, <1>12, <1>13

\* PostedAsEntered: the totals of a document are those of its journal entry, whatever
\* happened to the tax codes and to the draft since it was read.
THEOREM TotalsAsEntered == ASSUME OffsetOnly PROVE DSpec => PostedAsEntered
<1> DEFINE Fits == TaxKept /\ (\A r \in Req : OnControl(r)) /\ (\A r \in Req : OnOthers(r))
           AsEntered ==
             \A d \in Req :
               (doc[d].status = "DRAFT" /\ doc'[d].status = "POSTED") =>
                 LET c == doc'[d].calc
                     v == lines'[doc'[d].entry]
                 IN /\ v[Control] = Signed(c.total)
                    /\ v[Offset] = -Signed(c.subtotal)
                    /\ Total(v, {TaxCodes[k].account : k \in DOMAIN TaxCodes})
                         = -Signed(c.taxTotal - c.withholdingTotal)
<1>1. ASSUME DInit PROVE Fits
  <2>1. taxCode = TaxCodes /\ \A r \in Req : op[r] = "none"
    BY <1>1, InitTables, InitContext
  <2> QED BY <2>1 DEF TaxKept, OnControl, OnOthers, Prepared
<1>2. ASSUME DInv, Fits, [DNext]_allVars PROVE Fits'
  BY <1>2, OffsetImpliesOffControl, TaxKeptStep, OnControlStep, OnOthersStep
<1>3. ASSUME DInv, Fits, [DNext]_allVars PROVE AsEntered
  <2> SUFFICES ASSUME NEW d \in Req, doc[d].status = "DRAFT", doc'[d].status = "POSTED"
               PROVE  LET c == doc'[d].calc
                          v == lines'[doc'[d].entry]
                      IN /\ v[Control] = Signed(c.total)
                         /\ v[Offset] = -Signed(c.subtotal)
                         /\ Total(v, {TaxCodes[k].account : k \in DOMAIN TaxCodes})
                              = -Signed(c.taxTotal - c.withholdingTotal)
    OBVIOUS
  <2>1. PICK r \in Req : /\ Prepared(r) /\ doc'[d].entry = r /\ lines'[r] = buf[r]
                         /\ doc'[d].calc.total = calc[r].total
                         /\ doc'[d].calc.subtotal = calc[r].subtotal
                         /\ doc'[d].calc.taxTotal = calc[r].taxTotal
                         /\ doc'[d].calc.withholdingTotal = calc[r].withholdingTotal
    BY <1>3, PostedFrom
  <2>2. /\ buf[r][Control] = Signed(calc[r].total)
        /\ buf[r][Offset] = -Signed(calc[r].subtotal)
        /\ Total(buf[r], TaxAccounts) = -Signed(calc[r].taxTotal - calc[r].withholdingTotal)
    BY <1>3, <2>1 DEF OnControl, OnOthers
  <2> QED BY <2>1, <2>2 DEF TaxAccounts
<1>4. [][AsEntered]_allVars => PostedAsEntered
  BY DEF PostedAsEntered
<1> HIDE DEF Fits, AsEntered
<1>5. DSpec => []Fits
  BY <1>1, <1>2, DocumentsInductive, PTL DEF DSpec
<1>6. DSpec => [][AsEntered]_allVars
  BY <1>3, <1>5, DocumentsInductive, PTL DEF DSpec
<1> QED BY <1>4, <1>6, PTL

-----------------------------------------------------------------------------
(* The subledger and the control account. *)

\* Nobody reverses the entry of a document or a payment by hand, in the journal: no
\* code prevents it.
NoDirectReversal == \A r \in Req : "reverse" \notin Plan[r]

\* What document d has outstanding, all documents together, and the control account.
Open(d) == doc[d].calc.total - doc[d].paid
Outstanding == SumOver([d \in PostedDocs |-> Open(d)], PostedDocs)
OnAccount == SumOver([e \in Posted |-> lines[e][Control]], Posted)

\* The entry of every posted document and payment is on the control account with the
\* amount that the subledger shows for it.
DocCarried(d) == lines[doc[d].entry][Control] = Signed(doc[d].calc.total)
PayCarried(p) == lines[pay[p].entry][Control] = -Signed(AllocTotal(pay[p].alloc))

CarriedInv ==
  /\ TaxKept /\ \A r \in Req : OnControl(r)
  /\ \A r \in Req : op[r] # "reverse"
  /\ \A e \in Req : journal[e].status # "none" => e \in Posted
  /\ \A d \in PostedDocs : DocCarried(d)
  /\ \A p \in PostedPays : PayCarried(p)

Reconciled == IsFiniteSet(Posted) /\ IsFiniteSet(PostedDocs) /\ OnAccount = Signed(Outstanding)

LEMMA SignedSum ==
  ASSUME NEW v, NEW w, NEW S, IsFiniteSet(S), \A x \in S : v[x] \in Int,
         \A x \in S : w[x] = Signed(v[x])
  PROVE  SumOver(w, S) = Signed(SumOver(v, S))
<1>1. CASE Nature = "SALE"
  <2>1. \A x \in S : w[x] = v[x]
    BY <1>1 DEF Signed
  <2>2. SumOver(w, S) = SumOver(v, S)
    BY <2>1, SumSame
  <2> QED BY <1>1, <2>2 DEF Signed
<1>2. CASE Nature # "SALE"
  <2>1. \A x \in S : w[x] = -v[x]
    BY <1>2 DEF Signed
  <2>2. SumOver(w, S) = -SumOver(v, S)
    BY <2>1, SumNegated
  <2> QED BY <1>2, <2>2 DEF Signed
<1> QED BY <1>1, <1>2

LEMMA SignedPlus ==
  ASSUME NEW m \in Int, NEW n \in Int
  PROVE  /\ Signed(m) \in Int /\ Signed(m + n) = Signed(m) + Signed(n)
         /\ Signed(m - n) = Signed(m) - Signed(n)
BY DEF Signed

\* One more entry is posted, and no other entry moves on the control account.
LEMMA OneMoreEntry ==
  ASSUME DInv, DInv', IsFiniteSet(Posted), NEW e \in Req, e \notin Posted,
         Posted' = Posted \cup {e}, \A q \in Posted : lines'[q] = lines[q]
  PROVE  /\ IsFiniteSet(Posted') /\ OnAccount \in Int
         /\ OnAccount' = OnAccount + lines'[e][Control]
<1> DEFINE v == [q \in Posted |-> lines[q][Control]]
           w == [q \in Posted' |-> lines'[q][Control]]
<1>1. /\ \A q \in Req : lines[q][Control] \in Int /\ lines'[q][Control] \in Int
      /\ Posted \subseteq Req
  BY DocumentsAssumption DEF DInv, DTypes, Lines, Posted
<1>2. /\ \A q \in Posted : v[q] \in Int /\ w[q] = v[q]
      /\ \A q \in Posted \cup {e} : w[q] \in Int
      /\ w[e] = lines'[e][Control]
  BY <1>1
<1>3. OnAccount = SumOver(v, Posted) /\ OnAccount' = SumOver(w, Posted \cup {e})
  BY DEF OnAccount
<1> HIDE DEF v, w
<1>4. SumOver(v, Posted) \in Int /\ SumOver(w, Posted) = SumOver(v, Posted)
  BY <1>2, SumType, SumSame
<1>5. SumOver(w, Posted \cup {e}) = w[e] + SumOver(w, Posted)
  BY <1>2, SumOneMore
<1>6. IsFiniteSet(Posted')
  BY FS_AddElement
<1>7. w[e] \in Int
  BY <1>2
<1> QED BY <1>2, <1>3, <1>4, <1>5, <1>6, <1>7

\* Entries are posted and never anything else; the control account after a step.
LEMMA PostedAfter ==
  ASSUME DInv, CarriedInv, NEW r \in Req, journal[r].status = "none",
         journal'[r].status = "POSTED", journal'[r].deletedAt = Null,
         \A e \in Req \ {r} : \/ journal'[e] = journal[e]
                              \/ /\ journal[e].status # "none" /\ journal'[e].status = "REVERSED"
                                 /\ journal'[e].deletedAt = journal[e].deletedAt
  PROVE  /\ r \notin Posted /\ Posted' = Posted \cup {r}
         /\ \A e \in Req : journal'[e].status # "none" => e \in Posted'
<1>1. \A e \in Req \ {r} : e \in Posted' <=> e \in Posted
  BY DEF CarriedInv, Posted
<1>2. r \notin Posted /\ r \in Posted'
  BY DEF Posted
<1>3. Posted \subseteq Req /\ Posted' \subseteq Req
  BY DEF Posted
<1>4. ASSUME NEW e \in Req, journal'[e].status # "none" PROVE e \in Posted'
  <2>1. CASE e = r
    BY <1>2, <2>1
  <2>2. CASE e # r
    BY <1>1, <1>4, <2>2 DEF CarriedInv
  <2> QED BY <2>1, <2>2
<1> QED BY <1>1, <1>2, <1>3, <1>4

\* The open items of a step that posts no document and voids none.
LEMMA SameDocs ==
  ASSUME \A d \in Req : doc'[d].status = "POSTED" <=> doc[d].status = "POSTED",
         \A d \in PostedDocs : Open(d)' = Open(d)
  PROVE  PostedDocs' = PostedDocs /\ Outstanding' = Outstanding
<1>1. PostedDocs' = PostedDocs
  BY DEF PostedDocs
<1>2. [d \in PostedDocs' |-> Open(d)'] = [d \in PostedDocs |-> Open(d)]
  BY <1>1
<1> QED BY <1>1, <1>2 DEF Outstanding

LEMMA OpenTypes ==
  ASSUME DInv
  PROVE  /\ \A d \in Req : Open(d) \in Int /\ doc[d].calc.total \in Nat /\ doc[d].paid \in Int
         /\ PostedDocs \subseteq Req
<1>1. ASSUME NEW d \in Req PROVE doc[d].calc.total \in Nat /\ doc[d].paid \in Int
  <2>1. doc[d] \in DocRow
    BY DEF DInv, DTypes
  <2> QED BY <2>1 DEF DocRow, Calcs
<1> QED BY <1>1 DEF Open, PostedDocs

LEMMA OutstandingType ==
  ASSUME DInv, IsFiniteSet(PostedDocs)
  PROVE  Outstanding \in Int
<1> DEFINE v == [d \in PostedDocs |-> Open(d)]
<1>1. \A d \in PostedDocs : v[d] \in Int
  BY OpenTypes
<1> HIDE DEF v
<1>2. SumOver(v, PostedDocs) \in Int
  BY <1>1, SumType
<1> QED BY <1>2 DEF v, Outstanding

\* One more document is posted, or one less.
LEMMA OneMoreDoc ==
  ASSUME DInv, DInv', IsFiniteSet(PostedDocs), NEW x \in Req, x \notin PostedDocs,
         PostedDocs' = PostedDocs \cup {x}, \A d \in PostedDocs : Open(d)' = Open(d)
  PROVE  IsFiniteSet(PostedDocs') /\ Outstanding' = Outstanding + Open(x)'
<1> DEFINE v == [d \in PostedDocs |-> Open(d)]
           w == [d \in PostedDocs' |-> Open(d)']
<1>0. \A d \in Req : Open(d) \in Int /\ Open(d)' \in Int
  <2>1. \A d \in Req : Open(d) \in Int
    BY OpenTypes
  <2>2. \A d \in Req : Open(d)' \in Int
    <3>1. ASSUME NEW d \in Req PROVE doc'[d].calc.total \in Nat /\ doc'[d].paid \in Int
      <4>1. doc'[d] \in DocRow
        BY DEF DInv, DTypes
      <4> QED BY <4>1 DEF DocRow, Calcs
    <3> QED BY <3>1 DEF Open
  <2> QED BY <2>1, <2>2
<1>1. /\ \A d \in PostedDocs : v[d] \in Int /\ w[d] = v[d]
      /\ \A d \in PostedDocs \cup {x} : w[d] \in Int
      /\ w[x] = Open(x)'
  BY <1>0 DEF PostedDocs
<1>2. Outstanding = SumOver(v, PostedDocs) /\ Outstanding' = SumOver(w, PostedDocs \cup {x})
  BY DEF Outstanding
<1> HIDE DEF v, w
<1>3. SumOver(v, PostedDocs) \in Int /\ SumOver(w, PostedDocs) = SumOver(v, PostedDocs)
  BY <1>1, SumType, SumSame
<1>4. SumOver(w, PostedDocs \cup {x}) = w[x] + SumOver(w, PostedDocs)
  BY <1>1, SumOneMore
<1>5. IsFiniteSet(PostedDocs') /\ w[x] \in Int
  BY <1>1, FS_AddElement
<1> QED BY <1>1, <1>2, <1>3, <1>4, <1>5

LEMMA OneLessDoc ==
  ASSUME DInv, DInv', IsFiniteSet(PostedDocs), NEW x \in PostedDocs,
         PostedDocs' = PostedDocs \ {x}, \A d \in PostedDocs' : Open(d)' = Open(d)
  PROVE  IsFiniteSet(PostedDocs') /\ Outstanding' = Outstanding - Open(x)
<1> DEFINE v == [d \in PostedDocs |-> Open(d)]
           w == [d \in PostedDocs' |-> Open(d)']
<1>0. \A d \in PostedDocs : Open(d) \in Int
  BY OpenTypes
<1>1. /\ \A d \in PostedDocs : v[d] \in Int
      /\ \A d \in PostedDocs \ {x} : w[d] = v[d] /\ w[d] \in Int
      /\ v[x] = Open(x)
  BY <1>0
<1>2. Outstanding = SumOver(v, PostedDocs) /\ Outstanding' = SumOver(w, PostedDocs \ {x})
  BY DEF Outstanding
<1> HIDE DEF v, w
<1>3. IsFiniteSet(PostedDocs \ {x})
  BY FS_RemoveElement
<1>4. SumOver(v, PostedDocs) = v[x] + SumOver(v, PostedDocs \ {x})
  BY <1>1, SumTake
<1>5. SumOver(w, PostedDocs \ {x}) = SumOver(v, PostedDocs \ {x})
  BY <1>1, <1>3, SumSame
<1>6. SumOver(v, PostedDocs \ {x}) \in Int
  BY <1>1, <1>3, SumType
<1> QED BY <1>0, <1>1, <1>2, <1>3, <1>4, <1>5, <1>6

\* What a payment whose documents are all posted moves between them and what is open.
LEMMA AllocatedInAll ==
  ASSUME NEW al \in Allocs \cup {<<>>}, NEW S, IsFiniteSet(S), \A i \in DOMAIN al : al[i].doc \in S
  PROVE  SumOver([d \in S |-> AllocatedTo(al, d)], S) = AllocTotal(al)
<1> DEFINE v == AllocAmounts(al)
           g == [i \in DOMAIN al |-> al[i].doc]
           w == [d \in S |-> SumOver(v, {i \in DOMAIN al : g[i] = d})]
<1>1. IsFiniteSet(DOMAIN al) /\ \A i \in DOMAIN al : v[i] \in Int /\ g[i] \in S
  BY AllocTypes
<1>2. w = [d \in S |-> AllocatedTo(al, d)]
  <2>1. ASSUME NEW d \in S PROVE SumOver(v, {i \in DOMAIN al : g[i] = d}) = AllocatedTo(al, d)
    <3>1. {i \in DOMAIN al : g[i] = d} = {i \in DOMAIN al : al[i].doc = d}
      OBVIOUS
    <3> HIDE DEF g
    <3> QED BY <3>1 DEF AllocatedTo
  <2> HIDE DEF g, v
  <2> QED BY <2>1
<1>3. SumOver(v, DOMAIN al) = AllocTotal(al)
  BY DEF AllocTotal
<1>4. SumOver(v, DOMAIN al) = SumOver([d \in S |-> SumOver(v, {i \in DOMAIN al : g[i] = d})], S)
  <2> HIDE DEF v, g, w
  <2> QED BY <1>1, SumGrouped
<1> HIDE DEF v, g
<1> QED BY <1>2, <1>3, <1>4

\* A payment is posted (sign 1) or voided (sign -1).
LEMMA MovedDocs ==
  ASSUME DInv, IsFiniteSet(PostedDocs), NEW al \in Allocs,
         \A i \in DOMAIN al : al[i].doc \in PostedDocs,
         \A d \in Req : doc'[d].status = doc[d].status /\ doc'[d].calc = doc[d].calc,
         NEW s \in {1, -1},
         \A d \in Req : doc'[d].paid =
           IF s = 1 THEN doc[d].paid + AllocatedTo(al, d) ELSE doc[d].paid - AllocatedTo(al, d)
  PROVE  /\ PostedDocs' = PostedDocs
         /\ Outstanding' =
              IF s = 1 THEN Outstanding - AllocTotal(al) ELSE Outstanding + AllocTotal(al)
<1> DEFINE u == [d \in PostedDocs |-> AllocatedTo(al, d)]
           v == [d \in PostedDocs |-> Open(d)]
           w == [d \in PostedDocs |-> Open(d)']
<1>1. PostedDocs' = PostedDocs
  BY DEF PostedDocs
<1>2. /\ SumOver(u, PostedDocs) = AllocTotal(al) /\ AllocTotal(al) \in Nat
      /\ \A d : AllocatedTo(al, d) \in Nat
  BY AllocatedInAll, AllocTypes
<1>3. Outstanding = SumOver(v, PostedDocs) /\ Outstanding' = SumOver(w, PostedDocs)
  BY <1>1 DEF Outstanding
<1>4. ASSUME NEW d \in PostedDocs
      PROVE  /\ u[d] \in Int /\ v[d] \in Int /\ w[d] \in Int
             /\ s = 1 => v[d] = w[d] + u[d]
             /\ s = -1 => w[d] = v[d] + u[d]
  <2>1. d \in Req /\ doc[d].calc.total \in Nat /\ doc[d].paid \in Int /\ AllocatedTo(al, d) \in Nat
    BY <1>2, OpenTypes
  <2>2. Open(d) = doc[d].calc.total - doc[d].paid /\ Open(d)' = doc[d].calc.total - doc'[d].paid
    BY <2>1 DEF Open
  <2>3. u[d] = AllocatedTo(al, d) /\ v[d] = Open(d) /\ w[d] = Open(d)'
    OBVIOUS
  <2>4. doc'[d].paid = IF s = 1 THEN doc[d].paid + AllocatedTo(al, d) ELSE doc[d].paid - AllocatedTo(al, d)
    BY <2>1
  <2> HIDE DEF u, v, w
  <2> QED BY <2>1, <2>2, <2>3, <2>4
<1> HIDE DEF u, v, w
<1>5. SumOver(v, PostedDocs) \in Int /\ SumOver(w, PostedDocs) \in Int
  BY <1>4, SumType
<1>6. CASE s = 1
  <2>1. SumOver(v, PostedDocs) = SumOver(w, PostedDocs) + SumOver(u, PostedDocs)
    BY <1>4, <1>6, SumPlus
  <2> QED BY <1>1, <1>2, <1>3, <1>5, <1>6, <2>1
<1>7. CASE s = -1
  <2>1. SumOver(w, PostedDocs) = SumOver(v, PostedDocs) + SumOver(u, PostedDocs)
    BY <1>4, <1>7, SumPlus
  <2> QED BY <1>1, <1>2, <1>3, <1>5, <1>7, <2>1
<1> QED BY <1>6, <1>7

\* The invariants of the lines that are about to be posted.
LEMMA ToComeStep ==
  ASSUME OffControl, NoDirectReversal, DInv, CarriedInv, [DNext]_allVars
  PROVE  /\ TaxKept' /\ (\A r \in Req : OnControl(r))'
         /\ \A r \in Req : op'[r] # "reverse"
<1>1. TaxKept' /\ (\A r \in Req : OnControl(r))'
  BY TaxKeptStep, OnControlStep DEF CarriedInv
<1>2. \A r \in Req : op'[r] # "reverse"
  BY LinesStep DEF CarriedInv, NoDirectReversal, KeepsLines, BringsLines, CalculatesLines
<1> QED BY <1>1, <1>2

\* Edits of drafts leave all of it alone.
LEMMA EditsCarried ==
  ASSUME OffControl, NoDirectReversal, DInv, CarriedInv, Reconciled, [DNext]_allVars, DInv',
         Immutable, Edits
  PROVE  CarriedInv' /\ Reconciled'
<1>1. UNCHANGED <<journal, lines>> /\ \A d \in Req : DocEdited(d) /\ PayEdited(d)
  BY DEF Edits
<1>2. \A d \in Req : doc'[d].status = "POSTED" <=> doc[d].status = "POSTED"
  BY <1>1 DEF DocEdited
<1>3. \A d \in PostedDocs : doc'[d].calc = doc[d].calc /\ doc'[d].entry = doc[d].entry /\ doc'[d].paid = doc[d].paid
  BY <1>1 DEF DocEdited, Immutable, PostedDocs
<1>4. PostedDocs' = PostedDocs /\ Outstanding' = Outstanding
  <2>1. \A d \in PostedDocs : Open(d)' = Open(d)
    BY <1>3 DEF Open
  <2> QED BY <1>2, <2>1, SameDocs
<1>5. PostedPays' = PostedPays /\ \A p \in PostedPays : pay'[p].alloc = pay[p].alloc /\ pay'[p].entry = pay[p].entry
  BY <1>1 DEF PayEdited, PostedPays
<1>6. Posted' = Posted /\ OnAccount' = OnAccount
  BY <1>1 DEF Posted, OnAccount
<1>7. CarriedInv'
  BY <1>1, <1>3, <1>4, <1>5, <1>6, ToComeStep DEF CarriedInv, DocCarried, PayCarried
<1> QED BY <1>4, <1>6, <1>7 DEF Reconciled

\* The entries of what was posted before a step that writes the entry of r.
LEMMA OldCarried ==
  ASSUME DInv, CarriedInv, NEW r \in Req, journal[r].status = "none",
         \A e \in Req \ {r} : lines'[e] = lines[e], NEW d \in Req
  PROVE  /\ doc[d].status = "POSTED" /\ doc'[d].entry = doc[d].entry
              /\ doc'[d].calc.total = doc[d].calc.total => DocCarried(d)'
         /\ pay[d].status = "POSTED" /\ pay'[d].entry = pay[d].entry
              /\ pay'[d].alloc = pay[d].alloc => PayCarried(d)'
         /\ doc[d].status = "POSTED" => lines[doc[d].entry][Control] = Signed(doc[d].calc.total)
         /\ pay[d].status = "POSTED" => lines[pay[d].entry][Control] = -Signed(AllocTotal(pay[d].alloc))
<1>0. doc[d] \in DocRow /\ pay[d] \in PayRow /\ RowOK(d)
  BY DEF DInv, DTypes
<1>1. ASSUME doc[d].status = "POSTED"
      PROVE  /\ lines'[doc[d].entry] = lines[doc[d].entry]
             /\ lines[doc[d].entry][Control] = Signed(doc[d].calc.total)
  <2>1. doc[d].entry \in Req \ {r}
    BY <1>0, <1>1 DEF DocRow, RowOK
  <2> QED BY <1>1, <2>1 DEF CarriedInv, DocCarried, PostedDocs
<1>2. ASSUME pay[d].status = "POSTED"
      PROVE  /\ lines'[pay[d].entry] = lines[pay[d].entry]
             /\ lines[pay[d].entry][Control] = -Signed(AllocTotal(pay[d].alloc))
  <2>1. pay[d].entry \in Req \ {r}
    BY <1>0, <1>2 DEF PayRow, RowOK
  <2> QED BY <1>2, <2>1 DEF CarriedInv, PayCarried, PostedPays
<1> QED BY <1>1, <1>2 DEF DocCarried, PayCarried

\* A document is posted: its total is open, and on the control account.
LEMMA DocPostedCarried ==
  ASSUME OffControl, NoDirectReversal, DInv, PaidInv, CarriedInv, Reconciled, [DNext]_allVars, DInv',
         NEW r \in Req, WriteDocPosted(r)
  PROVE  CarriedInv' /\ Reconciled'
<1>1. PICK x \in Req :
      /\ pc[r] = "write" /\ op[r] = "postDoc" /\ x = src[r]
      /\ doc[x].status = "DRAFT" /\ doc'[x].paid = doc[x].paid
      /\ \A d \in Req \ {x} : doc'[d] = doc[d]
      /\ doc'[x].status = "POSTED" /\ doc'[x].entry = r
      /\ doc'[x].calc = [calc[r] EXCEPT !.lines = doc[x].calc.lines]
      /\ pay' = pay
  BY DocPosted DEF Is
<1>2. /\ journal[r].status = "none" /\ journal'[r].status = "POSTED"
      /\ journal'[r].deletedAt = Null /\ lines'[r] = buf[r]
      /\ \A e \in Req \ {r} : journal'[e] = journal[e] /\ lines'[e] = lines[e]
  <2>1. DocSource \in Sources /\ op[r] \in PostOps
    BY <1>1, OpNames DEF DocSource, Sources
  <2>2. CreatePostedEntry(r, DocSource)
    BY DEF WriteDocPosted
  <2> QED BY <1>1, <2>1, <2>2, PostedEntry
<1>3. doc'[x].calc.total = calc[r].total /\ calc[r].total \in Nat
  <2>1. calc[r] \in Calcs
    BY DEF DInv, DTypes
  <2> QED BY <1>1, <2>1 DEF Calcs
<1>4. buf[r][Control] = Signed(calc[r].total)
  BY <1>1 DEF CarriedInv, OnControl, Prepared
<1>5. doc[x].paid = 0
  BY <1>1, UnpostedUnpaid
<1>6. /\ r \notin Posted /\ Posted' = Posted \cup {r}
      /\ \A e \in Req : journal'[e].status # "none" => e \in Posted'
  BY <1>2, PostedAfter
<1>7. /\ IsFiniteSet(Posted') /\ OnAccount \in Int
      /\ OnAccount' = OnAccount + lines'[r][Control]
  <2>1. \A q \in Posted : lines'[q] = lines[q]
    BY <1>2, <1>6 DEF Posted
  <2> QED BY <1>6, <2>1, OneMoreEntry DEF Reconciled
<1>8. x \notin PostedDocs /\ PostedDocs' = PostedDocs \cup {x}
  BY <1>1 DEF PostedDocs
<1>9. Open(x)' = calc[r].total
  BY <1>1, <1>3, <1>5 DEF Open
<1>10. IsFiniteSet(PostedDocs') /\ Outstanding' = Outstanding + calc[r].total
  <2>1. \A d \in PostedDocs : Open(d)' = Open(d)
    BY <1>1, <1>8 DEF Open, PostedDocs
  <2> QED BY <1>1, <1>8, <1>9, <2>1, OneMoreDoc DEF Reconciled
<1>11. OnAccount' = Signed(Outstanding')
  <2>1. Outstanding \in Int
    BY OutstandingType DEF Reconciled
  <2>2. Signed(Outstanding + calc[r].total) = Signed(Outstanding) + Signed(calc[r].total)
    BY <1>3, <2>1, SignedPlus
  <2> QED BY <1>2, <1>4, <1>7, <1>10, <2>2 DEF Reconciled
<1>12. \A d \in PostedDocs' : DocCarried(d)'
  <2>1. DocCarried(x)'
    BY <1>1, <1>2, <1>3, <1>4 DEF DocCarried
  <2>2. ASSUME NEW d \in PostedDocs PROVE DocCarried(d)'
    BY <1>1, <1>2, <1>8, <2>2, OldCarried DEF PostedDocs
  <2> QED BY <1>8, <2>1, <2>2
<1>13. \A p \in PostedPays' : PayCarried(p)'
  BY <1>1, <1>2, OldCarried DEF PostedPays
<1> QED BY <1>6, <1>7, <1>10, <1>11, <1>12, <1>13, ToComeStep DEF CarriedInv, Reconciled

\* A payment is posted: what it allocates is no longer open, nor on the account.
LEMMA PayPostedCarried ==
  ASSUME OffControl, NoDirectReversal, DInv, PaidInv, CarriedInv, Reconciled, [DNext]_allVars, DInv',
         NEW r \in Req, WritePayPosted(r)
  PROVE  CarriedInv' /\ Reconciled'
<1>1. PICK x \in Req, al \in {Alloc(r)} :
      /\ pc[r] = "write" /\ op[r] = "postPay" /\ x = src[r]
      /\ pay[x].status = "DRAFT"
      /\ \A d \in Req \ {x} : pay'[d] = pay[d]
      /\ pay'[x].status = "POSTED" /\ pay'[x].entry = r /\ pay'[x].alloc = al
      /\ \A d \in Req :
           /\ doc'[d].paid = doc[d].paid + AllocatedTo(al, d)
           /\ doc'[d].status = doc[d].status /\ doc'[d].calc = doc[d].calc
           /\ doc'[d].entry = doc[d].entry
  BY PayPosted DEF Is, Alloc
<1>2. /\ journal[r].status = "none" /\ journal'[r].status = "POSTED"
      /\ journal'[r].deletedAt = Null /\ lines'[r] = buf[r]
      /\ \A e \in Req \ {r} : journal'[e] = journal[e] /\ lines'[e] = lines[e]
  <2>1. "PAYMENT" \in Sources /\ op[r] \in PostOps
    BY <1>1, OpNames DEF Sources
  <2>2. CreatePostedEntry(r, "PAYMENT")
    BY DEF WritePayPosted
  <2> QED BY <1>1, <2>1, <2>2, PostedEntry
<1>3. /\ al = Alloc(r) /\ al \in Allocs
      /\ \A d \in Req : AllocatedTo(al, d) # 0 => doc[d].status = "POSTED"
  BY <1>1, OpNames, HoldsAllocated
<1>4. AllocTotal(al) \in Nat /\ \A i \in DOMAIN al : al[i].doc \in PostedDocs
  <2>1. AllocTotal(al) \in Nat /\ \A i \in DOMAIN al : al[i].doc \in Req
    BY <1>3, AllocTypes
  <2>2. ASSUME NEW i \in DOMAIN al PROVE AllocatedTo(al, al[i].doc) # 0
    <3> DEFINE d == al[i].doc
    <3>1. \E j \in DOMAIN al : al[j].doc = d
      OBVIOUS
    <3> HIDE DEF d
    <3>2. AllocatedTo(al, d) > 0 /\ AllocatedTo(al, d) \in Nat
      BY <1>3, <3>1, AllocPositive, AllocTypes
    <3>3. AllocatedTo(al, d) # 0
      BY <3>2
    <3> QED BY <3>3 DEF d
  <2> QED BY <1>3, <2>1, <2>2 DEF PostedDocs
<1>5. lines'[r][Control] = -Signed(AllocTotal(al))
  <2>1. buf[r] = PayLines(AllocTotal(al))
    BY <1>1, <1>3 DEF DInv, Own, Knows, DInFlight
  <2>2. Control \in Accounts /\ Control # Cash /\ Cash \in Accounts
    BY ThreeAccounts, DocumentsAssumption
  <2>3. PayLines(AllocTotal(al))[Control] = -Signed(AllocTotal(al))
    BY <2>2 DEF PayLines, NoLines
  <2> QED BY <1>2, <2>1, <2>3
<1>6. /\ r \notin Posted /\ Posted' = Posted \cup {r}
      /\ \A e \in Req : journal'[e].status # "none" => e \in Posted'
  BY <1>2, PostedAfter
<1>7. /\ IsFiniteSet(Posted') /\ OnAccount \in Int
      /\ OnAccount' = OnAccount + lines'[r][Control]
  <2>1. \A q \in Posted : lines'[q] = lines[q]
    BY <1>2, <1>6 DEF Posted
  <2> QED BY <1>6, <2>1, OneMoreEntry DEF Reconciled
<1>8. PostedDocs' = PostedDocs /\ Outstanding' = Outstanding - AllocTotal(al)
  <2>1. IsFiniteSet(PostedDocs) /\ 1 \in {1, -1}
    BY DEF Reconciled
  <2> QED BY <1>1, <1>3, <1>4, <2>1, MovedDocs
<1>9. OnAccount' = Signed(Outstanding')
  <2>1. Outstanding \in Int
    BY OutstandingType DEF Reconciled
  <2>2. Signed(Outstanding - AllocTotal(al)) = Signed(Outstanding) - Signed(AllocTotal(al))
        /\ Signed(AllocTotal(al)) \in Int
    BY <1>4, <2>1, SignedPlus
  <2> QED BY <1>5, <1>7, <1>8, <2>2 DEF Reconciled
<1>10. \A d \in PostedDocs' : DocCarried(d)'
  BY <1>1, <1>2, <1>8, OldCarried DEF PostedDocs
<1>11. \A p \in PostedPays' : PayCarried(p)'
  <2>1. PayCarried(x)'
    BY <1>1, <1>5 DEF PayCarried
  <2>2. ASSUME NEW p \in PostedPays', p # x PROVE PayCarried(p)'
    BY <1>1, <1>2, <2>2, OldCarried DEF PostedPays
  <2> QED BY <2>1, <2>2
<1> QED BY <1>6, <1>7, <1>8, <1>9, <1>10, <1>11, ToComeStep DEF CarriedInv, Reconciled

\* A document is voided: nothing is paid on it, and its entry is reversed.
LEMMA DocVoidedCarried ==
  ASSUME OffControl, NoDirectReversal, DInv, PaidInv, CarriedInv, Reconciled, [DNext]_allVars, DInv',
         NEW r \in Req, WriteDocVoid(r), ~RolledBack(r)
  PROVE  CarriedInv' /\ Reconciled'
<1>1. PICK x \in Req :
        /\ pc[r] = "write" /\ op[r] = "voidDoc" /\ x = src[r]
        /\ doc[x].status = "POSTED" /\ doc[x].paid = 0 /\ doc[x].entry = tgt[r]
        /\ \A d \in Req \ {x} : doc'[d] = doc[d]
        /\ doc'[x].status = "VOID" /\ pay' = pay
  BY DocVoided DEF Is
<1>2. /\ journal[r].status = "none" /\ journal'[r].status = "POSTED"
      /\ journal'[r].deletedAt = Null
      /\ lines'[r] = Swapped(lines[tgt[r]]) /\ tgt[r] \in Req \ {r}
      /\ \A e \in Req \ {r} : lines'[e] = lines[e]
      /\ \A e \in Req \ {r} : \/ journal'[e] = journal[e]
                              \/ /\ journal[e].status # "none" /\ journal'[e].status = "REVERSED"
                                 /\ journal'[e].deletedAt = journal[e].deletedAt
  <2>1. CreateReversal(r)
    BY DEF WriteDocVoid
  <2> QED BY <1>1, <2>1, ReversalEntry
<1>3. lines'[r][Control] = -Signed(doc[x].calc.total) /\ doc[x].calc.total \in Nat
  <2>1. lines[tgt[r]][Control] = Signed(doc[x].calc.total)
    BY <1>1, <1>2, OldCarried
  <2>2. Swapped(lines[tgt[r]])[Control] = -lines[tgt[r]][Control]
    BY DocumentsAssumption DEF Swapped
  <2> QED BY <1>2, <2>1, <2>2, OpenTypes
<1>4. /\ r \notin Posted /\ Posted' = Posted \cup {r}
      /\ \A e \in Req : journal'[e].status # "none" => e \in Posted'
  BY <1>2, PostedAfter
<1>5. /\ IsFiniteSet(Posted') /\ OnAccount \in Int
      /\ OnAccount' = OnAccount + lines'[r][Control]
  <2>1. \A q \in Posted : lines'[q] = lines[q]
    BY <1>2, <1>4 DEF Posted
  <2> QED BY <1>4, <2>1, OneMoreEntry DEF Reconciled
<1>6. x \in PostedDocs /\ PostedDocs' = PostedDocs \ {x}
  BY <1>1 DEF PostedDocs
<1>7. Open(x) = doc[x].calc.total
  BY <1>1, <1>3 DEF Open
<1>8. IsFiniteSet(PostedDocs') /\ Outstanding' = Outstanding - doc[x].calc.total
  <2>1. \A d \in PostedDocs' : Open(d)' = Open(d)
    BY <1>1, <1>6 DEF Open, PostedDocs
  <2> QED BY <1>6, <1>7, <2>1, OneLessDoc DEF Reconciled
<1>9. OnAccount' = Signed(Outstanding')
  <2>1. Outstanding \in Int
    BY OutstandingType DEF Reconciled
  <2> DEFINE n == doc[x].calc.total
  <2>2. n \in Int
    BY <1>3
  <2>3. OnAccount' = OnAccount - Signed(n) /\ Outstanding' = Outstanding - n
    <3>1. Signed(n) \in Int
      BY <2>2 DEF Signed
    <3> QED BY <1>3, <1>5, <1>8, <3>1
  <2> HIDE DEF n
  <2>4. Signed(Outstanding - n) = Signed(Outstanding) - Signed(n)
    BY <2>1, <2>2, SignedPlus
  <2> QED BY <2>3, <2>4 DEF Reconciled
<1>10. \A d \in PostedDocs' : DocCarried(d)'
  BY <1>1, <1>2, <1>6, OldCarried DEF PostedDocs
<1>11. \A p \in PostedPays' : PayCarried(p)'
  BY <1>1, <1>2, OldCarried DEF PostedPays
<1> QED BY <1>4, <1>5, <1>8, <1>9, <1>10, <1>11, ToComeStep DEF CarriedInv, Reconciled

\* A payment is voided: what it allocated is open again, and its entry is reversed.
LEMMA PayVoidedCarried ==
  ASSUME OffControl, NoDirectReversal, DInv, PaidInv, CarriedInv, Reconciled, [DNext]_allVars, DInv',
         NEW r \in Req, WritePayVoid(r), ~RolledBack(r)
  PROVE  CarriedInv' /\ Reconciled'
<1>1. PICK x \in Req, al \in {Alloc(r)} :
        /\ pc[r] = "write" /\ op[r] = "voidPay" /\ x = src[r] /\ al = pay[x].alloc
        /\ pay[x].status = "POSTED" /\ pay[x].entry = tgt[r]
        /\ \A d \in Req \ {x} : pay'[d] = pay[d]
        /\ pay'[x].status = "VOID"
        /\ \A d \in Req :
             /\ doc'[d].paid = doc[d].paid - AllocatedTo(al, d)
             /\ doc'[d].status = doc[d].status /\ doc'[d].calc = doc[d].calc
             /\ doc'[d].entry = doc[d].entry
  BY PayVoided DEF Is, Alloc
<1>2. /\ journal[r].status = "none" /\ journal'[r].status = "POSTED"
      /\ journal'[r].deletedAt = Null
      /\ lines'[r] = Swapped(lines[tgt[r]]) /\ tgt[r] \in Req \ {r}
      /\ \A e \in Req \ {r} : lines'[e] = lines[e]
      /\ \A e \in Req \ {r} : \/ journal'[e] = journal[e]
                              \/ /\ journal[e].status # "none" /\ journal'[e].status = "REVERSED"
                                 /\ journal'[e].deletedAt = journal[e].deletedAt
  <2>1. CreateReversal(r)
    BY DEF WritePayVoid
  <2> QED BY <1>1, <2>1, ReversalEntry
<1>3. x \in PostedPays /\ al \in Allocs /\ \A i \in DOMAIN al : al[i].doc \in PostedDocs
  BY <1>1, PostedAlloc DEF PostedPays, PaidInv, SettledDocumentsStand
<1>4. AllocTotal(al) \in Nat
  BY <1>3, AllocTypes
<1>5. lines'[r][Control] = Signed(AllocTotal(al))
  <2>1. lines[tgt[r]][Control] = -Signed(AllocTotal(al))
    BY <1>1, <1>2, OldCarried
  <2>2. Swapped(lines[tgt[r]])[Control] = -lines[tgt[r]][Control]
    BY DocumentsAssumption DEF Swapped
  <2>3. Signed(AllocTotal(al)) \in Int
    BY <1>4 DEF Signed
  <2> QED BY <1>2, <2>1, <2>2, <2>3
<1>6. /\ r \notin Posted /\ Posted' = Posted \cup {r}
      /\ \A e \in Req : journal'[e].status # "none" => e \in Posted'
  BY <1>2, PostedAfter
<1>7. /\ IsFiniteSet(Posted') /\ OnAccount \in Int
      /\ OnAccount' = OnAccount + lines'[r][Control]
  <2>1. \A q \in Posted : lines'[q] = lines[q]
    BY <1>2, <1>6 DEF Posted
  <2> QED BY <1>6, <2>1, OneMoreEntry DEF Reconciled
<1>8. PostedDocs' = PostedDocs /\ Outstanding' = Outstanding + AllocTotal(al)
  <2>1. IsFiniteSet(PostedDocs) /\ -1 \in {1, -1} /\ -1 # 1
    BY DEF Reconciled
  <2>2. \A d \in Req : doc'[d].paid =
           IF -1 = 1 THEN doc[d].paid + AllocatedTo(al, d) ELSE doc[d].paid - AllocatedTo(al, d)
    BY <1>1, <2>1
  <2>3. \A d \in Req : doc'[d].status = doc[d].status /\ doc'[d].calc = doc[d].calc
    BY <1>1
  <2>4. /\ PostedDocs' = PostedDocs
        /\ Outstanding' =
             IF -1 = 1 THEN Outstanding - AllocTotal(al) ELSE Outstanding + AllocTotal(al)
    BY <1>3, <2>1, <2>2, <2>3, MovedDocs
  <2> QED BY <2>1, <2>4
<1>9. OnAccount' = Signed(Outstanding')
  <2>1. Outstanding \in Int
    BY OutstandingType DEF Reconciled
  <2>2. Signed(Outstanding + AllocTotal(al)) = Signed(Outstanding) + Signed(AllocTotal(al))
    BY <1>4, <2>1, SignedPlus
  <2> QED BY <1>5, <1>7, <1>8, <2>2 DEF Reconciled
<1>10. \A d \in PostedDocs' : DocCarried(d)'
  BY <1>1, <1>2, <1>8, OldCarried DEF PostedDocs
<1>11. \A p \in PostedPays' : PayCarried(p)'
  <2> SUFFICES ASSUME NEW p \in PostedPays' PROVE PayCarried(p)'
    OBVIOUS
  <2>1. p \in Req /\ p # x /\ pay'[p] = pay[p] /\ pay[p].status = "POSTED"
    BY <1>1 DEF PostedPays
  <2> QED BY <1>2, <2>1, OldCarried
<1> QED BY <1>6, <1>7, <1>8, <1>9, <1>10, <1>11, ToComeStep DEF CarriedInv, Reconciled

LEMMA ReconciledStep ==
  ASSUME OffControl, NoDirectReversal, DInv, PaidInv, CarriedInv, Reconciled, [DNext]_allVars, DInv',
         Immutable
  PROVE  CarriedInv' /\ Reconciled'
<1>1. \A r \in Req : ~WriteReversal(r)
  BY DEF WriteReversal, CarriedInv
<1> QED BY <1>1, StepCases, EditsCarried, DocPostedCarried, PayPostedCarried, DocVoidedCarried,
           PayVoidedCarried

LEMMA InitReconciled == ASSUME DInit PROVE CarriedInv /\ Reconciled
<1> DEFINE H == {e \in Req : InHistory(e)}
<1>1. ASSUME NEW e \in Req
      PROVE  /\ journal[e] = IF InHistory(e) THEN HistoryEntry(e) ELSE NoRow
             /\ doc[e] = IF InHistory(e) THEN HistoryDoc(e) ELSE NoDoc
             /\ lines[e] = IF InHistory(e) THEN DocLines(HistoryAmount) ELSE NoLines
             /\ pay[e].status # "POSTED"
  <2>1. pay[e] = IF e \in DOMAIN Drafted THEN DraftedPay(e) ELSE NoPay
    BY InitTables
  <2>2. pay[e].status # "POSTED"
    BY <2>1 DEF DraftedPay, NoPay
  <2>3. journal[e] = IF InHistory(e) THEN HistoryEntry(e) ELSE NoRow
    BY InitTables
  <2>4. doc[e] = IF InHistory(e) THEN HistoryDoc(e) ELSE NoDoc
    BY InitTables
  <2>5. lines[e] = IF InHistory(e) THEN DocLines(HistoryAmount) ELSE NoLines
    BY InitTables
  <2> QED BY <2>2, <2>3, <2>4, <2>5
<1>2. /\ HistoryAmount \in Nat /\ Control \in Accounts /\ Control # Offset
      /\ DocLines(HistoryAmount)[Control] = Signed(HistoryAmount)
  <2>1. HistoryAmount \in Nat /\ Control \in Accounts /\ Offset \in Accounts /\ Control # Offset
    BY DocumentsAssumption, ThreeAccounts
  <2> QED BY <2>1 DEF DocLines, NoLines
<1>3. ASSUME NEW e \in Req, InHistory(e)
      PROVE  /\ e \in Posted /\ e \in PostedDocs /\ lines[e][Control] = Signed(HistoryAmount)
             /\ doc[e].entry = e /\ doc[e].calc.total = HistoryAmount /\ Open(e) = HistoryAmount
  <2>1. /\ HistoryEntry(e).status = "POSTED" /\ HistoryEntry(e).deletedAt = Null
        /\ HistoryDoc(e).status = "POSTED" /\ HistoryDoc(e).entry = e /\ HistoryDoc(e).paid = 0
        /\ HistoryDoc(e).calc.total = HistoryAmount
    BY DEF HistoryEntry, HistoryDoc, NoRow, NoCalc
  <2> QED BY <1>1, <1>2, <1>3, <2>1 DEF Posted, PostedDocs, Open
<1>4. ASSUME NEW e \in Req, ~InHistory(e) PROVE journal[e].status = "none" /\ doc[e].status = "none"
  BY <1>1, <1>4 DEF NoRow, NoDoc
<1>5. Posted = H /\ PostedDocs = H
  BY <1>3, <1>4 DEF Posted, PostedDocs
<1>6. IsFiniteSet(H)
  <2>1. IsFiniteSet(1 .. Len(History))
    BY HistoryTypes, FS_Interval
  <2>2. IsFiniteSet({History[i] : i \in 1 .. Len(History)})
    <3> DEFINE S == 1 .. Len(History)
               T == {History[i] : i \in S}
               f == [i \in S |-> History[i]]
    <3>1. f \in [S -> T] /\ \A e \in T : \E i \in S : f[i] = e
      OBVIOUS
    <3>2. IsFiniteSet(S)
      BY <2>1
    <3>3. f \in Surjection(S, T)
      <4> HIDE DEF S, T, f
      <4> QED BY <3>1 DEF Surjection
    <3> HIDE DEF f, T, S
    <3>4. IsFiniteSet(T)
      BY <3>2, <3>3, FS_Surjection
    <3> QED BY <3>4 DEF T, S
  <2>3. H \subseteq {History[i] : i \in 1 .. Len(History)}
    BY HistoryTypes
  <2> QED BY <2>2, <2>3, FS_Subset
<1>7. OnAccount = Signed(Outstanding)
  <2> DEFINE v == [d \in PostedDocs |-> Open(d)]
             w == [e \in Posted |-> lines[e][Control]]
  <2>1. \A e \in H : v[e] = HistoryAmount /\ w[e] = Signed(v[e])
    BY <1>3, <1>5
  <2>2. OnAccount = SumOver(w, H) /\ Outstanding = SumOver(v, H)
    BY <1>5 DEF OnAccount, Outstanding
  <2> HIDE DEF v, w, H
  <2>3. SumOver(w, H) = Signed(SumOver(v, H))
    BY <1>2, <1>6, <2>1, SignedSum
  <2> QED BY <2>2, <2>3
<1>8. CarriedInv
  <2>1. TaxKept /\ (\A r \in Req : OnControl(r)) /\ \A r \in Req : op[r] # "reverse"
    BY InitTables, InitContext DEF TaxKept, OnControl, Prepared
  <2>2. \A d \in PostedDocs : DocCarried(d)
    BY <1>3, <1>5 DEF DocCarried, H
  <2>3. \A p \in PostedPays : PayCarried(p)
    BY <1>1 DEF PostedPays
  <2>4. \A e \in Req : journal[e].status # "none" => e \in Posted
    BY <1>3, <1>4
  <2> QED BY <2>1, <2>2, <2>3, <2>4 DEF CarriedInv
<1> QED BY <1>5, <1>6, <1>7, <1>8 DEF Reconciled

\* What the aging report adds up is what the subledger shows.
LEMMA ReconciledBooks ==
  ASSUME DInv, PaidInv, NeverOverpaid, Reconciled
  PROVE  ControlReconciles
<1>1. \A d \in Req : Is(doc[d], "POSTED") <=> d \in PostedDocs
  BY DEF DInv, RowOK, Is, PostedDocs
<1>2. {p \in Req : Is(pay[p], "POSTED")} = PostedPays
  BY DEF DInv, RowOK, Is, PostedPays
<1>3. ASSUME NEW d \in Req PROVE PaidAsOf(d) = doc[d].paid
  <2> DEFINE v == [p \in Req |-> AllocatedTo(pay[p].alloc, d)]
             w == [p \in PostedPays |-> AllocatedTo(pay[p].alloc, d)]
  <2>1. \A p \in PostedPays : v[p] = w[p]
    BY DEF PostedPays
  <2>2. PaidAsOf(d) = SumOver(v, PostedPays)
    BY <1>2 DEF PaidAsOf
  <2>3. doc[d].paid = SumOver(w, PostedPays)
    BY DEF PaidInv, PaidIsAllocated
  <2> HIDE DEF v, w
  <2>4. SumOver(v, PostedPays) = SumOver(w, PostedPays)
    BY <2>1, SumSame DEF PaidInv
  <2> QED BY <2>2, <2>3, <2>4
<1>4. OpenItems = {d \in PostedDocs : Open(d) # 0} /\ \A d \in Req : Open(d) \in Int
  <2>1. ASSUME NEW d \in Req
        PROVE  doc[d].calc.total > PaidAsOf(d) <=> Open(d) # 0
    <3>1. doc[d].calc.total \in Nat /\ doc[d].paid \in 0 .. doc[d].calc.total
      BY OpenTypes DEF NeverOverpaid
    <3> QED BY <1>3, <3>1 DEF Open
  <2>2. PostedDocs \subseteq Req /\ \A d \in Req : Open(d) \in Int
    BY OpenTypes
  <2> QED BY <1>1, <2>1, <2>2 DEF OpenItems
<1>5. TotalOutstanding = Outstanding
  <2> DEFINE v == [d \in PostedDocs |-> Open(d)]
             w == [d \in OpenItems |-> doc[d].calc.total - PaidAsOf(d)]
  <2>1. /\ \A d \in PostedDocs : v[d] \in Int
        /\ OpenItems \in SUBSET PostedDocs
        /\ \A d \in PostedDocs \ OpenItems : v[d] = 0
    BY <1>4 DEF PostedDocs
  <2>2. \A d \in OpenItems : w[d] = v[d]
    BY <1>3, <1>4 DEF Open, PostedDocs
  <2>3. Outstanding = SumOver(v, PostedDocs) /\ TotalOutstanding = SumOver(w, OpenItems)
    BY DEF Outstanding, TotalOutstanding
  <2> HIDE DEF v, w
  <2>4. SumOver(v, PostedDocs) = SumOver(v, OpenItems)
    BY <2>1, SumSupport DEF Reconciled
  <2>5. IsFiniteSet(OpenItems)
    BY <2>1, FS_Subset DEF Reconciled
  <2>6. SumOver(w, OpenItems) = SumOver(v, OpenItems)
    BY <2>2, <2>5, SumSame
  <2> QED BY <2>3, <2>4, <2>6
<1>6. /\ SumOver([e \in Posted |-> lines[e][Control]], Posted) = OnAccount
      /\ SumOver([d \in PostedDocs |-> doc[d].calc.total - doc[d].paid], PostedDocs) = Outstanding
  BY DEF OnAccount, Outstanding, Open
<1> QED BY <1>5, <1>6 DEF ControlReconciles, Reconciled

LEMMA ReconciledAlways ==
  ASSUME OffControl, NoDirectReversal
  PROVE  DSpec /\ PostedDocumentsImmutable => [](CarriedInv /\ Reconciled)
<1>1. DInit => CarriedInv /\ Reconciled
  BY InitReconciled
<1>2. ASSUME DInv, PaidInv, CarriedInv, Reconciled, [DNext]_allVars, DInv', [Immutable]_allVars
      PROVE  CarriedInv' /\ Reconciled'
  <2>1. CASE Immutable
    BY <1>2, <2>1, ReconciledStep
  <2>2. CASE UNCHANGED allVars
    <3>1. Immutable
      BY <2>2 DEF Immutable, allVars, docVars, docDb
    <3> QED BY <1>2, <3>1, ReconciledStep
  <2> QED BY <1>2, <2>1, <2>2
<1>3. PostedDocumentsImmutable => [][Immutable]_allVars
  BY DEF PostedDocumentsImmutable, Immutable
<1> QED BY <1>1, <1>2, <1>3, DocumentsInductive, SettleInductive, PTL DEF DSpec

\* ControlReconciles: the balance of the control account is what posted documents have
\* outstanding, by the amounts paid and by the aging report.  Three things could break
\* it, and no code of this repository prevents them: document lines or taxes on the
\* control account itself, a reversal of a document's entry by hand, and an update of
\* a draft that lands when the document is already posted.
THEOREM SubledgerReconciles ==
  ASSUME OffControl, NoDirectReversal
  PROVE  DSpec /\ PostedDocumentsImmutable => []ControlReconciles
<1>1. DInv /\ PaidInv /\ NeverOverpaid /\ Reconciled => ControlReconciles
  BY ReconciledBooks
<1> QED BY <1>1, DocumentsInductive, SettleInductive, NoOverpayment, ReconciledAlways, PTL

-----------------------------------------------------------------------------
(* Only a late update rewrites a posted document. *)

\* An update that read document d as a draft is still to write it.
UpdatePending(d) == \E r \in Req : pc[r] = "update" /\ src[r] = d

\* A document that was posted, voided since or not, and that no update is to write.
Final(d) == doc[d].status \in {"POSTED", "VOID"} /\ ~UpdatePending(d)

\* A request is to update what it has read as a draft.
LEMMA UpdateBegins ==
  ASSUME DInv, [DNext]_allVars, NEW r \in Req, pc'[r] = "update"
  PROVE  \/ pc[r] = "update" /\ src'[r] = src[r]
         \/ Is(doc[src'[r]], "DRAFT")
<1>0. pc \in [Req -> DLabels] /\ src \in [Req -> Req \cup {Null}]
  BY DEF DInv, DTypes
<1>1. CASE UNCHANGED allVars
  BY <1>1 DEF allVars, vars, docVars, docCtx
<1>2. ASSUME NEW q \in Req, NEW l, pc' = [pc EXCEPT ![q] = l], l # "update", UNCHANGED src
      PROVE  pc[r] = "update" /\ src'[r] = src[r]
  BY <1>0, <1>2
<1>3. ASSUME NEW q \in Req, Rejected(q) \/ RolledBack(q)
      PROVE  pc[r] = "update" /\ src'[r] = src[r]
  BY <1>2, <1>3 DEF Rejected, RolledBack, Reject, Rollback, Goto, docVars, docCtx
<1>4. ASSUME NEW q \in Req, Finished(q)
      PROVE  pc[r] = "update" /\ src'[r] = src[r]
  BY <1>2, <1>4 DEF Finished, Goto, docCtx
<1>5. ASSUME NEW q \in Req, NEW o, NEW d, NEW e, NEW p, NEW v, NEW a, NEW l,
             Begins(q, o, d, e, p, v, a, l), l = "update" => Is(doc[d], "DRAFT")
      PROVE  \/ pc[r] = "update" /\ src'[r] = src[r]
             \/ Is(doc[src'[r]], "DRAFT")
  <2>1. pc' = [pc EXCEPT ![q] = l] /\ src' = [src EXCEPT ![q] = d]
    BY <1>5 DEF Begins, Goto
  <2> QED BY <1>0, <1>5, <2>1
<1>6. ASSUME NEW q \in Req, DBegin(q)
      PROVE  \/ pc[r] = "update" /\ src'[r] = src[r]
             \/ Is(doc[src'[r]], "DRAFT")
  <2>1. CASE CreateDoc(q) \/ CreatePay(q) \/ DeleteDoc(q) \/ DeletePay(q)
    <3>1. Finished(q) \/ Rejected(q)
      BY <2>1, Zenon DEF CreateDoc, CreatePay, DeleteDoc, DeletePay
    <3> QED BY <1>3, <1>4, <3>1
  <2>2. CASE ChangeTaxCode(q) \/ ChangePartner(q)
    <3>1. (pc' = [pc EXCEPT ![q] = "done"] /\ UNCHANGED src) \/ Rejected(q)
      BY <2>2 DEF ChangeTaxCode, ChangePartner, Goto, docCtx
    <3> QED BY <1>2, <1>3, <3>1
  <2>3. CASE BeginUpdateDoc(q)
    BY <1>3, <1>5, <2>3 DEF BeginUpdateDoc
  <2>4. CASE BeginPostDoc(q) \/ BeginVoidDoc(q)
    BY <1>3, <1>5, <2>4 DEF BeginPostDoc, BeginVoidDoc
  <2>5. CASE BeginPostPay(q) \/ BeginVoidPay(q)
    BY <1>3, <1>5, <2>5 DEF BeginPostPay, BeginVoidPay
  <2>6. CASE (BeginReverse(q) \/ BeginClosePeriod(q)) /\ UNCHANGED docVars
    <3>1. \E l : pc' = [pc EXCEPT ![q] = l] /\ l # "update"
      BY <2>6 DEF BeginReverse, BeginClosePeriod, Reject, Goto
    <3> QED BY <1>2, <2>6, <3>1 DEF docVars, docCtx
  <2> QED BY <1>6, <2>1, <2>2, <2>3, <2>4, <2>5, <2>6 DEF DBegin
<1>7. ASSUME NEW q \in Req, LedgerStep(q)
      PROVE  pc[r] = "update" /\ src'[r] = src[r]
  <2>1. \E l : pc' = [pc EXCEPT ![q] = l] /\ l # "update"
    BY <1>7 DEF LedgerStep, FindOpenPeriod, FindClosedYear, AssertPostableAccounts, LockYearShared,
                RecheckYear, LockPeriodShared, NextNumber, WriteReversal, SetPeriodClosed, Reject,
                Rollback, Goto, Commit, AfterYear, FirstLock
  <2> QED BY <1>2, <1>7, <2>1 DEF LedgerStep, docVars, docCtx
<1>8. ASSUME NEW q \in Req, DocStep(q)
      PROVE  pc[r] = "update" /\ src'[r] = src[r]
  <2>1. UNCHANGED src
    BY <1>8 DEF DocStep, UpdateRow, LoadEntry, Calculate, LockDoc, LockPay, Settle, Unwind, DrawDoc,
                NextAlloc, Finished, WriteDocPosted, WritePayPosted, WriteDocVoid, WritePayVoid,
                Rejected, RolledBack, Reject, Rollback, docVars, docCtx
  <2>2. \E l : pc' = [pc EXCEPT ![q] = l] /\ l # "update"
    BY <1>8 DEF DocStep, UpdateRow, LoadEntry, Calculate, LockDoc, LockPay, Settle, Unwind, DrawDoc,
                NextAlloc, Finished, WriteDocPosted, WritePayPosted, WriteDocVoid, WritePayVoid,
                Rejected, RolledBack, Reject, Rollback, Goto, Commit
  <2> QED BY <1>2, <2>1, <2>2
<1> QED BY <1>1, <1>3, <1>6, <1>7, <1>8 DEF DNext, DIdle, DAbort

\* What was posted of document d stays.
ContentStays(d) ==
  /\ doc'[d].status \in {"POSTED", "VOID"} /\ doc'[d].calc = doc[d].calc
  /\ doc'[d].number = doc[d].number /\ doc'[d].date = doc[d].date /\ doc'[d].entry = doc[d].entry

LEMMA FinalStep ==
  ASSUME DInv, [DNext]_allVars, NEW d \in Req, Final(d)
  PROVE  Final(d)' /\ ContentStays(d)
<1>0. doc[d].status \in {"POSTED", "VOID"} /\ doc[d].entry # Null
  BY DEF Final, DInv, RowOK
<1>1. ~UpdatePending(d)'
  <2> SUFFICES ASSUME NEW r \in Req, pc'[r] = "update", src'[r] = d PROVE FALSE
    BY DEF UpdatePending
  <2> QED BY <1>0, UpdateBegins DEF Final, UpdatePending, Is
<1>2. ContentStays(d)
  <2>1. CASE Edits
    <3>1. ~ \E r \in Req : UpdateRow(r) /\ src[r] = d
      <4>1. \A r \in Req : UpdateRow(r) => pc[r] = "update"
        BY DEF UpdateRow
      <4> QED BY <4>1 DEF Final, UpdatePending
    <3> QED BY <1>0, <2>1, <3>1 DEF Edits, DocEdited, ContentStays
  <2>2. ASSUME NEW r \in Req, WriteDocPosted(r) PROVE ContentStays(d)
    <3>1. doc[src[r]].status = "DRAFT" /\ \A c \in Req \ {src[r]} : doc'[c] = doc[c]
      BY <2>2, DocPosted DEF Is
    <3> QED BY <1>0, <3>1 DEF ContentStays
  <2>3. ASSUME NEW r \in Req, WritePayPosted(r) PROVE ContentStays(d)
    BY <1>0, <2>3, PayPosted DEF ContentStays
  <2>4. ASSUME NEW r \in Req, WriteDocVoid(r), ~RolledBack(r) PROVE ContentStays(d)
    <3>1. /\ doc'[src[r]].calc = doc[src[r]].calc /\ doc'[src[r]].number = doc[src[r]].number
          /\ doc'[src[r]].date = doc[src[r]].date /\ doc'[src[r]].entry = doc[src[r]].entry
          /\ doc'[src[r]].status = "VOID" /\ \A c \in Req \ {src[r]} : doc'[c] = doc[c]
      BY <2>4, DocVoided
    <3> QED BY <1>0, <3>1 DEF ContentStays
  <2>5. ASSUME NEW r \in Req, WritePayVoid(r), ~RolledBack(r) PROVE ContentStays(d)
    BY <1>0, <2>5, PayVoided DEF ContentStays
  <2>6. ASSUME UNCHANGED docVars PROVE ContentStays(d)
    BY <1>0, <2>6 DEF docVars, docDb, ContentStays
  <2> QED BY <2>1, <2>2, <2>3, <2>4, <2>5, <2>6, StepCases
<1> QED BY <1>1, <1>2 DEF Final, ContentStays

\* PostedDocumentsImmutable fails for one reason only (run docs_update): an update that
\* had read the document as a draft.  Once none of these is on its way any more, a
\* posted document is final: no operation, in any interleaving, can begin to update
\* it, and none changes its lines, totals, number, date or entry, its void included.
THEOREM FinalOnceUpdatesEnd ==
  DSpec => [][\A d \in Req : Final(d) => Final(d)' /\ ContentStays(d)]_allVars
<1>1. DInv /\ [DNext]_allVars => [\A d \in Req : Final(d) => Final(d)' /\ ContentStays(d)]_allVars
  BY FinalStep
<1> QED BY <1>1, DocumentsInductive, PTL DEF DSpec

-----------------------------------------------------------------------------
(* The order of the locks. *)

\* Allocation lists name documents in one order, whoever submits them.
OneOrder(rank) ==
  /\ rank \in [Req -> Int]
  /\ \A d, e \in Req : rank[d] = rank[e] => d = e
  /\ \A al \in AllocLists \cup {Drafted[d] : d \in DOMAIN Drafted} :
       \A i, j \in DOMAIN al : i <= j => rank[al[i].doc] <= rank[al[j].doc]

\* Every payment has a list that was submitted or drafted.
Submitted ==
  \A p \in Req :
    pay[p].alloc \in AllocLists \cup {Drafted[d] : d \in DOMAIN Drafted} \cup {<<>>}

\* The kinds of objects that a request has locked, by the step it is at: payment,
\* documents, document counter, fiscal year, period, journal counter.
DBehind(l) ==
  CASE l \in {"settle", "unwind", "drawDoc"} -> {"pay", "doc"}
    [] l = "lockYear" -> {"pay", "doc", "docSeq"}
    [] l \in {"recheckYear", "lockPeriod"} -> {"pay", "doc", "docSeq", "year"}
    [] l = "draw" -> {"pay", "doc", "docSeq", "year", "period"}
    [] l \in {"write", "setClosed"} -> {"pay", "doc", "docSeq", "year", "period", "seq"}
    [] OTHER -> {}

\* A payment has locked the documents of the allocations before its current one.
DHeldInOrder(r) ==
  /\ pc[r] \notin {"done", "failed"} => \A k \in held[r] : k[1] \in DBehind(pc[r])
  /\ pc[r] \in {"settle", "unwind"} =>
       \A k \in held[r] :
         k[1] = "doc" => \E i \in DOMAIN Alloc(r) : i < pos[r] /\ k[2] = Alloc(r)[i].doc

\* The place in the order of the lock that a request waits for.
DWantedRank(r) ==
  CASE pc[r] = "lockPay" -> 1
    [] pc[r] \in {"lockDoc", "update", "settle", "unwind"} -> 2
    [] pc[r] = "drawDoc" -> 3
    [] pc[r] = "lockYear" -> 4
    [] pc[r] = "lockPeriod" -> 5
    [] pc[r] = "draw" -> 6
    [] OTHER -> 0

\* The document, if it is one.
WantedDoc(r) == IF pc[r] \in {"settle", "unwind"} THEN Alloc(r)[pos[r]].doc ELSE src[r]

\* What a step of q does to its locks: it ends, or goes on with them, or acquires one
\* more.
Ends(q) == pc'[q] \in {"done", "failed"}
KeepsLocks(q) ==
  /\ pc'[q] \notin {"done", "failed", "settle", "unwind"}
  /\ pc[q] \notin {"done", "failed"}
  /\ DBehind(pc[q]) \subseteq DBehind(pc'[q])
  /\ held'[q] = held[q]
AddsLock(q) ==
  /\ pc'[q] \notin {"done", "failed", "settle", "unwind"}
  /\ pc[q] \notin {"done", "failed"}
  /\ \E l : /\ held'[q] = held[q] \cup {l}
            /\ DBehind(pc[q]) \cup {l[1]} \subseteq DBehind(pc'[q])
EntersLoop(q) ==
  /\ pc[q] = "lockPay" /\ pc'[q] \in {"settle", "unwind"}
  /\ held'[q] = held[q] \cup {Exclusive("pay", src[q])}
StaysInLoop(q) ==
  /\ pc[q] \in {"settle", "unwind"} /\ pc'[q] = pc[q]
  /\ src'[q] = src[q] /\ pos'[q] = pos[q] + 1
  /\ held'[q] = held[q] \cup {Exclusive("doc", Alloc(q)[pos[q]].doc)}
LockStep(q) ==
  /\ \A r \in Req \ {q} : pc'[r] = pc[r] /\ held'[r] = held[r] /\ src'[r] = src[r] /\ pos'[r] = pos[r]
  /\ Ends(q) \/ KeepsLocks(q) \/ AddsLock(q) \/ EntersLoop(q) \/ StaysInLoop(q)

LEMMA EndLocks ==
  ASSUME DInv, NEW q \in Req, Rejected(q) \/ RolledBack(q) \/ Finished(q)
  PROVE  LockStep(q)
<1>1. \E l \in {"done", "failed"} : pc' = [pc EXCEPT ![q] = l]
  BY DEF Rejected, RolledBack, Finished, Reject, Rollback, Goto
<1>2. held' = held \/ held' = [held EXCEPT ![q] = {}]
  BY DEF Rejected, RolledBack, Finished, Reject, Rollback, ReleaseAll
<1>3. UNCHANGED <<src, pos>>
  BY DEF Rejected, RolledBack, Finished, Reject, Rollback, docVars, docCtx
<1> QED BY <1>1, <1>2, <1>3 DEF DInv, DTypes, LockStep, Ends

LEMMA CommitLocks ==
  ASSUME DInv, NEW q \in Req, Commit(q), UNCHANGED <<src, pos>>
  PROVE  LockStep(q)
BY DEF DInv, DTypes, LockStep, Ends, Commit, Goto, ReleaseAll

LEMMA GoLocks ==
  ASSUME DInv, NEW q \in Req, NEW l, pc' = [pc EXCEPT ![q] = l], held' = held, UNCHANGED pos,
         \A r \in Req \ {q} : src'[r] = src[r],
         pc[q] \notin {"done", "failed"}, l \notin {"done", "failed", "settle", "unwind"},
         DBehind(pc[q]) \subseteq DBehind(l)
  PROVE  LockStep(q)
BY DEF DInv, DTypes, LockStep, KeepsLocks

LEMMA AddLocks ==
  ASSUME DInv, NEW q \in Req, NEW l, NEW k, pc' = [pc EXCEPT ![q] = l], Acquire(q, k),
         \A r \in Req \ {q} : src'[r] = src[r] /\ pos'[r] = pos[r],
         pc[q] \notin {"done", "failed"}, l \notin {"done", "failed", "settle", "unwind"},
         DBehind(pc[q]) \cup {k[1]} \subseteq DBehind(l)
  PROVE  LockStep(q)
<1>1. pc'[q] = l /\ held'[q] = held[q] \cup {k}
  BY DEF DInv, DTypes, Acquire
<1>2. \A r \in Req \ {q} : pc'[r] = pc[r] /\ held'[r] = held[r]
  BY DEF DInv, DTypes, Acquire
<1>3. AddsLock(q)
  BY <1>1 DEF AddsLock
<1> QED BY <1>2, <1>3 DEF LockStep

LEMMA BeginLocks ==
  ASSUME DInv, NEW q \in Req, DBegin(q)
  PROVE  LockStep(q)
<1>0. src \in [Req -> Req \cup {Null}]
  BY DEF DInv, DTypes
<1>1. CASE Rejected(q)
  BY <1>1, EndLocks
<1>2. CASE CreateDoc(q) \/ CreatePay(q) \/ DeleteDoc(q) \/ DeletePay(q)
  <2>1. Finished(q) \/ Rejected(q)
    BY <1>2, Zenon DEF CreateDoc, CreatePay, DeleteDoc, DeletePay
  <2> QED BY <2>1, EndLocks
<1>3. CASE ChangeTaxCode(q) \/ ChangePartner(q)
  <2>1. (pc' = [pc EXCEPT ![q] = "done"] /\ UNCHANGED <<held, src, pos>>) \/ Rejected(q)
    BY <1>3 DEF ChangeTaxCode, ChangePartner, Goto, docCtx
  <2> QED BY <1>1, <2>1 DEF DInv, DTypes, LockStep, Ends
<1>4. ASSUME BeginUpdateDoc(q) \/ BeginPostDoc(q) \/ BeginVoidDoc(q) \/ BeginPostPay(q) \/ BeginVoidPay(q),
             ~Rejected(q)
      PROVE  LockStep(q)
  <2>1. \E o, d, e, p, v, a, l :
          pc[q] = "start" /\ Begins(q, o, d, e, p, v, a, l)
            /\ l \in {"update", "calculate", "loadEntry", "findPeriod"}
    <3>1. CASE BeginUpdateDoc(q)
      BY <1>4, <3>1 DEF BeginUpdateDoc, Arrives
    <3>2. CASE BeginPostDoc(q)
      BY <1>4, <3>2 DEF BeginPostDoc, Arrives
    <3>3. CASE BeginVoidDoc(q)
      BY <1>4, <3>3 DEF BeginVoidDoc, Arrives
    <3>4. CASE BeginPostPay(q)
      BY <1>4, <3>4 DEF BeginPostPay, Arrives
    <3>5. CASE BeginVoidPay(q)
      BY <1>4, <3>5 DEF BeginVoidPay, Arrives
    <3> QED BY <1>4, <3>1, <3>2, <3>3, <3>4, <3>5
  <2>2. PICK o, d, e, p, v, a, l :
          pc[q] = "start" /\ Begins(q, o, d, e, p, v, a, l)
            /\ l \in {"update", "calculate", "loadEntry", "findPeriod"}
    BY <2>1
  <2>3. /\ pc' = [pc EXCEPT ![q] = l] /\ UNCHANGED <<held, pos>>
        /\ src' = [src EXCEPT ![q] = d]
    BY <2>2 DEF Begins, Goto
  <2>4. DBehind(pc[q]) \subseteq DBehind(l)
    BY <2>2 DEF DBehind
  <2> QED BY <1>0, <2>2, <2>3, <2>4, GoLocks
<1>5. ASSUME BeginReverse(q) \/ BeginClosePeriod(q), UNCHANGED docVars, ~Rejected(q)
      PROVE  LockStep(q)
  <2>1. UNCHANGED <<src, pos>>
    BY <1>5 DEF docVars, docCtx
  <2>2. CASE BeginReverse(q)
    <3>1. pc[q] = "start" /\ pc' = [pc EXCEPT ![q] = "findPeriod"] /\ UNCHANGED held
      BY <1>5, <2>2 DEF BeginReverse, Arrives, Rejected, Goto
    <3>2. DBehind(pc[q]) \subseteq DBehind("findPeriod")
      BY <3>1 DEF DBehind
    <3> QED BY <2>1, <3>1, <3>2, GoLocks
  <2>3. CASE BeginClosePeriod(q)
    <3>1. PICK p \in Periods :
            /\ pc[q] = "start" /\ pc' = [pc EXCEPT ![q] = "setClosed"]
            /\ Acquire(q, Exclusive("period", p))
      BY <1>5, <2>3 DEF BeginClosePeriod, Arrives, Rejected, Goto
    <3>2. DBehind(pc[q]) \cup {Exclusive("period", p)[1]} \subseteq DBehind("setClosed")
      BY <3>1 DEF DBehind, Exclusive
    <3> HIDE DEF DBehind
    <3> QED BY <2>1, <3>1, <3>2, AddLocks
  <2> QED BY <1>5, <2>2, <2>3
<1> QED BY <1>1, <1>2, <1>3, <1>4, <1>5 DEF DBegin

LEMMA LedgerLocks ==
  ASSUME DInv, NEW q \in Req, LedgerStep(q)
  PROVE  LockStep(q)
<1>0. UNCHANGED <<src, pos>>
  BY DEF LedgerStep, docVars, docCtx
<1>1. CASE Rejected(q) \/ RolledBack(q)
  BY <1>1, EndLocks
<1>2. ASSUME ~Rejected(q), ~RolledBack(q) PROVE LockStep(q)
  <2>0. ~Reject(q) /\ ~Rollback(q)
    BY <1>2 DEF LedgerStep, Rejected, RolledBack
  <2>1. CASE FindOpenPeriod(q, "findClosed")
    <3>1. pc[q] = "findPeriod" /\ pc' = [pc EXCEPT ![q] = "findClosed"] /\ UNCHANGED held
      BY <2>0, <2>1 DEF FindOpenPeriod, Goto
    <3>2. DBehind(pc[q]) \subseteq DBehind("findClosed")
      BY <3>1 DEF DBehind
    <3> QED BY <1>0, <3>1, <3>2, GoLocks
  <2>2. CASE FindClosedYear(q, AfterYear(op[q])) \/ AssertPostableAccounts(q, buf[q], FirstLock(op[q]))
    <3>1. PICK l : /\ pc[q] \in {"findClosed", "accounts"} /\ pc' = [pc EXCEPT ![q] = l] /\ UNCHANGED held
                   /\ l = AfterYear(op[q]) \/ l = FirstLock(op[q])
      BY <2>0, <2>2 DEF FindClosedYear, AssertPostableAccounts, Goto
    <3>2. l \in {"accounts", "lockDoc", "lockPay", "lockYear"}
      BY <3>1 DEF AfterYear, FirstLock
    <3>3. DBehind(pc[q]) \subseteq DBehind(l)
      BY <3>1 DEF DBehind
    <3> QED BY <1>0, <3>1, <3>2, <3>3, GoLocks
  <2>3. CASE LockYearShared(q)
    <3>1. /\ pc[q] = "lockYear" /\ pc' = [pc EXCEPT ![q] = "recheckYear"]
          /\ Acquire(q, Share("year", Year(q)))
      BY <2>3 DEF LockYearShared, Goto
    <3>2. DBehind(pc[q]) \cup {Share("year", Year(q))[1]} \subseteq DBehind("recheckYear")
      BY <3>1 DEF DBehind, Share
    <3> QED BY <1>0, <3>1, <3>2, AddLocks
  <2>4. CASE RecheckYear(q)
    <3>1. pc[q] = "recheckYear" /\ pc' = [pc EXCEPT ![q] = "lockPeriod"] /\ UNCHANGED held
      BY <2>0, <2>4 DEF RecheckYear, Goto
    <3>2. DBehind(pc[q]) \subseteq DBehind("lockPeriod")
      BY <3>1 DEF DBehind
    <3> QED BY <1>0, <3>1, <3>2, GoLocks
  <2>5. CASE LockPeriodShared(q)
    <3>1. /\ pc[q] = "lockPeriod" /\ pc' = [pc EXCEPT ![q] = "draw"]
          /\ Acquire(q, Share("period", date[q]))
      BY <2>0, <2>5 DEF LockPeriodShared, Goto
    <3>2. DBehind(pc[q]) \cup {Share("period", date[q])[1]} \subseteq DBehind("draw")
      BY <3>1 DEF DBehind, Share
    <3> QED BY <1>0, <3>1, <3>2, AddLocks
  <2>6. CASE NextNumber(q)
    <3>1. /\ pc[q] = "draw" /\ pc' = [pc EXCEPT ![q] = "write"]
          /\ Acquire(q, Exclusive("seq", Year(q)))
      BY <2>6 DEF NextNumber, Goto
    <3>2. DBehind(pc[q]) \cup {Exclusive("seq", Year(q))[1]} \subseteq DBehind("write")
      BY <3>1 DEF DBehind, Exclusive
    <3> QED BY <1>0, <3>1, <3>2, AddLocks
  <2>7. CASE WriteReversal(q) \/ SetPeriodClosed(q)
    BY <1>0, <2>0, <2>7, CommitLocks DEF WriteReversal, SetPeriodClosed
  <2> QED BY <2>1, <2>2, <2>3, <2>4, <2>5, <2>6, <2>7 DEF LedgerStep
<1> QED BY <1>1, <1>2

LEMMA AllocLocks ==
  ASSUME DInv, NEW q \in Req, pc[q] \in {"settle", "unwind"}, NEW l \in {"drawDoc", "lockYear"},
         NextAlloc(q, l)
  PROVE  LockStep(q)
<1> DEFINE k == Exclusive("doc", Alloc(q)[pos[q]].doc)
           m == IF pos[q] = Len(Alloc(q)) THEN l ELSE pc[q]
<1>1. /\ pc' = [pc EXCEPT ![q] = m] /\ pos' = [pos EXCEPT ![q] = @ + 1]
      /\ UNCHANGED src /\ Acquire(q, k)
  BY DEF NextAlloc, Goto
<1>2. CASE m = pc[q]
  <2>1. pc'[q] = pc[q] /\ src'[q] = src[q] /\ pos'[q] = pos[q] + 1 /\ held'[q] = held[q] \cup {k}
    <3> HIDE DEF k
    <3> QED BY <1>1, <1>2 DEF DInv, DTypes, Acquire
  <2>2. StaysInLoop(q)
    BY <2>1 DEF StaysInLoop
  <2>3. \A r \in Req \ {q} : pc'[r] = pc[r] /\ held'[r] = held[r] /\ src'[r] = src[r] /\ pos'[r] = pos[r]
    <3> HIDE DEF k, m
    <3> QED BY <1>1 DEF DInv, DTypes, Acquire
  <2> QED BY <2>2, <2>3 DEF LockStep
<1>3. CASE m = l
  <2>1. DBehind(pc[q]) \cup {k[1]} \subseteq DBehind(l)
    BY DEF DBehind, Exclusive
  <2>2. \A r \in Req \ {q} : src'[r] = src[r] /\ pos'[r] = pos[r]
    BY <1>1 DEF DInv, DTypes
  <2>3. pc' = [pc EXCEPT ![q] = l]
    BY <1>1, <1>3
  <2> HIDE DEF k, m
  <2> QED BY <1>1, <2>1, <2>2, <2>3, AddLocks
<1> QED BY <1>2, <1>3

LEMMA DocLocks ==
  ASSUME DInv, NEW q \in Req, DocStep(q)
  PROVE  LockStep(q)
<1>1. CASE Rejected(q) \/ RolledBack(q)
  BY <1>1, EndLocks
<1>2. ASSUME ~Rejected(q), ~RolledBack(q) PROVE LockStep(q)
  <2>1. CASE UpdateRow(q)
    BY <1>2, <2>1, EndLocks, Zenon DEF UpdateRow
  <2>2. CASE LoadEntry(q) \/ Calculate(q)
    <3>1. /\ pc[q] \in {"loadEntry", "calculate"} /\ pc' = [pc EXCEPT ![q] = "findPeriod"]
          /\ UNCHANGED <<held, src, pos>>
      BY <1>2, <2>2 DEF LoadEntry, Calculate, Goto, docVars, docCtx
    <3>2. DBehind(pc[q]) \subseteq DBehind("findPeriod")
      BY <3>1 DEF DBehind
    <3> QED BY <3>1, <3>2, GoLocks
  <2>3. CASE LockDoc(q)
    <3>1. PICK l \in {"drawDoc", "lockYear"} :
            /\ pc[q] = "lockDoc" /\ pc' = [pc EXCEPT ![q] = l] /\ UNCHANGED <<src, pos>>
            /\ Acquire(q, Exclusive("doc", src[q]))
      BY <1>2, <2>3 DEF LockDoc, Goto, docVars, docCtx
    <3>2. DBehind(pc[q]) \cup {Exclusive("doc", src[q])[1]} \subseteq DBehind(l)
      BY <3>1 DEF DBehind, Exclusive
    <3> QED BY <3>1, <3>2, AddLocks
  <2>4. CASE LockPay(q)
    <3>1. PICK l \in {"settle", "unwind"} :
            /\ pc[q] = "lockPay" /\ pc' = [pc EXCEPT ![q] = l] /\ UNCHANGED <<src, pos>>
            /\ Acquire(q, Exclusive("pay", src[q]))
      BY <1>2, <2>4 DEF LockPay, Goto, docVars, docCtx
    <3>2. held'[q] = held[q] \cup {Exclusive("pay", src[q])} /\ pc'[q] = l
      BY <3>1 DEF DInv, DTypes, Acquire
    <3>3. \A r \in Req \ {q} : pc'[r] = pc[r] /\ held'[r] = held[r]
      BY <3>1 DEF DInv, DTypes, Acquire
    <3> QED BY <3>1, <3>2, <3>3 DEF LockStep, EntersLoop
  <2>5. CASE Settle(q) \/ Unwind(q)
    <3>1. pc[q] \in {"settle", "unwind"} /\ \E l \in {"drawDoc", "lockYear"} : NextAlloc(q, l)
      BY <1>2, <2>5, Zenon DEF Settle, Unwind
    <3> QED BY <3>1, AllocLocks
  <2>6. CASE DrawDoc(q)
    <3> DEFINE k == Exclusive("docSeq", <<TypeOf(q), Year(q)>>)
    <3>1. pc[q] = "drawDoc" /\ pc' = [pc EXCEPT ![q] = "lockYear"] /\ UNCHANGED <<src, pos>> /\ Acquire(q, k)
      BY <2>6 DEF DrawDoc, Goto
    <3>2. DBehind(pc[q]) \cup {k[1]} \subseteq DBehind("lockYear")
      BY <3>1 DEF DBehind, Exclusive
    <3> HIDE DEF k
    <3> QED BY <3>1, <3>2, AddLocks
  <2>7. CASE WriteDocPosted(q) \/ WritePayPosted(q) \/ WriteDocVoid(q) \/ WritePayVoid(q)
    <3>1. Commit(q) /\ UNCHANGED docCtx
      BY <1>2, <2>7, Zenon DEF WriteDocPosted, WritePayPosted, WriteDocVoid, WritePayVoid
    <3> QED BY <3>1, CommitLocks DEF docCtx
  <2> QED BY <2>1, <2>2, <2>3, <2>4, <2>5, <2>6, <2>7 DEF DocStep
<1> QED BY <1>1, <1>2

LEMMA StepLocks ==
  ASSUME DInv, [DNext]_allVars
  PROVE  UNCHANGED <<pc, held, src, pos>> \/ \E q \in Req : LockStep(q)
BY BeginLocks, LedgerLocks, DocLocks, EndLocks DEF DNext, DIdle, DAbort, allVars, vars, ctx, docVars, docCtx

\* The list of a payment stays the one it was created with.
LEMMA ListsStay ==
  ASSUME DInv, [DNext]_allVars, NEW p \in Req
  PROVE  /\ pay[p].status # "none" => pay'[p].alloc = pay[p].alloc
         /\ pay'[p].alloc = pay[p].alloc \/ pay'[p].alloc \in AllocLists
<1>0. pay \in [Req -> PayRow] /\ \A q \in Req : Fresh(q) /\ Own(q)
  BY DEF DInv, DTypes
<1>1. CASE UNCHANGED pay
  BY <1>1
<1>2. ASSUME NEW q \in Req, Rejected(q) \/ RolledBack(q) PROVE UNCHANGED pay
  BY <1>2 DEF Rejected, RolledBack, docVars, docDb
<1>3. ASSUME NEW q \in Req, CreatePay(q)
      PROVE  \/ UNCHANGED pay
             \/ \E al \in AllocLists, d \in Periods :
                  /\ pay[q].status = "none"
                  /\ pay' = [pay EXCEPT ![q] = [NoPay EXCEPT !.status = "DRAFT", !.date = d, !.alloc = al]]
  <2>1. pay[q].status = "none"
    BY <1>0, <1>3 DEF CreatePay, Arrives, Fresh
  <2>2. \/ Rejected(q)
        \/ \E al \in AllocLists, d \in Periods :
             pay' = [pay EXCEPT ![q] = [NoPay EXCEPT !.status = "DRAFT", !.date = d, !.alloc = al]]
    BY <1>3, Zenon DEF CreatePay
  <2> QED BY <1>2, <2>1, <2>2, Zenon
<1>4. ASSUME NEW q \in Req, CreatePay(q), ~UNCHANGED pay
      PROVE  /\ pay[p].status # "none" => pay'[p].alloc = pay[p].alloc
             /\ pay'[p].alloc = pay[p].alloc \/ pay'[p].alloc \in AllocLists
  <2>1. PICK al \in AllocLists, d \in Periods :
          /\ pay[q].status = "none"
          /\ pay' = [pay EXCEPT ![q] = [NoPay EXCEPT !.status = "DRAFT", !.date = d, !.alloc = al]]
    BY <1>3, <1>4, Zenon
  <2> QED BY <1>0, <2>1 DEF NoPay
<1>5. ASSUME NEW q \in Req, DeletePay(q), ~UNCHANGED pay PROVE pay'[p].alloc = pay[p].alloc
  <2>1. PICK d \in Req : pay' = [pay EXCEPT ![d].deletedAt = "set"]
    BY <1>2, <1>5 DEF DeletePay
  <2> QED BY <1>0, <2>1 DEF PayRow
<1>6. ASSUME NEW q \in Req, WritePayPosted(q) \/ WritePayVoid(q), ~UNCHANGED pay
      PROVE  pay'[p].alloc = pay[p].alloc
  <2>1. CASE WritePayPosted(q)
    BY <1>0, <2>1 DEF WritePayPosted, PayRow
  <2>2. CASE WritePayVoid(q)
    BY <1>0, <1>2, <1>6, <2>2 DEF WritePayVoid, PayRow
  <2> QED BY <1>6, <2>1, <2>2
<1>7. ASSUME NEW q \in Req, DBegin(q), ~CreatePay(q), ~DeletePay(q) PROVE UNCHANGED pay
  <2>1. CASE CreateDoc(q) \/ DeleteDoc(q) \/ ChangeTaxCode(q) \/ ChangePartner(q)
    <3>1. UNCHANGED pay \/ Rejected(q)
      BY <2>1, Zenon DEF CreateDoc, DeleteDoc, ChangeTaxCode, ChangePartner
    <3> QED BY <1>2, <3>1
  <2>2. CASE BeginUpdateDoc(q) \/ BeginPostDoc(q) \/ BeginVoidDoc(q) \/ BeginPostPay(q) \/ BeginVoidPay(q)
    BY <1>2, <2>2 DEF BeginUpdateDoc, BeginPostDoc, BeginVoidDoc, BeginPostPay, BeginVoidPay, Begins, docDb
  <2> QED BY <1>7, <2>1, <2>2 DEF DBegin, docVars, docDb
<1>8. ASSUME NEW q \in Req, DocStep(q), ~WritePayPosted(q), ~WritePayVoid(q) PROVE UNCHANGED pay
  BY <1>2, <1>8 DEF DocStep, UpdateRow, LoadEntry, Calculate, LockDoc, LockPay, Settle, Unwind, NextAlloc,
                    DrawDoc, WriteDocPosted, WriteDocVoid, docVars, docDb
<1>9. ASSUME NEW q \in Req, LedgerStep(q) \/ DAbort(q) PROVE UNCHANGED pay
  BY <1>2, <1>9 DEF LedgerStep, DAbort, docVars, docDb
<1>10. CASE UNCHANGED allVars
  BY <1>1, <1>10 DEF allVars, docVars, docDb
<1>11. ASSUME NEW q \in Req, DBegin(q) \/ DocStep(q)
       PROVE  /\ pay[p].status # "none" => pay'[p].alloc = pay[p].alloc
              /\ pay'[p].alloc = pay[p].alloc \/ pay'[p].alloc \in AllocLists
  BY <1>1, <1>4, <1>5, <1>6, <1>7, <1>8, <1>11
<1> QED BY <1>1, <1>9, <1>10, <1>11 DEF DNext, DIdle

\* What a circle is excluded by, beside DInv: every request holds its locks in order,
\* the lists are those that were submitted, and finitely many requests are in flight.
OrderInv ==
  /\ \A r \in Req : DHeldInOrder(r)
  /\ Submitted
  /\ IsFiniteSet({r \in Req : DInFlight(r)})

LEMMA OrderInit == DInit => OrderInv
<1> SUFFICES ASSUME DInit PROVE OrderInv
  OBVIOUS
<1>1. \A r \in Req : held[r] = {} /\ pc[r] \in {"done", "start"}
  BY InitContext
<1>2. \A r \in Req : DHeldInOrder(r)
  BY <1>1 DEF DHeldInOrder
<1>3. Submitted
  <2> SUFFICES ASSUME NEW p \in Req
               PROVE  pay[p].alloc \in AllocLists \cup {Drafted[d] : d \in DOMAIN Drafted} \cup {<<>>}
    BY DEF Submitted
  <2>1. pay[p] = IF p \in DOMAIN Drafted THEN DraftedPay(p) ELSE NoPay
    BY InitTables
  <2> QED BY <2>1 DEF DraftedPay, NoPay
<1>4. {r \in Req : DInFlight(r)} = {}
  BY <1>1 DEF DInFlight
<1> QED BY <1>2, <1>3, <1>4, FS_EmptySet DEF OrderInv

LEMMA OrderKept ==
  ASSUME DInv, NEW q \in Req, LockStep(q), NEW r \in Req, DHeldInOrder(r), [DNext]_allVars
  PROVE  DHeldInOrder(r)'
<1>1. pc[r] \in {"settle", "unwind"} /\ src'[r] = src[r] => Alloc(r)' = Alloc(r)
  <2> SUFFICES ASSUME pc[r] \in {"settle", "unwind"}, src'[r] = src[r] PROVE Alloc(r)' = Alloc(r)
    OBVIOUS
  <2>1. Own(r) /\ DInFlight(r) /\ op[r] \in PayOps
    BY CurrentAlloc DEF DInv, Own, DInFlight, PayOps
  <2>2. src[r] \in Req /\ pay[src[r]].status # "none"
    BY <2>1 DEF Own, Knows
  <2> QED BY <2>2, ListsStay DEF Alloc
<1>2. CASE r # q
  <2>1. pc'[r] = pc[r] /\ held'[r] = held[r] /\ src'[r] = src[r] /\ pos'[r] = pos[r]
    BY <1>2 DEF LockStep
  <2> QED BY <1>1, <2>1 DEF DHeldInOrder
<1>3. CASE r = q /\ (Ends(q) \/ KeepsLocks(q) \/ AddsLock(q))
  BY <1>3 DEF DHeldInOrder, Ends, KeepsLocks, AddsLock
<1>4. CASE r = q /\ EntersLoop(q)
  <2>1. held[q] = {}
    BY <1>4 DEF EntersLoop, DHeldInOrder, DBehind
  <2>2. \A k \in held'[q] : k[1] = "pay"
    BY <1>4, <2>1 DEF EntersLoop, Exclusive
  <2> QED BY <1>4, <2>2 DEF EntersLoop, DHeldInOrder, DBehind
<1>5. CASE r = q /\ StaysInLoop(q)
  <2>1. Alloc(q)' = Alloc(q)
    BY <1>1, <1>5 DEF StaysInLoop
  <2>2. pos[q] \in DOMAIN Alloc(q) /\ pos[q] \in Nat /\ \A i \in DOMAIN Alloc(q) : i \in Nat
    BY <1>5, CurrentAlloc DEF StaysInLoop
  <2>3. ASSUME NEW k \in held'[q]
        PROVE  /\ k[1] \in DBehind(pc'[q])
               /\ k[1] = "doc" => \E i \in DOMAIN Alloc(q) : i < pos'[q] /\ k[2] = Alloc(q)[i].doc
    <3>1. CASE k \in held[q]
      <4>1. /\ k[1] \in DBehind(pc[q])
            /\ k[1] = "doc" => \E i \in DOMAIN Alloc(q) : i < pos[q] /\ k[2] = Alloc(q)[i].doc
        BY <1>5, <3>1 DEF DHeldInOrder, StaysInLoop
      <4>2. \A i \in DOMAIN Alloc(q) : i < pos[q] => i < pos[q] + 1
        BY <2>2
      <4> QED BY <1>5, <4>1, <4>2 DEF StaysInLoop
    <3>2. CASE k = Exclusive("doc", Alloc(q)[pos[q]].doc)
      <4>1. k[1] = "doc" /\ k[2] = Alloc(q)[pos[q]].doc
        BY <3>2 DEF Exclusive
      <4>2. k[1] \in DBehind(pc'[q])
        BY <1>5, <4>1 DEF StaysInLoop, DBehind
      <4>3. pos[q] < pos'[q]
        BY <1>5, <2>2 DEF StaysInLoop
      <4> QED BY <2>2, <4>1, <4>2, <4>3
    <3> QED BY <1>5, <2>3, <3>1, <3>2 DEF StaysInLoop
  <2> QED BY <1>5, <2>1, <2>3 DEF DHeldInOrder, StaysInLoop
<1> QED BY <1>2, <1>3, <1>4, <1>5 DEF LockStep

LEMMA OrderStep ==
  ASSUME DInv, OrderInv, [DNext]_allVars
  PROVE  OrderInv'
<1>1. Submitted'
  BY ListsStay DEF OrderInv, Submitted
<1>2. CASE UNCHANGED <<pc, held, src, pos>>
  <2>1. \A q \in Req : pc'[q] = pc[q]
    BY <1>2
  <2>2. {r \in Req : DInFlight(r)}' = {r \in Req : DInFlight(r)}
    BY <2>1 DEF DInFlight
  <2>3. ASSUME NEW r \in Req PROVE DHeldInOrder(r)'
    <3>1. CASE pc[r] \in {"settle", "unwind"}
      <4>1. Own(r) /\ DInFlight(r) /\ op[r] \in PayOps
        BY <3>1, CurrentAlloc DEF DInv, Own, DInFlight, PayOps
      <4>2. src[r] \in Req /\ pay[src[r]].status # "none"
        BY <4>1 DEF Own, Knows
      <4>3. Alloc(r)' = Alloc(r)
        BY <1>2, <4>2, ListsStay DEF Alloc
      <4> QED BY <1>2, <4>3 DEF OrderInv, DHeldInOrder
    <3>2. CASE pc[r] \notin {"settle", "unwind"}
      BY <1>2, <3>2 DEF OrderInv, DHeldInOrder
    <3> QED BY <3>1, <3>2
  <2> QED BY <1>1, <2>2, <2>3 DEF OrderInv
<1>3. ASSUME NEW q \in Req, LockStep(q) PROVE OrderInv'
  <2>1. \A r \in Req : DHeldInOrder(r)'
    BY <1>3, OrderKept DEF OrderInv
  <2>2. {r \in Req : DInFlight(r)}' \subseteq {r \in Req : DInFlight(r)} \cup {q}
    BY <1>3 DEF LockStep, DInFlight
  <2>3. IsFiniteSet({r \in Req : DInFlight(r)}')
    BY <2>2, FS_AddElement, FS_Subset DEF OrderInv
  <2> QED BY <1>1, <2>1, <2>3 DEF OrderInv
<1> QED BY <1>2, <1>3, StepLocks

\* A payment has locked no document that comes after the one it waits for.
LEMMA LoopClimbs ==
  ASSUME DInv, OrderInv, NEW rank, OneOrder(rank), NEW q \in Req, pc[q] \in {"settle", "unwind"},
         NEW k \in held[q], k[1] = "doc"
  PROVE  k[2] \in Req /\ WantedDoc(q) \in Req /\ rank[k[2]] <= rank[WantedDoc(q)]
<1>1. PICK i \in DOMAIN Alloc(q) : i < pos[q] /\ k[2] = Alloc(q)[i].doc
  BY DEF OrderInv, DHeldInOrder
<1>2. /\ pos[q] \in DOMAIN Alloc(q) /\ i <= pos[q] /\ Alloc(q) # <<>>
      /\ Alloc(q) \in Allocs \cup {<<>>}
  BY <1>1, CurrentAlloc
<1>3. \A j \in DOMAIN Alloc(q) : Alloc(q)[j].doc \in Req
  BY <1>2, AllocTypes
<1>4. Alloc(q) \in AllocLists \cup {Drafted[d] : d \in DOMAIN Drafted}
  <2>1. src[q] \in Req
    BY CurrentAlloc DEF DInv, Own, Knows, DInFlight, PayOps
  <2> QED BY <1>2, <2>1 DEF OrderInv, Submitted, Alloc
<1>5. rank[Alloc(q)[i].doc] <= rank[Alloc(q)[pos[q]].doc]
  BY <1>2, <1>4 DEF OneOrder
<1> QED BY <1>1, <1>2, <1>3, <1>5 DEF WantedDoc

\* What a request waits for.
LEMMA WantedKinds ==
  ASSUME NEW r \in Req, NEW l \in DWantedLocks(r)
  PROVE  \/ l[1] = "pay" /\ DWantedRank(r) = 1
         \/ l = Exclusive("doc", WantedDoc(r)) /\ DWantedRank(r) = 2
         \/ l[1] = "docSeq" /\ DWantedRank(r) = 3
         \/ l[1] = "year" /\ DWantedRank(r) = 4
         \/ l[1] = "period" /\ DWantedRank(r) = 5
         \/ l[1] = "seq" /\ DWantedRank(r) = 6
<1>1. pc[r] \in {"lockPay", "lockDoc", "update", "settle", "unwind", "drawDoc", "lockYear",
                 "lockPeriod", "draw"}
  BY DEF DWantedLocks
<1>2. CASE pc[r] = "lockPay"
  BY <1>2 DEF DWantedLocks, DWantedRank, Exclusive
<1>3. CASE pc[r] \in {"lockDoc", "update"}
  BY <1>3 DEF DWantedLocks, DWantedRank, WantedDoc
<1>4. CASE pc[r] \in {"settle", "unwind"}
  BY <1>4 DEF DWantedLocks, DWantedRank, WantedDoc
<1>5. CASE pc[r] \in {"drawDoc", "draw"}
  BY <1>5 DEF DWantedLocks, DWantedRank, Exclusive
<1>6. CASE pc[r] \in {"lockYear", "lockPeriod"}
  BY <1>6 DEF DWantedLocks, DWantedRank, Share
<1> QED BY <1>1, <1>2, <1>3, <1>4, <1>5, <1>6

\* Who is waited for, and waits, waits for a lock further up: of another kind, or of a
\* document further up in the lists.
LEMMA DWaitingClimbs ==
  ASSUME DInv, OrderInv, NEW rank, OneOrder(rank),
         NEW r \in Req, NEW q \in Req, NEW s \in Req, DWaitsFor(r, q), DWaitsFor(q, s)
  PROVE  /\ DWantedRank(r) \in 1 .. 6 /\ DWantedRank(q) \in 1 .. 6
         /\ \/ DWantedRank(r) < DWantedRank(q)
            \/ /\ DWantedRank(r) = 2 /\ DWantedRank(q) = 2
               /\ WantedDoc(r) \in Req /\ WantedDoc(q) \in Req
               /\ rank[WantedDoc(r)] < rank[WantedDoc(q)]
<1>1. PICK l \in DWantedLocks(r), k \in held[q] : Conflict(k, l)
  BY DEF DWaitsFor
<1>2. PICK m \in DWantedLocks(q), n \in held[s] : Conflict(n, m) /\ s # q
  BY DEF DWaitsFor
<1>3. \/ l[1] = "pay" /\ DWantedRank(r) = 1
      \/ l = Exclusive("doc", WantedDoc(r)) /\ DWantedRank(r) = 2
      \/ l[1] = "docSeq" /\ DWantedRank(r) = 3
      \/ l[1] = "year" /\ DWantedRank(r) = 4
      \/ l[1] = "period" /\ DWantedRank(r) = 5
      \/ l[1] = "seq" /\ DWantedRank(r) = 6
  BY WantedKinds
<1>4. /\ DWantedRank(q) \in 1 .. 6
      /\ DWantedRank(q) = 2 => m = Exclusive("doc", WantedDoc(q))
  BY WantedKinds
<1>5. k[1] = l[1] /\ k[2] = l[2]
  BY <1>1 DEF Conflict
<1>6. pc[q] \in {"lockPay", "lockDoc", "update", "settle", "unwind", "drawDoc", "lockYear",
                 "lockPeriod", "draw"}
  BY <1>2 DEF DWantedLocks
<1>7. k[1] \in DBehind(pc[q])
  BY <1>6 DEF OrderInv, DHeldInOrder
<1>8. CASE pc[q] \in {"lockPay", "lockDoc", "update"}
  BY <1>7, <1>8 DEF DBehind
<1>9. CASE pc[q] \in {"settle", "unwind"}
  <2>1. DWantedRank(q) = 2 /\ m = Exclusive("doc", WantedDoc(q))
    BY <1>4, <1>9 DEF DWantedRank
  <2>2. k[1] \in {"pay", "doc"}
    BY <1>7, <1>9 DEF DBehind
  <2>3. CASE k[1] = "pay"
    <3>1. l[1] # "doc"
      BY <1>5, <2>3
    <3>2. l # Exclusive("doc", WantedDoc(r))
      BY <3>1 DEF Exclusive
    <3>3. DWantedRank(r) = 1
      BY <1>3, <1>5, <2>3, <3>2
    <3> QED BY <2>1, <3>3
  <2>4. CASE k[1] = "doc"
    <3>1. DWantedRank(r) = 2 /\ l = Exclusive("doc", WantedDoc(r))
      BY <1>3, <1>5, <2>4
    <3>2. k[2] = WantedDoc(r)
      BY <1>5, <3>1 DEF Exclusive
    <3>3. WantedDoc(r) \in Req /\ WantedDoc(q) \in Req /\ rank[WantedDoc(r)] <= rank[WantedDoc(q)]
      BY <1>9, <2>4, <3>2, LoopClimbs
    <3>4. WantedDoc(r) # WantedDoc(q)
      <4> SUFFICES ASSUME WantedDoc(r) = WantedDoc(q) PROVE FALSE
        OBVIOUS
      <4>1. k[1] = n[1] /\ k[2] = n[2] /\ n \in held[s] /\ k \in held[q]
        BY <1>2, <2>1, <2>4, <3>2 DEF Conflict, Exclusive
      <4>2. k[3] = "X"
        <5>1. k \in DLocks
          BY DEF DInv, DTypes
        <5>2. \A x \in Locks : x[1] # "doc"
          BY DEF Locks
        <5>3. \A x \in {"docSeq"} \X (Types \X Years) \X {"X"} : x[1] # "doc"
          OBVIOUS
        <5> QED BY <2>4, <5>1, <5>2, <5>3 DEF DLocks
      <4>3. Conflict(k, n)
        BY <4>1, <4>2 DEF Conflict
      <4> QED BY <1>2, <4>1, <4>3 DEF DInv, LocksCompatible
    <3>5. rank[WantedDoc(r)] # rank[WantedDoc(q)]
      BY <3>3, <3>4 DEF OneOrder
    <3>6. rank[WantedDoc(r)] \in Int /\ rank[WantedDoc(q)] \in Int
      BY <3>3 DEF OneOrder
    <3> QED BY <2>1, <3>1, <3>3, <3>5, <3>6
  <2> QED BY <2>2, <2>3, <2>4
<1>10. CASE pc[q] \in {"drawDoc", "lockYear", "lockPeriod", "draw"}
  <2>1. DWantedRank(r) \in 1 .. 6
    BY <1>3
  <2>2. CASE pc[q] = "drawDoc"
    BY <1>3, <1>5, <1>7, <2>2 DEF DBehind, DWantedRank, Exclusive
  <2>3. CASE pc[q] = "lockYear"
    BY <1>3, <1>5, <1>7, <2>3 DEF DBehind, DWantedRank, Exclusive
  <2>4. CASE pc[q] = "lockPeriod"
    BY <1>3, <1>5, <1>7, <2>4 DEF DBehind, DWantedRank, Exclusive
  <2>5. CASE pc[q] = "draw"
    BY <1>3, <1>5, <1>7, <2>5 DEF DBehind, DWantedRank, Exclusive
  <2> QED BY <1>10, <2>2, <2>3, <2>4, <2>5
<1> QED BY <1>6, <1>8, <1>9, <1>10

\* A finite set of requests has one that wants the last document.
LEMMA LastWanted ==
  ASSUME NEW T, IsFiniteSet(T), T # {}, NEW f, \A r \in T : f[r] \in Int
  PROVE  \E r \in T : \A q \in T : f[q] <= f[r]
<1> DEFINE Last(u) == \E r \in u : \A q \in u : f[q] <= f[r]
           U == {u \in SUBSET T : u # {} /\ ~Last(u)}
<1> SUFFICES ASSUME U # {} PROVE FALSE
  OBVIOUS
<1>1. PICK m \in U : \A u \in U : u \subseteq m => u = m
  <2>1. U \in SUBSET (SUBSET T)
    OBVIOUS
  <2> HIDE DEF U
  <2> QED BY <2>1, SmallestSubset
<1>2. m \in SUBSET T /\ m # {} /\ ~Last(m)
  BY <1>1
<1>3. PICK x : x \in m
  BY <1>2
<1>4. m \ {x} \in SUBSET T /\ m \ {x} \notin U
  BY <1>1, <1>2, <1>3
<1>5. CASE m \ {x} = {}
  <2>1. \A q \in m : q = x
    BY <1>5
  <2>2. Last(m)
    BY <1>2, <1>3, <2>1
  <2> QED BY <1>2, <2>2
<1>6. CASE m \ {x} # {}
  <2>1. PICK y \in m \ {x} : \A q \in m \ {x} : f[q] <= f[y]
    BY <1>4, <1>6
  <2>2. Last(m)
    <3>1. CASE f[x] <= f[y]
      BY <2>1, <3>1
    <3>2. CASE ~(f[x] <= f[y])
      <4>1. \A q \in m : f[q] <= f[x]
        BY <1>2, <1>3, <2>1, <3>2
      <4> QED BY <1>3, <4>1
    <3> QED BY <3>1, <3>2
  <2> QED BY <1>2, <2>2
<1> QED BY <1>5, <1>6

\* PaymentsService.post and void: when allocation lists name documents in one order,
\* no requests wait for each other in a circle, however many there are.
THEOREM PaymentsNeverDeadlock ==
  ASSUME NEW rank, OneOrder(rank)
  PROVE  DSpec => []PaymentsWaitInOrder
<1>1. ASSUME DInv, OrderInv PROVE PaymentsWaitInOrder
  <2> SUFFICES ASSUME NEW S \in SUBSET {r \in Req : DInFlight(r)}, S # {},
                      \A r \in S : \E q \in S : DWaitsFor(r, q)
               PROVE  FALSE
    BY DEF PaymentsWaitInOrder
  <2>1. S \subseteq Req /\ IsFiniteSet(S)
    BY <1>1, FS_Subset DEF OrderInv
  <2>2. ASSUME NEW r \in S
        PROVE  /\ DWantedRank(r) \in 1 .. 6
               /\ \E q \in S :
                    /\ DWantedRank(q) \in 1 .. 6
                    /\ \/ DWantedRank(r) < DWantedRank(q)
                       \/ /\ DWantedRank(r) = 2 /\ DWantedRank(q) = 2
                          /\ WantedDoc(r) \in Req /\ WantedDoc(q) \in Req
                          /\ rank[WantedDoc(r)] < rank[WantedDoc(q)]
    <3>1. PICK q \in S : DWaitsFor(r, q)
      OBVIOUS
    <3>2. PICK s \in S : DWaitsFor(q, s)
      OBVIOUS
    <3> QED BY <1>1, <2>1, <3>1, <3>2, DWaitingClimbs
  <2> DEFINE w == [r \in S |-> DWantedRank(r)]
  <2>3. \A r \in S : w[r] \in 1 .. 6 /\ (w[r] # 2 => \E q \in S : w[r] < w[q])
    BY <2>2
  <2>4. \A r \in S : w[r] # 6
    <3> HIDE DEF w
    <3> QED BY <2>3
  <2>5. \A r \in S : w[r] # 5 /\ w[r] # 4 /\ w[r] # 3
    <3> HIDE DEF w
    <3>1. \A r \in S : w[r] # 5
      BY <2>3, <2>4
    <3>2. \A r \in S : w[r] # 4
      BY <2>3, <2>4, <3>1
    <3> QED BY <2>3, <2>4, <3>1, <3>2
  <2>6. \A r \in S : DWantedRank(r) \in 1 .. 2
    BY <2>3, <2>4, <2>5
  <2> DEFINE T == {r \in S : DWantedRank(r) = 2}
             f == [r \in T |-> rank[WantedDoc(r)]]
  <2>7. T # {}
    <3>1. \E r \in S : w[r] = 2
      <4> HIDE DEF w
      <4> QED BY <2>3, <2>4, <2>5
    <3> QED BY <3>1
  <2>8. ASSUME NEW r \in T PROVE f[r] \in Int /\ \E q \in T : f[r] < f[q]
    <3>1. PICK q \in S : /\ DWantedRank(q) = 2 /\ WantedDoc(r) \in Req
                         /\ rank[WantedDoc(r)] < rank[WantedDoc(q)]
      BY <2>2, <2>6
    <3>2. q \in T /\ rank[WantedDoc(r)] \in Int
      BY <3>1 DEF OneOrder
    <3> QED BY <3>1, <3>2
  <2>9. IsFiniteSet(T)
    BY <2>1, FS_Subset
  <2> HIDE DEF T, f
  <2>10. PICK r \in T : \A q \in T : f[q] <= f[r]
    BY <2>7, <2>8, <2>9, LastWanted
  <2>11. PICK q \in T : f[r] < f[q]
    BY <2>8
  <2> QED BY <2>8, <2>10, <2>11
<1>2. DInv /\ OrderInv /\ [DNext]_allVars => OrderInv'
  BY OrderStep
<1> QED BY <1>1, <1>2, OrderInit, DocumentsInductive, PTL DEF DSpec
=============================================================================
