-------------------------------- MODULE Tax ---------------------------------
(***************************************************************************)
(* TaxService.calculate and the money it computes with.  An amount is a     *)
(* number of ten-thousandths of a rupiah, the scale of class Money; a rate  *)
(* or a quantity is a number of hundredths.                                 *)
(***************************************************************************)
EXTENDS Sums, Sequences, Chart

\* n / d rounded half up, for a non-negative n.
HalfUp(n, d) == (2 * n + d) \div (2 * d)

\* Money.multiply rounds its result to the scale, Money.roundToRupiah to the unit.
Multiply(v, hundredths) == HalfUp(v * hundredths, 100)
RoundToRupiah(v) == 10000 * HalfUp(v, 10000)

\* taxableLines: the amount of a document line.
Amount(l) == Multiply(l.price, l.quantity)
Amounts(ls) == [i \in DOMAIN ls |-> Amount(ls[i])]

ALLOWED_KINDS == [SALE     |-> {"PPN_OUTPUT", "PPH_PREPAID"},
                  PURCHASE |-> {"PPN_INPUT", "PPH_PAYABLE"}]

CodesOf(l) == {l.taxCodes[j] : j \in DOMAIN l.taxCodes}
CodesIn(ls) == UNION {CodesOf(ls[i]) : i \in DOMAIN ls}

Subtotal(ls) == SumOver(Amounts(ls), DOMAIN ls)

\* The base of a code is aggregated over the lines that carry it and its tax is
\* rounded to the rupiah once.
Base(ls, c) == SumOver(Amounts(ls), {i \in DOMAIN ls : c \in CodesOf(ls[i])})
TaxAmount(ls, c, table) == RoundToRupiah(Multiply(Base(ls, c), table[c].rate))
Taxes(ls, table) == [c \in CodesIn(ls) |-> TaxAmount(ls, c, table)]

\* The tax of the given kinds: PPN is added to the subtotal, PPh withheld from it.
TaxOfKinds(ls, table, kinds) ==
  SumOver(Taxes(ls, table), {c \in CodesIn(ls) : table[c].kind \in kinds})
TaxTotal(ls, table) == TaxOfKinds(ls, table, {"PPN_OUTPUT", "PPN_INPUT"})
WithholdingTotal(ls, table) == TaxOfKinds(ls, table, {"PPH_PREPAID", "PPH_PAYABLE"})
SettlementAmount(ls, table) ==
  Subtotal(ls) + TaxTotal(ls, table) - WithholdingTotal(ls, table)

\* What calculate refuses: no line, a code repeated in a line, a code that is
\* unknown, inactive or of the other side, and a settlement that is not positive.
Accepts(nature, ls, table) ==
  /\ Len(ls) > 0
  /\ \A i \in DOMAIN ls : Len(ls[i].taxCodes) = Cardinality(CodesOf(ls[i]))
  /\ \A c \in CodesIn(ls) :
       /\ table[c].status = "active"
       /\ table[c].kind \in ALLOWED_KINDS[nature]
  /\ SettlementAmount(ls, table) > 0

\* The journal lines, debit minus credit per account of A: bases against the tax
\* accounts and the settlement account.
CalculatedLines(nature, ls, table, settlement, A) ==
  LET side == IF nature = "SALE" THEN -1 ELSE 1
      base(a) == SumOver(Amounts(ls), {i \in DOMAIN ls : ls[i].account = a})
      tax(a, normal) ==
        SumOver(Taxes(ls, table),
                {c \in CodesIn(ls) : /\ table[c].account = a
                                     /\ RequiredNormalBalance(table[c].kind) = normal})
  IN [a \in A |-> side * base(a) + tax(a, "DEBIT") - tax(a, "CREDIT")
                    - (IF a = settlement THEN side * SettlementAmount(ls, table) ELSE 0)]

\* assertBalanced wants every line on exactly one side: a base or a tax that is
\* zero is refused there, although calculate accepts it.
EveryLineOneSided(ls, table) ==
  /\ \A i \in DOMAIN ls : Amount(ls[i]) > 0
  /\ \A c \in CodesIn(ls) : TaxAmount(ls, c, table) > 0
=============================================================================
