---------------------------- MODULE FiscalAlerts ----------------------------
(***************************************************************************)
(* What a document says of its detraction (SPOT), and what becomes of it:  *)
(* a parser picks the amount and the rate, build_canonical_erp_payload     *)
(* works out the net payable, evaluate_fiscal_alerts raises the alerts.    *)
(*                                                                         *)
(* A document, or a language model, writes decimals with any number of     *)
(* digits (schemas.py:71-75 sets no limit).  Fine is that precision: an    *)
(* amount is an integer and counts cents / Fine, a rate counts hundredths  *)
(* of a percent / Fine.  What Python's decimal computes with is exact up   *)
(* to 28 digits; longer numbers are left out.                              *)
(***************************************************************************)
EXTENDS Integers, Sequences

CONSTANTS
    Fine,     \* parts of a cent, and of a hundredth of a percent
    Sums,     \* PayableAmount, LineExtensionAmount and TaxAmount of the documents
    Amounts,  \* Amount of a PaymentTerms
    Rates,    \* PaymentPercent of a PaymentTerms
    None,     \* not there
    Garbled,  \* the text of an Amount that is no number
    MaxTerms  \* bound on the PaymentTerms of an invoice, for the model only

\* ID: the term is named Detraccion, names an instalment, or is any other.
\* PaymentMeansID: 001, or contains Detrac; an instalment; or any other.
Term == [id : {"Detraccion", "Cuota", "FormaPago"}, means : {"001", "Cuota001", "Credito"},
         amount : Amounts \union {None, Garbled}, percent : Rates \union {None}]

VARIABLES
    pc,       \* new, parsed or recorded
    terms,    \* the PaymentTerms of the document, in document order
    cdr,      \* cdr_status
    amounts,  \* total_amount, subtotal, tax_amount, detraction_amount and
              \* detraction_rate of the row
    payload,  \* accounting, in the payload for the ERP: cents, and whole
              \* hundredths of a percent
    alerts    \* the fiscal alerts that are queued

vars == <<pc, terms, cdr, amounts, payload, alerts>>

OptionalOf(S) == S \union {None}

Summed == [total : OptionalOf(Int), subtotal : OptionalOf(Int), tax : OptionalOf(Int)]

Amounted == [total : OptionalOf(Int), subtotal : OptionalOf(Int), tax : OptionalOf(Int),
             amount : OptionalOf(Int), rate : OptionalOf(Int)]

Blank == [total |-> None, subtotal |-> None, tax |-> None, amount |-> None, rate |-> None]
NoPayload == [total |-> None, subtotal |-> None, tax |-> None, amount |-> None, rate |-> None,
              net |-> None, isSubject |-> FALSE]

Amounting(sums, amount, rate) ==
    [total |-> sums.total, subtotal |-> sums.subtotal, tax |-> sums.tax,
     amount |-> amount, rate |-> rate]

TypeOK ==
    /\ pc \in {"new", "parsed", "recorded"}
    /\ terms \in Seq(Term)
    /\ cdr \in {"ACCEPTED", "REJECTED", "UNKNOWN", None}
    /\ amounts \in Amounted
    /\ payload.net \in Int \union {None}
    /\ alerts \subseteq {"cdr_rejected", "spot_discrepancy"}

\* Before it is parsed, amounts holds what the document says of its totals.
Init ==
    /\ pc = "new"
    /\ \E n \in 0..MaxTerms : terms \in [1..n -> Term]
    /\ cdr \in {"ACCEPTED", "REJECTED", "UNKNOWN", None}
    /\ \E sums \in Sums : amounts = Amounting(sums, None, None)
    /\ payload = NoPayload
    /\ alerts = {}

-----------------------------------------------------------------------------
(* The parsers.                                                            *)

IsDetraction(t) == t.id = "Detraccion" \/ t.means = "001"

HasInstalments == \E i \in DOMAIN terms : terms[i].id = "Cuota"

HasAmount(t) == t.amount # None

Detractions == {i \in DOMAIN terms : IsDetraction(terms[i])}
WithAmount == {i \in DOMAIN terms : HasAmount(terms[i])}

\* Of the terms at these positions, the first in the document.
FirstOf(S) == terms[CHOOSE i \in S : \A j \in S : ~ (j < i)]

\* Decimal() raises for what is no number, and the amount stays None.
ValueOf(text) == IF text = Garbled THEN None ELSE text

\* Variant: the amount is looked for in all terms.
DetractionAnywhere == IF WithAmount # {} THEN ValueOf(FirstOf(WithAmount).amount) ELSE None

\* The first term of detraction; without one, and without terms that the
\* parser takes for instalments, the first amount of any term.
DetractionAmount ==
    IF Detractions # {} THEN ValueOf(FirstOf(Detractions).amount)
    ELSE IF ~ HasInstalments /\ WithAmount # {} THEN ValueOf(FirstOf(WithAmount).amount)
    ELSE None

DetractionRate == IF Detractions # {} THEN FirstOf(Detractions).percent ELSE None

Parsed(found) ==
    /\ pc = "new"
    /\ amounts' = found
    /\ pc' = "parsed"
    /\ UNCHANGED <<terms, cdr, payload, alerts>>

\* The XML of an invoice.
Parse == Parsed(Amounting(amounts, DetractionAmount, DetractionRate))

\* A PDF, which has no PaymentTerms: the language model answers what it thinks it
\* has read.  Without a key the regular expressions find a total or none, and
\* no detraction.
ParseText ==
    /\ terms = << >>
    /\ \E sums \in Sums, amount \in OptionalOf(Amounts), rate \in OptionalOf(Rates) :
          Parsed(Amounting(sums, amount, rate))

\* A file that is no invoice, or no file at all.
ParseNothing == Parsed(Blank)

-----------------------------------------------------------------------------
(* The payload and the alerts.                                             *)

\* The integer next to p/q; of two that are as near, the even one: how quantize and
\* the format .2f round.
HalfEven(p, q) ==
    LET low == p \div q
        rest == p % q
    IN  IF 2 * rest < q \/ (2 * rest = q /\ low % 2 = 0) THEN low ELSE low + 1

\* _format_decimal
Hundredths(x) == IF x = None THEN None ELSE HalfEven(x, Fine)

Distance(a, b) == IF a < b THEN b - a ELSE a - b

\* A total times a rate counts 1/Percent of a cent / Fine.
Percent == 10000 * Fine

\* Variant: a discrepancy of exactly five cents is one.
DisagreesFrom(t, r, d) == Distance(d, Fine * HalfEven(t * r, Percent * Fine)) >= 5 * Fine

\* The expected detraction is rounded to cents, the declared one is not.
Disagrees(t, r, d) == Distance(d, Fine * HalfEven(t * r, Percent * Fine)) > 5 * Fine

CanonicalPayload(a) ==
    [total |-> Hundredths(a.total), subtotal |-> Hundredths(a.subtotal), tax |-> Hundredths(a.tax),
     amount |-> Hundredths(a.amount), rate |-> Hundredths(a.rate),
     net |-> IF a.total # None /\ a.amount # None THEN HalfEven(a.total - a.amount, Fine) ELSE None,
     isSubject |-> a.amount # None \/ a.rate # None]

\* Variant: whatever is not accepted is reported.
RejectedUnlessAccepted(status) == status \notin {"ACCEPTED", None}

Rejected(status) == status = "REJECTED"

HasDiscrepancy(a) ==
    a.total # None /\ a.rate # None /\ a.amount # None /\ Disagrees(a.total, a.rate, a.amount)

AlertsFor(a, status) ==
    (IF Rejected(status) THEN {"cdr_rejected"} ELSE {})
        \union (IF HasDiscrepancy(a) THEN {"spot_discrepancy"} ELSE {})

\* The row, the event for the ERP and the alerts, in one transaction.
Record ==
    /\ pc = "parsed"
    /\ payload' = CanonicalPayload(amounts)
    /\ alerts' = AlertsFor(amounts, cdr)
    /\ pc' = "recorded"
    /\ UNCHANGED <<terms, cdr, amounts>>

Next == Parse \/ ParseText \/ ParseNothing \/ Record

Spec == Init /\ [][Next]_vars

-----------------------------------------------------------------------------
(* Safety.                                                                 *)

Comparable == amounts.total # None /\ amounts.rate # None /\ amounts.amount # None

\* The expected detraction is rounded before it is compared, which hides or adds
\* half a cent and no more: who is accused is more than 4.5 cents off the exact
\* product, and at least 5.5 when he declares whole cents; who is not is at most
\* 5.5 off.
AlertsAreFair ==
    pc = "recorded" /\ Comparable =>
        LET error == Distance(Percent * amounts.amount, amounts.total * amounts.rate)
            cent == Percent * Fine
        IN  IF "spot_discrepancy" \in alerts
            THEN /\ 2 * error > 9 * cent
                 /\ amounts.amount % Fine = 0 => 2 * error >= 11 * cent
            ELSE 2 * error <= 11 * cent

\* "eliminando falsos positivos con cuotas a credito" (task_plan.md:24): the
\* instalments of an invoice without detraction are not taken for one.
InstalmentsAreNoDetraction ==
    pc = "recorded" /\ terms # << >> /\ (\A i \in DOMAIN terms : terms[i].means = "Cuota001"
                                                              /\ ~ IsDetraction(terms[i]))
    => amounts.amount = None

\* "Discrepancia matematica o falta de detraccion SPOT" (fiscal_alerts.py:110):
\* an invoice that has a rate and no amount is reported.
MissingDetractionIsAlerted ==
    pc = "recorded" /\ amounts.total \notin {0, None} /\ amounts.rate \notin {0, None}
    /\ amounts.amount = None
    => "spot_discrepancy" \in alerts
=============================================================================
