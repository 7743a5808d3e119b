------------------------------ MODULE Document ------------------------------
(***************************************************************************)
(* From the attachments of a message to its events: Extraction finds the   *)
(* document, FiscalAlerts reads its amounts and fills the payload and the  *)
(* alerts, and ErpAdapters says what the three systems make of them.       *)
(***************************************************************************)
EXTENDS Extraction

CONSTANTS
    Fine, Sums, Amounts, Rates, Garbled, MaxTerms,  \* those of FiscalAlerts
    Cases  \* messages, with what the document that is read says of money

VARIABLES
    stage,  \* new, parsed or recorded
    terms, amounts, payload, alerts

fiscal == <<stage, terms, amounts, payload, alerts>>

Fiscal == INSTANCE FiscalAlerts WITH pc <- stage, cdr <- record.cdr, None <- Nothing

Erp == INSTANCE ErpAdapters WITH None <- Nothing

ASSUME DocumentAssumption ==
    /\ Fine \in Nat \ {0}
    /\ Sums \subseteq Fiscal!Summed /\ Amounts \subseteq Int /\ Rates \subseteq Int
    /\ Nothing \notin Int /\ Garbled \notin Int /\ Garbled # Nothing
    /\ \A c \in Cases : c.mail \in Messages /\ c.sums \in Sums

DocumentInit ==
    /\ \E c \in Cases : /\ mail = c.mail
                        /\ terms = c.terms
                        /\ amounts = Fiscal!Amounting(c.sums, Nothing, Nothing)
    /\ Init
    /\ Fiscal!Init

-----------------------------------------------------------------------------
(* One message.                                                            *)

Extract == Next /\ UNCHANGED fiscal

Extracts == pc = "done" /\ record.status = "PROCESSED" /\ UNCHANGED vars

InvoiceFromText == chosen # 0 /\ File.ext = "pdf"

\* In a CDR that is taken for an invoice there are no amounts and no terms.
ReadAmounts ==
    /\ Extracts
    /\ record.invoice \in Invoices
    /\ IF InvoiceFromText THEN Fiscal!ParseText ELSE Fiscal!Parse

ReadNothing ==
    /\ Extracts
    /\ record.invoice \notin Invoices
    /\ Fiscal!ParseNothing

\* An ERROR row has no event and raises no alert.
RecordInvoice == Extracts /\ Fiscal!Record

DocumentNext == Extract \/ ReadAmounts \/ ReadNothing \/ RecordInvoice

DocumentSpec == DocumentInit /\ [][DocumentNext]_<<vars, fiscal>>

-----------------------------------------------------------------------------
(* What is told of the verdict when the message has none.                  *)

\* compliance, in the payload for the ERP.
ToldToErp == IF record.cdr = Nothing THEN "UNKNOWN" ELSE record.cdr

\* The last column of a line of the register of purchases.
ToldToSunat == IF record.cdr = Nothing THEN "ACCEPTED" ELSE record.cdr

-----------------------------------------------------------------------------
(* Safety.                                                                 *)

\* See FiscalAlerts: who is accused is more than 4.5 cents off the exact product,
\* or 5.5 when he declares whole cents, and who is not is at most 5.5 off.
AlertsAreFair == Fiscal!AlertsAreFair

\* Amount and rate belong together: when an XML gives both, they are those of
\* one of its terms, and no term before it is a detraction, however many other
\* terms with amounts the invoice has.
AmountAndRateAgree ==
    stage # "new" /\ terms # << >> /\ amounts.amount # Nothing /\ amounts.rate # Nothing =>
        \E i \in DOMAIN terms :
            /\ Fiscal!IsDetraction(terms[i])
            /\ terms[i].amount = amounts.amount /\ terms[i].percent = amounts.rate
            /\ \A j \in 1..(i - 1) : ~ Fiscal!IsDetraction(terms[j])

PartsAddUp(a) ==
    a.subtotal # Nothing /\ a.tax # Nothing /\ a.subtotal + a.tax = a.total

InCents(a) == a.total % Fine = 0 /\ (a.amount # Nothing => a.amount % Fine = 0)

\* What SAP and Siigo are told to pay the vendor and what they are told of the
\* detraction meet the total of the invoice, also when the detraction is the whole
\* invoice, or is zero, or has an amount or a rate only: exactly when the row has
\* whole cents, and within the cent that rounding each amount by itself can cost.
\* The two agree with each other, and when the parts of the document add up to
\* its total the items of Siigo are off its payment and retention by two cents at most.
DraftsMeetTotal ==
    stage = "recorded" /\ payload.total # Nothing =>
        LET sap == Erp!SapDraft(payload)
            siigo == Erp!SiigoDraft(payload)
            paid == sap.payment + sap.withheld
        IN  /\ Fiscal!Distance(paid, payload.total) <= 1
            /\ InCents(amounts) => paid = payload.total
            /\ siigo.payment = sap.payment
            /\ {held.value : held \in siigo.retentions} \ {0} = {sap.withheld} \ {0}
            /\ PartsAddUp(amounts) => Fiscal!Distance(siigo.price + siigo.tax, paid) <= 2

\* The rejection of SUNAT gets from the archive to the queue: the message of an
\* invoice with its CDR raises the critical alert when the CDR rejects, and
\* neither when it accepts nor when it does not say.
RejectionIsReported ==
    \A invoice \in Invoices, cdr \in Cdrs :
        /\ stage = "recorded"
        /\ Of("xml") = {} /\ Len(mail) = 1 /\ mail[1].opens
        /\ DocumentsNamed("plain") = {invoice} /\ DocumentsNamed("cdr") = {cdr}
        => ("cdr_rejected" \in alerts <=> cdr = "rejected")

\* The register that is filed (reports.py:54) says of an invoice what the ERP was
\* told of it (fiscal_alerts.py:80).  The code does not meet it.
RegisterAgreesWithErp == stage = "recorded" => ToldToSunat = ToldToErp

\* See FiscalAlerts; the code does not meet these two.
InstalmentsAreNoDetraction == Fiscal!InstalmentsAreNoDetraction
MissingDetractionIsAlerted == Fiscal!MissingDetractionIsAlerted
=============================================================================
