----------------------------- MODULE Extraction -----------------------------
(***************************************************************************)
(* From the attachments of a message to the fiscal data of its ledger row: *)
(* extract_email_data chooses one attachment, unpacks it when it is a ZIP  *)
(* and parses what it holds; whatever fails in a parser leaves blanks.     *)
(*                                                                         *)
(* A document stands for the bytes of a file: an invoice, a CDR of SUNAT   *)
(* that accepts or rejects, or something that is neither.                  *)
(***************************************************************************)
EXTENDS Integers, Sequences, FiniteSetsExt

CONSTANTS
    Invoices,  \* invoice documents
    Messages,  \* the attachments of each message, in order
    Nothing    \* no invoice, no CDR, no bytes

Cdrs == {"accepted", "rejected", "codeless"}
Documents == Invoices \union Cdrs \union {"broken"}

\* name: taken for a CDR (R-*.xml, *cdr*), another .xml, or passed over (not
\* .xml, or a path that escapes).
Member == [name : {"cdr", "plain", "skipped"}, doc : Documents]

\* fits: not larger than MAX_ATTACHMENT_SIZE_BYTES.  opens: a ZIP that is
\* neither corrupt nor over the limits on files and unpacked bytes.
Attachment ==
    [ext : {"xml", "zip", "pdf", "other"}, fits : BOOLEAN, opens : BOOLEAN,
     doc : Documents, members : Seq(Member)]

ASSUME ExtractionAssumption ==
    /\ Messages \subseteq Seq(Attachment)
    /\ Nothing \notin Documents \union {"ACCEPTED", "REJECTED", "UNKNOWN"}

VARIABLES
    pc,       \* choose, open, unpack, validate or done
    mail,     \* the attachments of the message, in order
    chosen,   \* position of chosen_att, 0 for none
    at,       \* the next member of the ZIP
    bytes,    \* xml_invoice_bytes and cdr_bytes
    record    \* what is stored: status, invoice and cdr_status

vars == <<pc, mail, chosen, at, bytes, record>>

CdrStatuses == {"ACCEPTED", "REJECTED", "UNKNOWN", Nothing}

TypeOK ==
    /\ pc \in {"choose", "open", "unpack", "validate", "done"}
    /\ mail \in Messages
    /\ chosen \in 0..Len(mail)
    /\ at \in Nat \ {0}
    /\ bytes \in [invoice : Documents \union {Nothing}, cdr : Documents \union {Nothing}]
    /\ record \in [status : {"none", "PROCESSED", "ERROR"},
                   invoice : Documents \union {Nothing}, cdr : CdrStatuses]

NoBytes == [invoice |-> Nothing, cdr |-> Nothing]

Init ==
    /\ pc = "choose"
    /\ mail \in Messages
    /\ chosen = 0
    /\ at = 1
    /\ bytes = NoBytes
    /\ record = [status |-> "none", invoice |-> Nothing, cdr |-> Nothing]

-----------------------------------------------------------------------------
(* The parsers.                                                            *)

\* parse_xml_invoice returns a row of defaults for what it cannot read.  A CDR it
\* takes for an invoice, whose number is the ID of the CDR.
InvoiceIn(doc) == IF doc \in Invoices \union Cdrs THEN doc ELSE Nothing

\* parse_cdr_xml: accepted when the ResponseCode is 0.
CdrStatus(doc) ==
    CASE doc = "accepted" -> "ACCEPTED"
      [] doc = "rejected" -> "REJECTED"
      [] OTHER -> "UNKNOWN"

-----------------------------------------------------------------------------
(* The steps of extract_email_data.                                        *)

Of(ext) == {i \in DOMAIN mail : mail[i].ext = ext}

\* Variant: the first attachment that can be read at all.
CandidatesInOrder == Of("xml") \union Of("zip") \union Of("pdf")

\* XML before ZIP before the other extensions that are allowed.
Candidates ==
    IF Of("xml") # {} THEN Of("xml")
    ELSE IF Of("zip") # {} THEN Of("zip")
    ELSE Of("pdf") \union Of("other")

\* The data go to the schema EmailExtract.
Extracted(invoice, cdr) ==
    /\ record' = [status |-> "none", invoice |-> invoice, cdr |-> cdr]
    /\ pc' = "validate"

Finish(status, invoice, cdr) ==
    /\ record' = [status |-> status, invoice |-> invoice, cdr |-> cdr]
    /\ pc' = "done"

Choose ==
    /\ pc = "choose"
    /\ IF Candidates = {}
       THEN UNCHANGED chosen /\ Extracted(Nothing, Nothing)
       ELSE chosen' = Min(Candidates) /\ pc' = "open" /\ UNCHANGED record
    /\ UNCHANGED <<mail, at, bytes>>

File == mail[chosen]

\* Too large: the whole message becomes an ERROR row.
Refuse ==
    /\ pc = "open"
    /\ ~ File.fits
    /\ Finish("ERROR", Nothing, Nothing)
    /\ UNCHANGED <<mail, chosen, at, bytes>>

ParseXml ==
    /\ pc = "open"
    /\ File.fits /\ File.ext = "xml"
    /\ Extracted(InvoiceIn(File.doc), Nothing)
    /\ UNCHANGED <<mail, chosen, at, bytes>>

\* The text of a PDF goes to a language model, or through regular expressions:
\* either may or may not find the invoice in it, and the model, whose answer has
\* a field for it, may name a verdict of SUNAT.
ParsePdf ==
    /\ pc = "open"
    /\ File.fits /\ File.ext = "pdf"
    /\ \E invoice \in {InvoiceIn(File.doc), Nothing}, verdict \in CdrStatuses :
          Extracted(invoice, verdict)
    /\ UNCHANGED <<mail, chosen, at, bytes>>

\* Spreadsheets and images are stored with their hash only.
KeepOther ==
    /\ pc = "open"
    /\ File.fits /\ File.ext = "other"
    /\ Extracted(Nothing, Nothing)
    /\ UNCHANGED <<mail, chosen, at, bytes>>

\* A ZIP that does not open is logged, and the row has no fiscal data.
OpenZip ==
    /\ pc = "open"
    /\ File.fits /\ File.ext = "zip"
    /\ IF File.opens THEN pc' = "unpack" /\ UNCHANGED record
                     ELSE Extracted(Nothing, Nothing)
    /\ UNCHANGED <<mail, chosen, at, bytes>>

\* Variant: the loop stops at the first invoice.
ReadMemberAndStop ==
    /\ pc = "unpack"
    /\ at <= Len(File.members)
    /\ LET m == File.members[at] IN
          /\ bytes' = CASE m.name = "cdr" -> [bytes EXCEPT !.cdr = m.doc]
                        [] m.name = "plain" -> [bytes EXCEPT !.invoice = m.doc]
                        [] OTHER -> bytes
          /\ at' = IF m.name = "plain" THEN Len(File.members) + 1 ELSE at + 1
    /\ UNCHANGED <<pc, mail, chosen, record>>

\* One round of the loop over the names: a later file of a kind replaces an
\* earlier one.
ReadMember ==
    /\ pc = "unpack"
    /\ at <= Len(File.members)
    /\ LET m == File.members[at] IN
          bytes' = CASE m.name = "cdr" -> [bytes EXCEPT !.cdr = m.doc]
                     [] m.name = "plain" -> [bytes EXCEPT !.invoice = m.doc]
                     [] OTHER -> bytes
    /\ at' = at + 1
    /\ UNCHANGED <<pc, mail, chosen, record>>

ParseUnpacked ==
    /\ pc = "unpack"
    /\ at > Len(File.members)
    /\ Extracted(IF bytes.invoice = Nothing THEN Nothing ELSE InvoiceIn(bytes.invoice),
                 IF bytes.cdr = Nothing THEN Nothing ELSE CdrStatus(bytes.cdr))
    /\ UNCHANGED <<mail, chosen, at, bytes>>

Validate ==
    /\ pc = "validate"
    /\ Finish("PROCESSED", record.invoice, record.cdr)
    /\ UNCHANGED <<mail, chosen, at, bytes>>

\* The schema refuses the extract: a document type or a currency it does not
\* know, no From header, a file name without its extension, or an account that
\* is not an address.  The whole message becomes an ERROR row.
RefuseExtract ==
    /\ pc = "validate"
    /\ Finish("ERROR", Nothing, Nothing)
    /\ UNCHANGED <<mail, chosen, at, bytes>>

Next ==
    \/ Choose \/ Refuse \/ ParseXml \/ ParsePdf \/ KeepOther
    \/ OpenZip \/ ReadMember \/ ParseUnpacked \/ Validate \/ RefuseExtract

Spec == Init /\ [][Next]_vars

-----------------------------------------------------------------------------
(* Safety.                                                                 *)

\* The documents of a message that the program has a parser for.
XmlFiles == {mail[i].doc : i \in Of("xml")}
ZipMembers == UNION {{<<mail[i], k>> : k \in DOMAIN mail[i].members} : i \in Of("zip")}
DocumentsNamed(name) == {z[1].members[z[2]].doc : z \in {y \in ZipMembers : y[1].members[y[2]].name = name}}

\* An invoice and its CDR in one ZIP are found, in whatever order they lie among
\* other files: the verdict of SUNAT, and so the alert, is that of the CDR.
ZipPairIsRead ==
    \A invoice \in Invoices, cdr \in Cdrs :
        /\ pc = "done" /\ record.status = "PROCESSED" /\ Of("xml") = {}
        /\ Len(mail) = 1 /\ mail[1].opens
        /\ DocumentsNamed("plain") = {invoice} /\ DocumentsNamed("cdr") = {cdr}
        => /\ record.invoice = invoice
           /\ record.cdr = CASE cdr = "accepted" -> "ACCEPTED"
                             [] cdr = "rejected" -> "REJECTED"
                             [] cdr = "codeless" -> "UNKNOWN"

\* Structured data wins: in a message with an XML or a ZIP file the invoice is one
\* of theirs, where the parser is deterministic (extractor.py:98), and the
\* verdict is that of a CDR among them, ACCEPTED never a default.  What a PDF
\* says counts in other messages only.
StructuredDataWins ==
    pc = "done" /\ Of("xml") \union Of("zip") # {} =>
        /\ record.invoice # Nothing => record.invoice \in XmlFiles \union DocumentsNamed("plain")
        /\ record.cdr = "ACCEPTED" => "accepted" \in DocumentsNamed("cdr")
        /\ record.cdr = "REJECTED" => "rejected" \in DocumentsNamed("cdr")

\* "Sin facturas perdidas" (README.md:3): an invoice that arrives as an XML file
\* or in a ZIP is in the row of the message.
NoInvoiceDropped ==
    pc = "done" /\ record.status = "PROCESSED" =>
        \A d \in Invoices : d \in XmlFiles \union DocumentsNamed("plain") => record.invoice = d

\* "Alerta critica por CDR rechazado por SUNAT" (fiscal_alerts.py:90): a CDR
\* that rejects and comes with the message is not passed over.
RejectionIsSeen ==
    pc = "done" /\ record.status = "PROCESSED" /\ "rejected" \in DocumentsNamed("cdr")
    /\ (\A i \in Of("zip") : mail[i].opens)
    => record.cdr = "REJECTED"
=============================================================================
