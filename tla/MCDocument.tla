----------------------------- MODULE MCDocument -----------------------------
(***************************************************************************)
(* Messages for TLC: XML files, PDFs and images, and every ZIP of up to    *)
(* three files drawn from a few; and one XML with amounts around the       *)
(* tolerance, in tenths of a cent.  1 % of 10.50 is 10.5 cents, which the  *)
(* even cent makes 10: the declared amounts lie five and six cents around  *)
(* 10, or a tenth further, or are the whole invoice.  1.506 less 0.154 are *)
(* 1.352, and the three, rounded, miss each other by a cent.  In the sums  *)
(* of 0.050, the items go up and what is paid goes down: two cents.        *)
(***************************************************************************)
EXTENDS Document

CONSTANTS inv1, inv2

Sum(total, subtotal, tax) == [total |-> total, subtotal |-> subtotal, tax |-> tax]

MCSums ==
    {Sum(10500, 8898, 1602), Sum(1506, 1276, 230), Sum(50, 15, 35), Sum(0, 0, 0),
     Sum(10500, Nothing, Nothing), Sum(Nothing, 8898, Nothing)}

MCAmounts == {0, 25, 40, 49, 50, 150, 151, 154, 160, 1506}
MCRates == {1000}

-----------------------------------------------------------------------------
File1(ext, doc) ==
    [ext |-> ext, fits |-> TRUE, opens |-> TRUE, doc |-> doc, members |-> << >>]

MCMembers ==
    {[name |-> "plain", doc |-> inv1], [name |-> "cdr", doc |-> "accepted"],
     [name |-> "cdr", doc |-> "rejected"], [name |-> "cdr", doc |-> "codeless"],
     [name |-> "plain", doc |-> inv2], [name |-> "skipped", doc |-> "broken"]}

MCZips ==
    {[File1("zip", "broken") EXCEPT !.members = ms] :
        ms \in UNION {[1..n -> MCMembers] : n \in 0..3}}

MCOthers ==
    {File1("xml", inv1), File1("xml", "rejected"), File1("pdf", inv1), File1("pdf", inv2),
     File1("other", "broken"), [File1("xml", inv2) EXCEPT !.fits = FALSE],
     [File1("zip", "broken") EXCEPT !.opens = FALSE]}

\* One attachment of any kind.
MCSingles == {<<f>> : f \in MCZips \union MCOthers}

\* Up to three attachments, the archives among them with one file at most.
MCFewAttachments == MCOthers \union {z \in MCZips : Len(z.members) <= 1}

MCMessages == MCSingles \union UNION {[1..n -> MCFewAttachments] : n \in 0..3}

-----------------------------------------------------------------------------
\* Any message whose document has no terms; and one XML with one term of any kind,
\* or with several that declare 15 cents, a tenth more, nothing or no number.
MCTermsOfFew == {t \in Fiscal!Term : t.amount \in {150, 151, Nothing, Garbled}}

OfXml(sums, termLists) ==
    {[mail |-> <<File1("xml", inv1)>>, sums |-> s, terms |-> ts] : s \in sums, ts \in termLists}

MCCases ==
    {[mail |-> m, sums |-> Sum(10500, 8898, 1602), terms |-> << >>] : m \in MCMessages}
        \union OfXml(MCSums, [1..1 -> Fiscal!Term])
        \union OfXml({Sum(10500, 8898, 1602)}, [1..MaxTerms -> MCTermsOfFew])
=============================================================================
