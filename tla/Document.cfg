\* One attachment with archives of up to three files in any order, up to three
\* attachments with smaller ones, and an XML with up to two terms of payment in
\* any order; a stored row is the end.
SPECIFICATION DocumentSpec
CONSTANTS
    inv1 = inv1
    inv2 = inv2
    Nothing = Nothing
    Invoices = {inv1, inv2}
    Messages <- MCMessages
    Cases <- MCCases
    Fine = 10
    Garbled = Garbled
    Sums <- MCSums
    Amounts <- MCAmounts
    Rates <- MCRates
    MaxTerms = 2
INVARIANTS
    ZipPairIsRead
    StructuredDataWins
    AlertsAreFair
    AmountAndRateAgree
    DraftsMeetTotal
    RejectionIsReported
CHECK_DEADLOCK FALSE
