\* A message with an invoice and, beside it, the CDR that rejects it.
SPECIFICATION DocumentSpec
CONSTANTS
    inv1 = inv1
    inv2 = inv2
    Nothing = Nothing
    Invoices = {inv1, inv2}
    Messages <- MCMessages
    Cases <- MCCases
    Fine = 10
    Garbled = Garbled
    Sums <- MCSums
    Amounts <- MCAmounts
    Rates <- MCRates
    MaxTerms = 1
INVARIANT RejectionIsSeen
CHECK_DEADLOCK FALSE
