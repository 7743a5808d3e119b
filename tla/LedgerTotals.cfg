\* The daemon stores a duplicate with its amounts; the ledger may be full.
SPECIFICATION Spec
CONSTANTS
    Dates = {1, 2}
    PageSize = 2
    MaxRows = 2
INVARIANTS
    TotalsCountInvoicesOnce
CHECK_DEADLOCK FALSE
