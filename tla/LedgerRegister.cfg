\* A duplicate has a line of its own in the SIRE register; the ledger may be full.
SPECIFICATION Spec
CONSTANTS
    Dates = {1, 2}
    PageSize = 2
    MaxRows = 2
INVARIANTS
    RegisterListsInvoicesOnce
CHECK_DEADLOCK FALSE
