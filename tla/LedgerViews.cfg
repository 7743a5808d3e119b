\* Three lists, two dates, pages of two rows, up to four rows; the ledger may be full.
SPECIFICATION Spec
CONSTANTS
    Dates = {1, 2}
    PageSize = 2
    MaxRows = 4
INVARIANTS
    WalkSeesEverything
CHECK_DEADLOCK FALSE
