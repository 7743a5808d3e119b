\* Two dispatchers, two events (one an alert), crashes and failed settlements.
SPECIFICATION Spec
CONSTANTS
    NumEvents = 2
    Dispatchers = {d1, d2}
    AlertEvents = {2}
    BatchLimit = 2
    MaxConcurrent = 2
    MaxRetries = 2
    AdminBatch = 1
    MaxCount = 2
SYMMETRY DispatcherSymmetry
INVARIANTS
    ExclusiveClaim
    ClaimIsCurrent
    DeliveredWasReceived
    RetryBudget
    AlertAnnounced
PROPERTIES
    BuriedOnlyWhenSpent
    Implements
