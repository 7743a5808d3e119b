\* Two dispatchers that may die, with a sweeper run again and again and without.
SPECIFICATION FairSweeperSpec
CONSTANTS
    NumEvents = 1
    Dispatchers = {d1, d2}
    AlertEvents = {1}
    BatchLimit = 1
    MaxConcurrent = 1
    MaxRetries = 1
    AdminBatch = 1
    MaxCount = 1
INVARIANTS
    OwnedWithoutFaults
PROPERTIES
    SettledAfterFaults
    SettledUnlessOrphaned
