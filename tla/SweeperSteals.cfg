\* The sweeper takes events that a live coroutine still holds.
SPECIFICATION SweeperSpec
CONSTANTS
    NumEvents = 1
    Dispatchers = {d1, d2}
    AlertEvents = {1}
    BatchLimit = 1
    MaxConcurrent = 1
    MaxRetries = 1
    AdminBatch = 1
    MaxCount = 1
PROPERTIES
    SweepsOnlyOrphans
