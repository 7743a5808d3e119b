\* Three events, two to a batch, one permit: the queue behind the semaphore,
\* the rows left for the next batch and the retries of older rows all happen,
\* and one call of the database waits for the write lock, in vain or not.
SPECIFICATION Spec
CONSTANTS
    NumEvents = 3
    AlertEvents = {2}
    BatchLimit = 2
    MaxConcurrent = 1
    MaxRetries = 1
    BaseDelay = 1
    MaxDelay = 3
    RetryAfters = {0, 2, 5}
    PollInterval = 2
    PostLimit = 2
    NotifyLimit = 1
    Tolerance = 3
    BusyTimeout = 2
    MaxStalls = 2
    MaxFailures = 1
INVARIANTS
    WaitIsBounded
    FreshOnArrival
    PauseIsKept
