\* A healthy mailbox, and one configured with the same account_id whose server
\* fails or hangs for ever; six errors in a row; the pool may have stopped.
SPECIFICATION FairSpec
CONSTANTS
    healthy = healthy
    twin = twin
    flaky = flaky
    Nobody = Nobody
    Workers = {healthy, twin}
    AccountOf <- MCAccountOf
    Flaky = {twin}
    MaxErrors = 6
INVARIANTS
    NoLockOnNetwork
    StatusIsTrue
PROPERTIES
    HealthyWorkersGoOn
    StopEndsWorkers
CHECK_DEADLOCK FALSE
