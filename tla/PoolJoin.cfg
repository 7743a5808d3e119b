\* stop() may return before the workers have ended; the pool may have stopped.
SPECIFICATION Spec
CONSTANTS
    healthy = healthy
    twin = twin
    flaky = flaky
    Nobody = Nobody
    Workers = {healthy, flaky}
    AccountOf <- MCAccountOf
    Flaky = {flaky}
    MaxErrors = 6
INVARIANT StopWaits
CHECK_DEADLOCK FALSE
