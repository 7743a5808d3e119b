\* Two lives of the process, five attempts as in the code.
SPECIFICATION ServiceFairSpec
CONSTANTS
    MaxAttempts = 5
    MaxLives = 2
    MaxCount = 2
INVARIANTS
    SessionsAreClosed
    AtMostOneMore
    EntriesAreSealed
PROPERTIES
    ReadingsGoForward
    StopTerminates
    KeepsPolling
