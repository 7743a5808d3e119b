\* A daemon whose cycle went well polls.
SPECIFICATION Spec
CONSTANT MaxAttempts = 5
INVARIANT IdleAfterSuccess
