\* status.json is the same whatever happened.
SPECIFICATION Spec
CONSTANT MaxAttempts = 5
INVARIANT StatusIsTrue
