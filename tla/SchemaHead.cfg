\* A database that alembic upgrade head has made, and a daemon on it.
SPECIFICATION ServiceSpec
CONSTANTS
    MaxAttempts = 5
    MaxLives = 1
    MaxCount = 0
INVARIANTS
    RunsOnItsModels
