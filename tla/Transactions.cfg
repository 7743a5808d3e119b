\* Two dispatchers, an administrator, a replay request, a reader and the daemon.
SPECIFICATION FairSpec
CONSTANTS
    Nobody = Nobody
    Events = {e1, e2}
    Dispatchers = {d1, d2}
    Admins = {cli}
    Requests = {replay}
    Readers = {get1, daemon}
INVARIANTS
    NoStaleWrite
PROPERTIES
    Implements
    LockIsReleased
