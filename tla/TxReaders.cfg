\* Two GET requests.
SPECIFICATION Spec
CONSTANTS
    Nobody = Nobody
    Events = {e1, e2}
    Dispatchers = {d1}
    Admins = {cli}
    Requests = {}
    Readers = {get1, get2}
INVARIANTS
    ReadersShare
