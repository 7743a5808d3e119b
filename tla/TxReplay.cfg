\* A replay request of the API.
SPECIFICATION Spec
CONSTANTS
    Nobody = Nobody
    Events = {e1, e2}
    Dispatchers = {d1}
    Admins = {}
    Requests = {replay}
    Readers = {}
PROPERTIES
    ReplayIsCarriedOut
