\* The same with crashes: an event claimed by a process that died stays PROCESSING.
SPECIFICATION FairSpec
CONSTANTS
    NumEvents = 1
    Dispatchers = {d1}
    AlertEvents = {}
    BatchLimit = 1
    MaxConcurrent = 1
    MaxRetries = 1
    AdminBatch = 1
    MaxCount = 1
PROPERTIES
    SettledWhenStable
