\* Daemon and pool over two mailboxes: repeated attachment, repeated message_id,
\* a message that always raises, a refused one; crashes, failures and shutdowns
\* anywhere, which may or may not end.
SPECIFICATION FairCalmSpec
CONSTANTS
    daemon = daemon
    w1 = w1
    w2 = w2
    boxA = boxA
    boxB = boxB
    noHash = noHash
    NumMessages = 4
    Consumers = {daemon, w1, w2}
    Workers = {w1, w2}
    BoxOf <- MCBoxOf
    Box <- MCBox
    MsgId <- MCMsgId
    Hash <- MCHash
    NoHash = noHash
    Invalid = {3}
    Poison = {2}
    AlertsOf <- MCAlerts
INVARIANTS
    SeenIsRecorded
    OneProcessedPerInvoice
    OutboxMatchesLedger
    DuplicateHasOriginal
PROPERTIES
    HandledWhenCalm
