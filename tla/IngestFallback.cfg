\* Two mailboxes of the pool whose first messages have no Message-ID header.
SPECIFICATION FairCalmSpec
CONSTANTS
    daemon = daemon
    w1 = w1
    w2 = w2
    boxA = boxA
    boxB = boxB
    noHash = noHash
    NumMessages = 2
    Consumers = {w1, w2}
    Workers = {w1, w2}
    BoxOf <- MCPoolBoxOf
    Box <- MCFallbackBox
    MsgId <- MCFallbackId
    Hash <- MCTwoHashes
    NoHash = noHash
    Invalid = {}
    Poison = {}
    AlertsOf <- MCNoAlerts
INVARIANTS
    NoInvoiceLost
