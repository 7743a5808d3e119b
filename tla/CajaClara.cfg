\* Daemon, worker, dispatcher, ERP and administrator; one invoice comes into
\* both mailboxes; crashes, failures and shutdowns anywhere.
SPECIFICATION SystemSpec
CONSTANTS
    daemon = daemon
    worker = worker
    boxA = boxA
    boxB = boxB
    noHash = noHash
    NumMessages = 3
    Consumers = {daemon, worker}
    Workers = {worker}
    BoxOf <- MCBoxOf
    Box <- MCBox
    MsgId <- MCMsgId
    Hash <- MCHash
    NoHash = noHash
    Invalid = {}
    Poison = {1}
    AlertsOf <- MCAlerts
    MaxCount = 1
INVARIANT ErpMatchesLedger
PROPERTY EveryInvoiceIsSettled
