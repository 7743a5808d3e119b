------------------------------- MODULE Ingest -------------------------------
(***************************************************************************)
(* From the mailbox to the ledger.  Consumers read unseen messages over    *)
(* IMAP and record each of them in invoice_records in one transaction,     *)
(* together with its outbox events; the message is flagged \Seen after the *)
(* commit.  A consumer is the daemon (main.py, process_mailbox) or a       *)
(* worker thread of the mailbox pool (mailbox_pool.py, process_cycle).     *)
(*                                                                         *)
(* Every transaction runs under BEGIN IMMEDIATE (database.py:37-40), so    *)
(* the duplicate check and the insert are one step; the IMAP server is not *)
(* part of it, and a crash may fall between the commit and the flag.       *)
(***************************************************************************)
EXTENDS Integers, FiniteSets

CONSTANTS
    NumMessages,  \* messages that will arrive; their UIDs grow with the number
    Consumers,    \* the daemon and the workers
    Workers,      \* the consumers that are threads of the mailbox pool
    BoxOf,        \* BoxOf[c]: the mailbox that consumer c reads
    Box,          \* Box[m]: the mailbox that message m arrives in
    MsgId,        \* MsgId[m]: its message_id, header or fallback (extractor.py:162)
    Hash,         \* Hash[m]: SHA-256 of the chosen attachment, or NoHash
    NoHash,       \* no attachment was chosen
    Invalid,      \* messages that extract_email_data refuses with an error
    Poison,       \* messages whose transaction always raises, not IntegrityError
    AlertsOf      \* AlertsOf[m]: how many fiscal alerts its invoice raises

Messages == 1..NumMessages

ASSUME IngestAssumption ==
    /\ NumMessages \in Nat
    /\ Workers \subseteq Consumers
    /\ Invalid \subseteq Messages
    /\ Poison \subseteq Messages
    /\ AlertsOf \in [Messages -> Nat]

VARIABLES
    arrived,     \* messages in the mailboxes
    seen,        \* messages flagged \Seen on the server
    row,         \* row[m]: status of the ledger row inserted for m
    outboxRows,  \* outboxRows[m]: outbox events inserted for m
    pc,          \* where each consumer is
    todo,        \* todo[c]: messages of the running fetch not yet handled
    stopping     \* consumers whose shutdown event is set

ledger == <<row, outboxRows>>
vars == <<arrived, seen, row, outboxRows, pc, todo, stopping>>

\* off: not running; waiting: between two cycles; ready: connected, at the
\* head of the loop; ackNew and ackOld: the transaction is over, by a commit
\* or by an IntegrityError, and the message is to be flagged.
ConsumerStates == {"off", "waiting", "ready", "ackNew", "ackOld"}
RowStatuses == {"none", "PROCESSED", "DUPLICATE", "ERROR"}

TypeOK ==
    /\ arrived \subseteq Messages
    /\ seen \subseteq Messages
    /\ row \in [Messages -> RowStatuses]
    /\ outboxRows \in [Messages -> Nat]
    /\ pc \in [Consumers -> ConsumerStates]
    /\ todo \in [Consumers -> SUBSET Messages]
    /\ stopping \subseteq Consumers

Init ==
    /\ arrived = {}
    /\ seen = {}
    /\ row = [m \in Messages |-> "none"]
    /\ outboxRows = [m \in Messages |-> 0]
    /\ pc = [c \in Consumers |-> "off"]
    /\ todo = [c \in Consumers |-> {}]
    /\ stopping = {}

-----------------------------------------------------------------------------
(* The mail server.                                                        *)

Arrive(m) ==
    /\ m \notin arrived
    /\ \A n \in Messages : n < m /\ Box[n] = Box[m] => n \in arrived
    /\ arrived' = arrived \union {m}
    /\ UNCHANGED <<seen, ledger, pc, todo, stopping>>

-----------------------------------------------------------------------------
(* Processes: the pool is one process with all its workers, the daemon is  *)
(* a process of its own.                                                   *)

Processes == {Workers} \union {{c} : c \in Consumers \ Workers}

Start(P) ==
    /\ P # {}
    /\ \A c \in P : pc[c] = "off"
    /\ pc' = [c \in Consumers |-> IF c \in P THEN "waiting" ELSE pc[c]]
    /\ stopping' = stopping \ P
    /\ UNCHANGED <<arrived, seen, ledger, todo>>

\* SIGTERM or SIGINT to the daemon, MailboxPoolOrchestrator.stop for a pool.
Signal(P) ==
    /\ \E c \in P : c \notin stopping /\ pc[c] # "off"
    /\ stopping' = stopping \union P
    /\ UNCHANGED <<arrived, seen, ledger, pc, todo>>

Exit(c) ==
    /\ pc[c] = "waiting"
    /\ c \in stopping
    /\ pc' = [pc EXCEPT ![c] = "off"]
    /\ UNCHANGED <<arrived, seen, ledger, todo, stopping>>

\* kill -9 or a power cut: an open transaction is rolled back by SQLite.
Crash(P) ==
    /\ \E c \in P : pc[c] # "off"
    /\ pc' = [c \in Consumers |-> IF c \in P THEN "off" ELSE pc[c]]
    /\ todo' = [c \in Consumers |-> IF c \in P THEN {} ELSE todo[c]]
    /\ UNCHANGED <<arrived, seen, ledger, stopping>>

-----------------------------------------------------------------------------
(* One cycle of a consumer.                                                *)

\* connect, then SEARCH UNSEEN: the fetch goes through the messages it found.
Connect(c) ==
    /\ pc[c] = "waiting"
    /\ c \notin stopping
    /\ pc' = [pc EXCEPT ![c] = "ready"]
    /\ todo' = [todo EXCEPT ![c] = {m \in arrived \ seen : Box[m] = BoxOf[c]}]
    /\ UNCHANGED <<arrived, seen, ledger, stopping>>

\* The fetch yields the messages by UID.
NextUp(c, m) == m \in todo[c] /\ \A n \in todo[c] : m <= n

\* The loop is left with logout in the finally clause.
Leave(c) ==
    /\ pc' = [pc EXCEPT ![c] = "waiting"]
    /\ todo' = [todo EXCEPT ![c] = {}]

\* The loop goes on with the next message.
Skip(c, m) ==
    /\ pc' = [pc EXCEPT ![c] = "ready"]
    /\ todo' = [todo EXCEPT ![c] = @ \ {m}]

\* The generator is exhausted, or the shutdown event is set and the loop breaks.
EndCycle(c) ==
    /\ pc[c] = "ready"
    /\ todo[c] = {} \/ c \in stopping
    /\ Leave(c)
    /\ UNCHANGED <<arrived, seen, ledger, stopping>>

Handles(c, m) == pc[c] = "ready" /\ c \notin stopping /\ NextUp(c, m)

-----------------------------------------------------------------------------
(* The transaction of one message.                                         *)

Recorded(n) == row[n] # "none"

\* UNIQUE (message_id)
IdTaken(m) == \E n \in Messages : Recorded(n) /\ MsgId[n] = MsgId[m]

\* Variants: the query compares the account too, or refused rows keep a hash.
HashKnownInBox(m) ==
    /\ Hash[m] # NoHash
    /\ \E n \in Messages :
          row[n] \in {"PROCESSED", "DUPLICATE"} /\ Hash[n] = Hash[m] /\ Box[n] = Box[m]

HashKnownAnyStatus(m) ==
    /\ Hash[m] # NoHash
    /\ \E n \in Messages : Recorded(n) /\ Hash[n] = Hash[m]

\* The query on attachment_hash; rows of refused messages have no hash.
HashKnown(m) ==
    /\ Hash[m] # NoHash
    /\ \E n \in Messages : row[n] \in {"PROCESSED", "DUPLICATE"} /\ Hash[n] = Hash[m]

StatusFor(m) ==
    IF m \in Invalid THEN "ERROR" ELSE IF HashKnown(m) THEN "DUPLICATE" ELSE "PROCESSED"

\* Variant: duplicates are announced too.
EventsForDuplicates(m) == IF StatusFor(m) # "ERROR" THEN 1 + AlertsOf[m] ELSE 0

\* invoice.processed and one event per fiscal alert, in the same transaction.
EventsFor(m) == IF StatusFor(m) = "PROCESSED" THEN 1 + AlertsOf[m] ELSE 0

Record(c, m) ==
    /\ Handles(c, m)
    /\ m \notin Poison
    /\ ~ IdTaken(m)
    /\ row' = [row EXCEPT ![m] = StatusFor(m)]
    /\ outboxRows' = [outboxRows EXCEPT ![m] = @ + EventsFor(m)]
    /\ pc' = [pc EXCEPT ![c] = "ackNew"]
    /\ UNCHANGED <<arrived, seen, todo, stopping>>

\* IntegrityError: the row, PROCESSED, DUPLICATE or ERROR, has a message_id
\* that is taken.  A worker that finds the message_id in its query inserts a
\* DUPLICATE row with the same message_id and ends here too.
Reject(c, m) ==
    /\ Handles(c, m)
    /\ m \notin Poison
    /\ IdTaken(m)
    /\ pc' = [pc EXCEPT ![c] = "ackOld"]
    /\ UNCHANGED <<arrived, seen, ledger, todo, stopping>>

\* Variants: the handler flags the message, or ends the cycle of the daemon.
RaiseAndFlag(c, m) ==
    /\ Skip(c, m)
    /\ seen' = seen \union {m}
    /\ UNCHANGED <<arrived, ledger, stopping>>

RaiseEndsCycle(c, m) ==
    /\ m \in todo[c]
    /\ Leave(c)
    /\ UNCHANGED <<arrived, seen, ledger, stopping>>

\* Another exception.  The daemon rolls back and goes on with the next
\* message; a worker gives up the whole cycle.
Raise(c, m) ==
    /\ IF c \in Workers THEN Leave(c) ELSE Skip(c, m)
    /\ UNCHANGED <<arrived, seen, ledger, stopping>>

RaisePoison(c, m) == Handles(c, m) /\ m \in Poison /\ Raise(c, m)

RaiseDatabase(c, m) == Handles(c, m) /\ m \notin Poison /\ Raise(c, m)

-----------------------------------------------------------------------------
(* The flag.                                                               *)

MarkSeen(c, m) ==
    /\ pc[c] \in {"ackNew", "ackOld"}
    /\ NextUp(c, m)
    /\ seen' = seen \union {m}
    /\ Skip(c, m)
    /\ UNCHANGED <<arrived, ledger, stopping>>

\* The IMAP connection fails at the flag.  After a commit the daemon catches
\* the exception and goes on; inside its IntegrityError handler, and in a
\* worker, the exception ends the cycle.
MarkSeenRaises(c, m) ==
    /\ NextUp(c, m)
    /\ \/ pc[c] = "ackNew" /\ Raise(c, m)
       \/ pc[c] = "ackOld" /\ Leave(c) /\ UNCHANGED <<arrived, seen, ledger, stopping>>

\* The connection fails when the next message is fetched.
FetchRaises(c) ==
    /\ pc[c] = "ready"
    /\ todo[c] # {}
    /\ c \notin stopping
    /\ Leave(c)
    /\ UNCHANGED <<arrived, seen, ledger, stopping>>

-----------------------------------------------------------------------------
(* The system.                                                             *)

HandleNext(c) == \E m \in Messages : Record(c, m) \/ Reject(c, m) \/ RaisePoison(c, m)

FlagNext(c) == \E m \in Messages : MarkSeen(c, m)

Healthy ==
    \/ \E m \in Messages : Arrive(m)
    \/ \E P \in Processes : Start(P)
    \/ \E c \in Consumers :
          Exit(c) \/ Connect(c) \/ EndCycle(c) \/ HandleNext(c) \/ FlagNext(c)

Faults ==
    \/ \E P \in Processes : Crash(P)
    \/ \E c \in Consumers : FetchRaises(c)
    \/ \E c \in Consumers, m \in Messages : RaiseDatabase(c, m) \/ MarkSeenRaises(c, m)

Signals == \E P \in Processes : Signal(P)

Next == Healthy \/ Faults \/ Signals

Spec == Init /\ [][Next]_vars

\* Threads and processes get their turn, the loop of a consumer never ends by
\* itself, and the supervisor restarts a process that is down.
Fairness ==
    /\ \A P \in Processes : WF_vars(Start(P))
    /\ \A c \in Consumers :
          /\ WF_vars(Exit(c))
          /\ WF_vars(Connect(c))
          /\ WF_vars(EndCycle(c))
          /\ WF_vars(HandleNext(c))
          /\ WF_vars(FlagNext(c))

-----------------------------------------------------------------------------
(* Safety.                                                                 *)

\* "Si el COMMIT falla, NO marcar SEEN": a message leaves the unseen set only
\* when the ledger holds a row with its message_id, whatever failed in between
\* and whichever consumer handled it (main.py:157-159, mailbox_pool.py:184-189).
SeenIsRecorded ==
    \A m \in seen : \E n \in Messages : Recorded(n) /\ MsgId[n] = MsgId[m]

\* Two consumers that meet the same attachment at the same time, or one that
\* meets it again after a crash, register it as PROCESSED once.
OneProcessedPerInvoice ==
    \A m, n \in Messages :
        row[m] = "PROCESSED" /\ row[n] = "PROCESSED" /\ Hash[m] = Hash[n]
        => m = n \/ Hash[m] = NoHash

\* No dual write: the outbox has the events of an invoice if and only if the
\* ledger has the invoice, and reprocessing a message adds none.
OutboxMatchesLedger ==
    \A m \in Messages :
        outboxRows[m] = IF row[m] = "PROCESSED" THEN 1 + AlertsOf[m] ELSE 0

\* A message refused as DUPLICATE leaves the invoice on the books: some other
\* message with the same attachment is PROCESSED.
DuplicateHasOriginal ==
    \A m \in Messages : row[m] = "DUPLICATE" =>
        \E n \in Messages : row[n] = "PROCESSED" /\ Hash[n] = Hash[m]

\* An invoice is never acknowledged to the mail server without being on the
\* books: "Sin duplicados. Sin perdida." (IMPLEMENTATION_PLAN.md:161).
NoInvoiceLost ==
    \A m \in seen \ Invalid : Recorded(m) \/ \E n \in Messages : Recorded(n) /\ Hash[n] = Hash[m]

-----------------------------------------------------------------------------
(* Why they hold: the conjuncts that make them inductive.                  *)

\* UNIQUE (message_id)
UniqueIds ==
    \A m, n \in Messages : Recorded(m) /\ Recorded(n) /\ MsgId[m] = MsgId[n] => m = n

\* A consumer that is about to flag a message has seen its message_id in the
\* ledger, and rows are never deleted.
AckIsRecorded ==
    \A c \in Consumers, m \in Messages :
        pc[c] \in {"ackNew", "ackOld"} /\ NextUp(c, m) => IdTaken(m)

DuplicatesHaveHashes ==
    \A m \in Messages :
        /\ row[m] = "DUPLICATE" => Hash[m] # NoHash
        /\ row[m] = "ERROR" => m \in Invalid

IInv ==
    /\ TypeOK
    /\ UniqueIds
    /\ AckIsRecorded
    /\ DuplicatesHaveHashes
    /\ SeenIsRecorded
    /\ OneProcessedPerInvoice
    /\ OutboxMatchesLedger
    /\ DuplicateHasOriginal

-----------------------------------------------------------------------------
(* What no step may do.                                                    *)

\* What is on the books stays as it was written: no redelivery, retry or
\* second consumer changes a row or adds events to a recorded message.
LedgerIsAppendOnly ==
    [][\A m \in Messages : Recorded(m) => row'[m] = row[m] /\ outboxRows'[m] = outboxRows[m]]_vars

=============================================================================
