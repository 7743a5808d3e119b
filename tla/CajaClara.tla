------------------------------ MODULE CajaClara ------------------------------
(***************************************************************************)
(* The whole way of an invoice: from a mailbox through the ledger to the   *)
(* ERP.  IngestCalm records messages and their events, in one transaction; *)
(* what becomes of the events is OutboxAbs, which Outbox implements.       *)
(***************************************************************************)
EXTENDS IngestCalm

CONSTANT MaxCount  \* receptions are counted up to here, for the model only

ASSUME SystemAssumption == MaxCount \in Nat

VARIABLES
    phase, received,  \* those of OutboxAbs
    orphaned          \* events whose row stays PROCESSING and has no coroutine

\* The events that message m can have: invoice.processed and its alerts.
EventsOf(m) == {m} \X (1..(1 + AlertsOf[m]))
Slots == UNION {EventsOf(m) : m \in Messages}

Queue == INSTANCE OutboxAbs WITH Events <- Slots

systemVars == <<calmVars, phase, received, orphaned>>

SystemInit == CalmInit /\ Queue!AbsInit /\ orphaned = {}

-----------------------------------------------------------------------------
\* The rows of outbox_events that the transaction of a message inserts.
QueuedWithRow == {e \in Slots : e[2] <= outboxRows'[e[1]]}

\* A consumer, the mail server or the supervisor takes a step, and the events
\* that it has inserted are PENDING.
Ingesting ==
    /\ CalmNext
    /\ Queue!Move({e \in QueuedWithRow : phase[e] = "absent"}, "absent", "queued")
    /\ UNCHANGED <<received, orphaned>>

\* A dispatcher settles an event of the queue.
Settle(e) ==
    /\ e \notin orphaned
    /\ Queue!Deliver(e) \/ Queue!GiveUp(e)
    /\ UNCHANGED <<calmVars, orphaned>>

\* A dispatcher dies between the claim of an event and its settlement, or the
\* settlement raises: no query of the running system selects the row again.
Orphan(e) ==
    /\ ~ calm
    /\ phase[e] = "queued"
    /\ orphaned' = orphaned \union {e}
    /\ UNCHANGED <<calmVars, phase, received>>

Dispatching == \E e \in Slots : Queue!Receive(e) /\ UNCHANGED <<calmVars, orphaned>>

\* An administrator replays dead letters, and goes home when the trouble is over.
Replaying ==
    /\ ~ calm
    /\ \E S \in SUBSET Slots : S # {} /\ Queue!Requeue(S)
    /\ UNCHANGED <<calmVars, orphaned>>

SystemNext ==
    \/ Ingesting \/ Dispatching \/ Replaying
    \/ \E e \in Slots : Settle(e) \/ Orphan(e)

\* A queued event that no fault orphans is settled in the end, by delivery if the
\* ERP has taken it, else by giving up: SettledUnlessOrphaned shows it of the
\* dispatchers of Outbox.  No fairness is asked of the ERP.
SystemSpec ==
    /\ SystemInit /\ [][SystemNext]_systemVars
    /\ Fairness
    /\ \A e \in Slots : WF_systemVars(Settle(e))

-----------------------------------------------------------------------------
Heard(e) == received[e] > 0

\* The ERP hears of what is on the books, and of each invoice under one message:
\* two mailboxes that get the same attachment, crashes between the commit and
\* the flag, messages that come again and replays make no second invoice of it.
ErpMatchesLedger ==
    /\ \A e \in Slots : Heard(e) => row[e[1]] = "PROCESSED"
    /\ \A m, n \in Messages :
          m # n /\ Hash[m] = Hash[n] /\ Hash[m] # NoHash
          => ~ (Heard(<<m, 1>>) /\ Heard(<<n, 1>>))

\* "Sin facturas perdidas" (README.md:3), end to end and as far as it is true: once
\* the trouble has ended, an invoice that a consumer reaches and whose message_id
\* is its own gets to the ERP, or to the dead letters that an administrator sees,
\* under this message or under the one it is a duplicate of, unless a fault of
\* the past has orphaned its event (dispatcher.py:88-98).
EveryInvoiceIsSettled ==
    \A m \in Messages \ (Poison \union Invalid) :
        /\ \E c \in Consumers : Reaches(c, m)
        /\ \A n \in Messages \ {m} : MsgId[n] # MsgId[m]
        => (calm /\ m \in arrived ~>
               \E n \in Messages :
                   /\ n = m \/ (Hash[n] = Hash[m] /\ Hash[m] # NoHash)
                   /\ phase[<<n, 1>>] \in {"delivered", "dead"} \/ <<n, 1>> \in orphaned)
=============================================================================
