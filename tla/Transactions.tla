---------------------------- MODULE Transactions ----------------------------
(***************************************************************************)
(* How the processes share the SQLite file.  The "begin" listener of       *)
(* database.py:37-40 opens every SQLAlchemy transaction with BEGIN         *)
(* IMMEDIATE, so a session takes the write lock before it reads, waits for *)
(* it up to the busy timeout, and holds it until it commits or is closed.  *)
(* Sessions then overwrite the rows they have read, by primary key and     *)
(* without looking at them again.                                          *)
(*                                                                         *)
(* Outbox treats each of these transactions as one step; this module is    *)
(* why it may.  Rows are there from the start, tables are smaller than the *)
(* limits of the queries, and a dispatcher process runs one session at a   *)
(* time (its sessions never span an await).                                *)
(***************************************************************************)
CONSTANTS
    Events,       \* outbox rows
    Dispatchers,  \* dispatcher processes: process_batch and its settlements
    Admins,       \* cajaclara-admin processes: replay and replay-all
    Requests,     \* POST /api/v1/dlq/replay and replay-all requests
    Readers,      \* GET requests of the API, and the daemon, which only inserts
    Nobody

Clients == Dispatchers \union Admins \union Requests \union Readers

ASSUME TransactionsAssumption ==
    /\ Nobody \notin Clients
    /\ Dispatchers \intersect (Admins \union Requests \union Readers) = {}
    /\ Admins \intersect (Requests \union Readers) = {}
    /\ Requests \intersect Readers = {}

VARIABLES
    status,  \* OutboxEvent.status
    holder,  \* history: the dispatcher that claimed an event and has not settled it
    lock,    \* the client that holds the write lock, or Nobody
    pc,      \* idle, asking for the lock, begun, or read
    view,    \* view[c]: the rows the open transaction of c is going to overwrite
    answer   \* answer[r]: none, or 500

rows == <<status, holder>>
vars == <<status, holder, lock, pc, view, answer>>

Statuses == {"PENDING", "PROCESSING", "DELIVERED", "DEAD_LETTER"}

TypeOK ==
    /\ status \in [Events -> Statuses]
    /\ holder \in [Events -> Dispatchers \union {Nobody}]
    /\ lock \in Clients \union {Nobody}
    /\ pc \in [Clients -> {"idle", "asking", "begun", "read"}]
    /\ view \in [Clients -> SUBSET Events]
    /\ answer \in [Requests -> {"none", "500"}]

Init ==
    /\ status = [e \in Events |-> "PENDING"]
    /\ holder = [e \in Events |-> Nobody]
    /\ lock = Nobody
    /\ pc = [c \in Clients |-> "idle"]
    /\ view = [c \in Clients |-> {}]
    /\ answer = [r \in Requests |-> "none"]

-----------------------------------------------------------------------------
(* Opening and closing a transaction.                                      *)

Goto(c, step) == pc' = [pc EXCEPT ![c] = step]

\* The first statement of a session makes SQLAlchemy begin.
Ask(c) ==
    /\ pc[c] = "idle"
    /\ c \in Requests => answer[c] = "none"
    /\ Goto(c, "asking")
    /\ UNCHANGED <<rows, lock, view, answer>>

\* Variant: without the listener, SELECT runs before any transaction.
AcquireDeferred(c) ==
    /\ pc[c] = "asking"
    /\ Goto(c, "begun")
    /\ UNCHANGED <<rows, lock, view, answer>>

\* BEGIN IMMEDIATE
Acquire(c) ==
    /\ pc[c] = "asking"
    /\ lock = Nobody
    /\ lock' = c
    /\ Goto(c, "begun")
    /\ UNCHANGED <<rows, view, answer>>

\* Variant: the session is left open.
ReleaseForgotten(c) ==
    /\ Goto(c, "idle")
    /\ view' = [view EXCEPT ![c] = {}]
    /\ UNCHANGED lock

\* Commit, rollback or the end of the session: the lock is free again.
Release(c) ==
    /\ lock' = IF lock = c THEN Nobody ELSE lock
    /\ Goto(c, "idle")
    /\ view' = [view EXCEPT ![c] = {}]

Held(d) == {e \in Events : holder[e] = d}

\* The rows of S get a new status and a new holder, the others stay.
Overwrite(S, newStatus, newHolder) ==
    /\ status' = [e \in Events |-> IF e \in S THEN newStatus ELSE status[e]]
    /\ holder' = [e \in Events |-> IF e \in S THEN newHolder ELSE holder[e]]

Abandon(S) ==
    /\ holder' = [e \in Events |-> IF e \in S THEN Nobody ELSE holder[e]]
    /\ UNCHANGED status

Respond(c) ==
    answer' = [r \in Requests |-> IF r = c THEN "500" ELSE answer[r]]

\* "database is locked" after busy_timeout: the dispatcher logs a failed
\* claim; of a failed settlement gather keeps the exception.
TimeOut(c) ==
    /\ pc[c] = "asking"
    /\ lock # Nobody
    /\ \/ Held(c) = {} /\ UNCHANGED rows
       \/ \E e \in Held(c) : Abandon({e})
    /\ Release(c)
    /\ Respond(c)

\* The process dies; SQLite rolls its transaction back and drops its lock.
Crash(c) ==
    /\ pc[c] # "idle" \/ Held(c) # {}
    /\ Abandon(Held(c))
    /\ Release(c)
    /\ UNCHANGED answer

-----------------------------------------------------------------------------
(* What the sessions do.                                                   *)

Pending == {e \in Events : status[e] = "PENDING"}
DeadLetters == {e \in Events : status[e] = "DEAD_LETTER"}

ReadInto(c, S) ==
    /\ pc[c] = "begun"
    /\ view' = [view EXCEPT ![c] = S]
    /\ Goto(c, "read")
    /\ UNCHANGED <<rows, lock, answer>>

\* process_batch claims when nothing is left to settle.
ReadToClaim(d) == Held(d) = {} /\ Pending # {} /\ ReadInto(d, Pending)

ReadToSettle(d, e) == e \in Held(d) /\ ReadInto(d, {e})

ReadToReplay(a, S) == S # {} /\ S \subseteq DeadLetters /\ ReadInto(a, S)

\* No pending event, no dead letter under the id, or a request that only reads: the
\* session is closed and nothing was written.
EndWithoutWriting(c) ==
    /\ pc[c] = "begun"
    /\ \/ c \in Dispatchers /\ Held(c) = {} /\ Pending = {}
       \/ c \in Admins
       \/ c \in Readers
    /\ Release(c)
    /\ UNCHANGED <<rows, answer>>

\* replay_dlq_event and replay_all_dlq_events execute BEGIN IMMEDIATE in the
\* transaction the listener has begun: SQLite refuses it, FastAPI answers 500
\* and get_db closes the session.
BeginAgain(r) ==
    /\ pc[r] = "begun"
    /\ Release(r)
    /\ Respond(r)
    /\ UNCHANGED rows

CommitClaim(d) ==
    /\ pc[d] = "read"
    /\ Held(d) = {}
    /\ Overwrite(view[d], "PROCESSING", d)
    /\ Release(d)
    /\ UNCHANGED answer

CommitSettlement(d, result) ==
    /\ pc[d] = "read"
    /\ Held(d) # {}
    /\ Overwrite(view[d], result, Nobody)
    /\ Release(d)
    /\ UNCHANGED answer

CommitReplay(a) ==
    /\ pc[a] = "read"
    /\ Overwrite(view[a], "PENDING", Nobody)
    /\ Release(a)
    /\ UNCHANGED answer

-----------------------------------------------------------------------------
(* The system.                                                             *)

Dispatch(d) ==
    \/ ReadToClaim(d)
    \/ \E e \in Events : ReadToSettle(d, e)
    \/ CommitClaim(d)
    \/ \E result \in {"DELIVERED", "DEAD_LETTER", "PENDING"} : CommitSettlement(d, result)

Administer(a) ==
    \/ \E S \in SUBSET Events : ReadToReplay(a, S)
    \/ CommitReplay(a)

Next ==
    \/ \E c \in Clients : Ask(c) \/ Acquire(c) \/ TimeOut(c) \/ Crash(c) \/ EndWithoutWriting(c)
    \/ \E d \in Dispatchers : Dispatch(d)
    \/ \E a \in Admins : Administer(a)
    \/ \E r \in Requests : BeginAgain(r)

Spec == Init /\ [][Next]_vars

\* A client that holds the lock goes on, since no transaction waits for anything
\* else.  Nor does that of the daemon: begin_nested (main.py:105) sends nothing
\* to SQLite, so that its BEGIN comes with the query or the flush behind the
\* parsing of the attachment (main.py:112, 157), and nothing is read after the
\* commit (expire_on_commit=False, database.py:75).
Fairness ==
    /\ \A c \in Clients : WF_vars(EndWithoutWriting(c))
    /\ \A d \in Dispatchers : WF_vars(Dispatch(d))
    /\ \A a \in Admins : WF_vars(Administer(a))
    /\ \A r \in Requests : WF_vars(BeginAgain(r))

FairSpec == Spec /\ Fairness

-----------------------------------------------------------------------------
(* Safety.                                                                 *)

\* Between its SELECT and its COMMIT a transaction works on rows that are
\* still as it read them, although none of its writes looks at them again.
NoStaleWrite ==
    /\ \A d \in Dispatchers : pc[d] = "read" =>
          \/ Held(d) = {} /\ view[d] = Pending
          \/ \E e \in Held(d) : view[d] = {e} /\ status[e] = "PROCESSING"
    /\ \A a \in Admins : pc[a] = "read" => view[a] \subseteq DeadLetters

\* No two transactions are open at the same time.
OneTransaction ==
    \A c \in Clients : pc[c] \in {"begun", "read"} <=> lock = c

HeldIsProcessing == \A e \in Events : holder[e] # Nobody => status[e] = "PROCESSING"

IInv == TypeOK /\ OneTransaction /\ HeldIsProcessing /\ NoStaleWrite

\* The transactions are as good as atomic: claims, settlements and replays
\* look at the rows and change them in one step.
Atomic == INSTANCE AtomicOutbox

Implements == Atomic!AtomicSpec

\* "un escritor + N lectores simultaneos" (README.md:22): while only a request
\* that reads has a transaction open, another one can open its own.
ReadersShare ==
    \A r, s \in Readers : pc[r] = "asking" /\ lock = s => ENABLED Acquire(r)

\* A replay request that gets the lock is carried out (test_api_v1_extensions.py:
\* 228-229 expects 200 for a dead letter).
ReplayIsCarriedOut ==
    [][\A r \in Requests :
          pc[r] = "begun" /\ pc'[r] # "begun" /\ DeadLetters # {} => answer'[r] # "500"]_vars

-----------------------------------------------------------------------------
(* Liveness.                                                               *)

\* Nobody keeps the database: whoever holds the write lock gives it back.
LockIsReleased == \A c \in Clients : lock = c ~> lock # c
=============================================================================
