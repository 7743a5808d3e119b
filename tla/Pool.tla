-------------------------------- MODULE Pool --------------------------------
(***************************************************************************)
(* The mailbox pool: an orchestrator starts one worker thread per mailbox  *)
(* and stops them through one shared event.  A worker goes round in        *)
(* process_cycle; when a cycle raises it backs off and tries again.  All   *)
(* workers write to one SQLite file, whose write lock (BEGIN IMMEDIATE)    *)
(* they take for the transaction of each message.                          *)
(*                                                                         *)
(* What the transactions record is in Ingest; here the question is who     *)
(* waits for whom.                                                         *)
(***************************************************************************)
EXTENDS Integers

CONSTANTS
    Workers,      \* the configured mailboxes
    AccountOf,    \* MailboxConfig.account_id of each of them
    Flaky,        \* workers whose mail server, or whose call of the language
                  \* model, may fail or never return
    MaxErrors,    \* bound on consecutive_errors, for the model only
    Nobody

ASSUME PoolAssumption ==
    /\ Workers \subseteq DOMAIN AccountOf
    /\ Flaky \subseteq Workers
    /\ Nobody \notin Workers
    /\ MaxErrors \in Nat /\ MaxErrors >= 5

VARIABLES
    pc,        \* where run() and process_cycle of each worker are
    state,     \* MailboxWorker.state
    errors,    \* MailboxWorker.consecutive_errors
    lock,      \* the worker that holds the write lock of the database
    shutdown,  \* the shared shutdown_event
    main,      \* the orchestrator: new, running, joining or returned
    workers,   \* MailboxPoolOrchestrator.workers: the threads it can join
    joined     \* workers that stop() has done with

vars == <<pc, state, errors, lock, shutdown, main, workers, joined>>

\* pc values at which a worker waits for its mail server, or in parsing for the
\* language model that reads a PDF.
Network == {"connecting", "fetching", "parsing", "flagging"}
InCycle == Network \union {"begin", "writing"}
Steps == InCycle \union {"new", "loop", "backoff", "ended"}
States == {"INITIALIZING", "SYNCING", "IDLE", "DEGRADED", "SUSPENDED", "STOPPED"}

TypeOK ==
    /\ pc \in [Workers -> Steps]
    /\ state \in [Workers -> States]
    /\ errors \in [Workers -> Nat]
    /\ lock \in Workers \union {Nobody}
    /\ shutdown \in BOOLEAN
    /\ main \in {"new", "running", "joining", "returned"}
    /\ workers \subseteq Workers
    /\ joined \subseteq Workers

Init ==
    /\ pc = [w \in Workers |-> "new"]
    /\ state = [w \in Workers |-> "INITIALIZING"]
    /\ errors = [w \in Workers |-> 0]
    /\ lock = Nobody
    /\ shutdown = FALSE
    /\ main = "new"
    /\ workers = {}
    /\ joined = {}

-----------------------------------------------------------------------------
(* One worker.                                                             *)

Goto(w, step) == pc' = [pc EXCEPT ![w] = step]

Become(w, s) == state' = [state EXCEPT ![w] = s]

BeginCycle(w) ==
    /\ pc[w] = "loop"
    /\ ~ shutdown
    /\ Goto(w, "connecting")
    /\ UNCHANGED <<state, errors, lock, shutdown, main, workers, joined>>

Connect(w) ==
    /\ pc[w] = "connecting"
    /\ Become(w, "SYNCING")
    /\ Goto(w, "fetching")
    /\ UNCHANGED <<errors, lock, shutdown, main, workers, joined>>

Fetch(w) ==
    /\ pc[w] = "fetching"
    /\ ~ shutdown
    /\ Goto(w, "parsing")
    /\ UNCHANGED <<state, errors, lock, shutdown, main, workers, joined>>

\* The message is parsed in memory; whatever fails in it becomes an ERROR row,
\* and its session asks for the lock.
Parse(w) ==
    /\ pc[w] = "parsing"
    /\ Goto(w, "begin")
    /\ UNCHANGED <<state, errors, lock, shutdown, main, workers, joined>>

\* The mailbox is exhausted, or the event is set; back in run the errors
\* are forgotten.
EndCycle(w) ==
    /\ pc[w] = "fetching"
    /\ Become(w, "IDLE")
    /\ errors' = [errors EXCEPT ![w] = 0]
    /\ Goto(w, "loop")
    /\ UNCHANGED <<lock, shutdown, main, workers, joined>>

\* BEGIN IMMEDIATE, at the first statement of the session.
Begin(w) ==
    /\ pc[w] = "begin"
    /\ lock = Nobody
    /\ lock' = w
    /\ Goto(w, "writing")
    /\ UNCHANGED <<state, errors, shutdown, main, workers, joined>>

\* Variant: the message is flagged before the session is closed.
CommitLater(w) ==
    /\ pc[w] = "writing"
    /\ Goto(w, "flagging")
    /\ UNCHANGED <<state, errors, lock, shutdown, main, workers, joined>>

\* COMMIT, or ROLLBACK after an IntegrityError: then the message is flagged.
Commit(w) ==
    /\ pc[w] = "writing"
    /\ lock' = Nobody
    /\ Goto(w, "flagging")
    /\ UNCHANGED <<state, errors, shutdown, main, workers, joined>>

Flag(w) ==
    /\ pc[w] = "flagging"
    /\ Goto(w, "fetching")
    /\ UNCHANGED <<state, errors, lock, shutdown, main, workers, joined>>

\* Variant: an exception that run does not catch ends the thread.
RaiseUncaught(w) ==
    /\ lock' = IF lock = w THEN Nobody ELSE lock
    /\ Goto(w, "ended")
    /\ UNCHANGED <<state, errors, shutdown, main, workers, joined>>

\* An exception leaves process_cycle: the session is closed, the client logs
\* out, and run counts the error, from the fifth on as SUSPENDED, and waits.
Raise(w) ==
    /\ lock' = IF lock = w THEN Nobody ELSE lock
    /\ errors' = [errors EXCEPT ![w] = IF @ < MaxErrors THEN @ + 1 ELSE @]
    /\ Become(w, IF errors[w] + 1 < 5 THEN "DEGRADED" ELSE "SUSPENDED")
    /\ Goto(w, "backoff")
    /\ UNCHANGED <<shutdown, main, workers, joined>>

\* The mail server refuses or fails, the message cannot be read or stored, or the
\* database stays locked for longer than busy_timeout.
NetworkFails(w) == pc[w] \in Network \ {"parsing"} /\ Raise(w)
MessageFails(w) == pc[w] \in {"fetching", "writing"} /\ Raise(w)
LockTimesOut(w) == pc[w] = "begin" /\ lock # Nobody /\ Raise(w)

\* Variant: a SUSPENDED worker, or one that is stopped, never wakes up.
BackoffForever(w) ==
    /\ pc[w] = "backoff"
    /\ errors[w] < 5
    /\ ~ shutdown
    /\ Goto(w, "loop")
    /\ UNCHANGED <<state, errors, lock, shutdown, main, workers, joined>>

\* The wait ends with its time or with the event.
Backoff(w) ==
    /\ pc[w] = "backoff"
    /\ Goto(w, "loop")
    /\ UNCHANGED <<state, errors, lock, shutdown, main, workers, joined>>

\* run leaves its loop and cleans up.
End(w) ==
    /\ pc[w] = "loop"
    /\ shutdown
    /\ Become(w, "STOPPED")
    /\ Goto(w, "ended")
    /\ UNCHANGED <<errors, lock, shutdown, main, workers, joined>>

-----------------------------------------------------------------------------
(* The orchestrator.                                                       *)

\* start() starts the threads one after the other and keeps them in a dict by
\* account_id: of two with the same one it keeps the second.
StartWorker(w) ==
    /\ main = "new"
    /\ pc[w] = "new"
    /\ Goto(w, "loop")
    /\ workers' = {v \in workers : AccountOf[v] # AccountOf[w]} \union {w}
    /\ UNCHANGED <<state, errors, lock, shutdown, main, joined>>

Started ==
    /\ main = "new"
    /\ \A w \in Workers : pc[w] # "new"
    /\ main' = "running"
    /\ UNCHANGED <<pc, state, errors, lock, shutdown, workers, joined>>

Stop ==
    /\ main = "running"
    /\ shutdown' = TRUE
    /\ main' = "joining"
    /\ UNCHANGED <<pc, state, errors, lock, workers, joined>>

\* worker.join(timeout=10): it returns when the thread has ended, or when ten
\* seconds are over, which one connect() or one busy database may well take.
Join(w) ==
    /\ main = "joining"
    /\ w \in workers \ joined
    /\ pc[w] \in Network \union {"ended", "begin"}
    /\ joined' = joined \union {w}
    /\ UNCHANGED <<pc, state, errors, lock, shutdown, main, workers>>

Return ==
    /\ main = "joining"
    /\ joined = workers
    /\ main' = "returned"
    /\ UNCHANGED <<pc, state, errors, lock, shutdown, workers, joined>>

-----------------------------------------------------------------------------
(* The pool.                                                               *)

\* What a worker does without help from its mail server.
Local(w) == BeginCycle(w) \/ Begin(w) \/ Commit(w) \/ Backoff(w) \/ End(w)

\* Its mail server, or the language model, answers.
Answered(w) == Connect(w) \/ Fetch(w) \/ Parse(w) \/ EndCycle(w) \/ Flag(w)

Orchestrate ==
    \/ \E w \in Workers : StartWorker(w) \/ Join(w)
    \/ Started \/ Return

Next ==
    \/ Orchestrate
    \/ Stop
    \/ \E w \in Workers : Local(w) \/ Answered(w) \/ MessageFails(w) \/ LockTimesOut(w)
    \/ \E w \in Flaky : NetworkFails(w)

Spec == Init /\ [][Next]_vars

\* Threads are scheduled and transactions end; the server of a worker that is
\* not flaky answers, and its fetch goes through the messages of one SEARCH.
\* SQLite gives the lock to whoever keeps asking for it.
Fairness ==
    /\ WF_vars(Orchestrate)
    /\ \A w \in Workers : WF_vars(Local(w)) /\ SF_vars(Begin(w))
    /\ \A w \in Workers \ Flaky :
          /\ WF_vars(Answered(w))
          /\ SF_vars(EndCycle(w))

\* A flaky mailbox may leave its worker without an answer for good.
FairSpec == Spec /\ Fairness

-----------------------------------------------------------------------------
(* Safety.                                                                 *)

\* "Red y Parseo en Memoria (CERO LOCK DE BD)" (mailbox_pool.py:113): a worker
\* that waits for its mail server or the language model, or that backs off, holds
\* no lock, so that it cannot keep the others from the database.
NoLockOnNetwork == \A w \in Workers : lock = w <=> pc[w] = "writing"

\* The reported state tells an operator the truth about the thread: STOPPED
\* only after the end, SYNCING only in a cycle, SUSPENDED only after a row
\* of failures that no successful cycle has interrupted.
StatusIsTrue ==
    \A w \in Workers :
        /\ state[w] = "STOPPED" <=> pc[w] = "ended"
        /\ state[w] = "SYNCING" => pc[w] \in InCycle
        /\ state[w] = "SUSPENDED" => errors[w] >= 5

\* "Senaliza apagado ordenado a todos los workers y espera su finalizacion"
\* (mailbox_pool.py:249).
StopWaits == main = "returned" => \A w \in Workers : pc[w] = "ended"

-----------------------------------------------------------------------------
(* Liveness.                                                               *)

\* "Aislamiento estricto de fallos (N-1 Inmunes)" (mailbox_pool.py:3): a worker
\* that from some moment on fails no more, even if it has been SUSPENDED by then,
\* completes cycles for ever, while the servers of others fail, or hang in the
\* middle of a message.
HealthyWorkersGoOn ==
    \A w \in Workers \ Flaky :
        <>[][pc'[w] = "backoff" => pc[w] = "backoff"]_vars
            => []<>(pc[w] = "loop" /\ state[w] = "IDLE") \/ <>shutdown

\* stop() ends every thread, even those that it no longer waits for, except one
\* whose server never answers again.
StopEndsWorkers ==
    \A w \in Workers :
        (w \in Flaky /\ <>[](pc[w] \in Network)) \/ (shutdown ~> pc[w] = "ended")
=============================================================================
