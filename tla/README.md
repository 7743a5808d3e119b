# CajaClara: specifications, model checking and proofs

CajaClara reads invoices from IMAP mailboxes, records them in an SQLite ledger
and announces them to an ERP through a transactional outbox. This directory
holds TLA+ modules that model its processes, the TLC configurations that check
them and TLAPS proofs of the safety properties of its core. File names without
a directory (`dispatcher.py`, `main.py`) are those of `src/caja_clara/`.

## 1. Inventory

### Components, their state and their operations

| Component (code) | State | Operations | Correct when |
| --- | --- | --- | --- |
| Outbox dispatcher (`dispatcher.py`) | `outbox_events`: status, retry_count, next_retry_at; one coroutine per claimed row | `process_batch` claims up to 25 due rows and posts them, 5 at a time; `_dispatch_event` posts, announces alerts, settles; `run_forever`, SIGTERM | one owner per claimed row; DELIVERED only if the ERP accepted; bounded retries; no row stuck; pauses kept, waits bounded |
| Stuck-row recovery (`recover_stuck_events`) | the same rows | PROCESSING rows of old events back to PENDING | takes only rows of dead processes |
| Webhook signatures (`crypto.py`) | none | timestamp and HMAC at the sender, window of 300 s at the receiver | a signature is fresh when it arrives |
| Operations console (`cli_admin.py`) | the same rows | list, replay, replay-all in transactions of 100 | touches dead letters only |
| Database sessions (`database.py`) | the one SQLite file and its write lock | BEGIN IMMEDIATE by an event listener, busy_timeout 30 s, triggers, schema check | transactions as good as atomic, lock given back, rows sealed |
| Migrations (`alembic/`) | schema and revision | two revisions | the schema is that of the models |
| Ingestion (`main.py` `process_mailbox`, `mailbox_pool.py` `process_cycle`) | `invoice_records`, `outbox_events`, `\Seen` on the server | per message: duplicate check, row, events, commit, flag | flagged means recorded; an attachment is booked once; ledger, outbox and ERP agree |
| Daemon (`main.py`, `imap_client.py`) | IMAP connection, shutdown event, `status.json` | boot, connect (5 attempts), cycle, IDLE or poll, signal | sessions closed, stops when told, keeps polling |
| Status file and its readers (`main.py`, `cli_monitor.py`, `api.py`) | `status.json` and its temporary file | replace, read | a reading is whole and never goes back |
| Mailbox pool (`mailbox_pool.py`) | per worker: state, consecutive_errors; dict of threads, shutdown event | start, cycle, backoff, stop with join(10) | mailboxes do not disturb each other; states tell the truth |
| Extraction (`extractor.py`, `parsers/`) | none between messages | choose an attachment, unpack, parse, validate | the row says what the message says |
| Fiscal alerts (`fiscal_alerts.py`, `xml_parser.py`) | none between messages | detraction terms, net payable, SPOT comparison, verdict | accuses within the tolerance only |
| ERP adapters (`erp_adapters.py`) | none | drafts for Odoo, SAP Business One, Siigo | payment and retention meet the total |
| Reports (`reports.py`) | none | SIRE register, CSV | lists what is booked |
| Lists of the API and the console (`api.py`, `cli_admin.py`, `fiscal-ledger-table.tsx`) | page of the reader | ledger, invoices, dead letters by LIMIT/OFFSET; aggregates | a walk over the pages skips nothing |
| Replay API (`api.py`) | outbox rows | two POST endpoints | as the console |
| Not modelled: metrics and health endpoints, configuration, logging, dashboard, deployment | | | see section 7 |

### How they interact

* **One SQLite file.** Daemon, pool, dispatchers, console and API are separate
  processes (or threads); each session takes the single write lock first.
* **The outbox table.** Ingestion inserts PENDING rows in the transaction of the
  ledger row, dispatchers claim and settle them, console and API reopen dead letters.
* **The webhook.** HTTP POST with client timeouts of 10 s (5 s to connect). A
  request may reach the ERP after the client has given up.
* **The IMAP server.** The `\Seen` flag is set after the commit and is not part
  of any transaction.
* **The language model.** `parsers/pdf_parser.py` calls it while a message is parsed,
  without a timeout. Neither the daemon nor a worker has the write lock meanwhile:
  `begin_nested` (`main.py:105`) sends nothing to SQLite, and BEGIN comes with the
  query or the flush behind the parsing (`main.py:112`, `157`).
* **Signals and supervisors.** SIGTERM sets an event; systemd
  (`Restart=on-failure`) and Docker (`unless-stopped`) start what died.

### What is hard here

Crashes between claim and settlement, and between commit and flag; dispatchers,
console and API acting on the same rows while a coroutine awaits its POST; late and
repeated requests; failed settlements that nobody reports
(`gather(return_exceptions=True)`); synchronous calls of the database that stop the
event loop while another process has the lock; pauses, retries and batches that
compete for the same loop; two consumers meeting the same attachment; a message that
always raises; a language model that never answers; signals in the middle of waits;
a file read while it is written; rows arriving and leaving between two pages;
documents in any order in an archive. `PROJECT.json` lists these hazards with the
line where each bites and the property that watches it, or why none does.

## 2. Modules

```
OutboxAbs <-- refined by -- Outbox --> OutboxSweeper --> OutboxProofs
    |                         |  +--> MCOutbox
    |                     OutboxTiming --> OutboxTimingProofs
    |                         (the same dispatcher against a clock)
    +--- instance in ---+
Ingest --> IngestCalm --> CajaClara --> MCCajaClara, CajaClaraProofs
               +--> MCIngest
AtomicOutbox <-- refined by -- Transactions --> TransactionsProofs
Daemon --> Service --> ServiceProofs
Pool --> MCPool, PoolProofs
LedgerViews --> LedgerViewsProofs
Extraction --> Document --> MCDocument, DocumentProofs
                  +-- instances of FiscalAlerts and ErpAdapters
```

**OutboxAbs** is what the outbox promises the ERP: publish, receive any number
of times, deliver only what was received, give up, requeue by hand.

**Outbox** has one action per step between two points where something else may
run. `Claim` is the first transaction of `process_batch`; `SendPost`,
`ErpAnswers`, `PostReturns` / `PostRaises` and `Notify` are the stretches of
`_dispatch_event` between its awaits; `Settle` and `SettleRaises` are its last
transaction, committed or failed. `pc[d][e]` is the position of the coroutine,
`claimed[d][e]` the retry_count it read at the claim, `late` the requests whose
client gave up. `Signal`, `Exit`, `Crash`, `Start` are the process;
`ReplayOutboxEvent` and `ReplayDeadLetters` the console. `attempts`, `received`
and `alerted` are history.

**OutboxSweeper** adds `recover_stuck_events`. No caller exists outside the
tests, so `swept` and `faulty`, chosen at the start, say whether anything calls it
and whether anything crashes: the behaviours without sweeps are the deployed system.

**OutboxTiming** is one dispatcher that stays up, with every wait a timer that
`Tick` counts down: the pause of `run_forever`, the requests, next_retry_at. A
second passes only when the event loop has nothing to do at once (`Urgent`). The
calls of the database are synchronous: while a claim or a settlement waits for the
write lock of another process, up to `BusyTimeout`, the event loop stands still.
`LockTick` is such a second; `patience` is what is left of the wait, after which
the call gets the lock, or raises (`PollFails`, `SettleFails`, which may also raise
at once). A settlement that raises orphans its row. No request is sent, times out
or is read meanwhile, but its signature ages: `stalled` counts these seconds. `late`
are rows that came due after the waiting poll has read its clock.
`Delay` is the backoff of `dispatcher.py:194` with Retry-After, cap and jitter.

**AtomicOutbox / Transactions.** `Outbox` treats every transaction as one step.
`Transactions` opens it up: ask for the lock, get it or time out, read, overwrite
by primary key, commit; crash or close anywhere. It implements `AtomicOutbox`.
The daemon is one of the clients that only insert or read.

**Ingest** covers the daemon and the workers together. `Record` is the
transaction of a message (duplicate query, ledger row, outbox events, commit),
`Reject` the IntegrityError path, `MarkSeen` the flag, and `RaiseDatabase`,
`RaisePoison`, `MarkSeenRaises`, `FetchRaises`, `Crash` what can fail: the daemon
goes on with the next message, a worker leaves its cycle. **IngestCalm** adds the
moment from which nothing fails any more.

**CajaClara** composes the two halves. A step of `IngestCalm` that inserts rows
publishes their events in the `OutboxAbs` it instantiates, whose events are pairs
of a message and a number. `Outbox` implements `OutboxAbs`, so that what holds
here of the queue holds of the dispatchers. `Orphan` is a crash between claim and
settlement, or a settlement that raises: the event stays queued and nobody settles
it. Faults, orphans and replays end with `calm`.

**Daemon** is `main()` around one `IMAPClient`: the attempts of tenacity, the
finally clause of `process_mailbox`, the three ways to wait. A message is taken
either straight to `handling` or, when it holds a PDF and there is a key, to
`asking`, which `ModelReturns` ends and nothing forces to end. Of the connections
only the one that `_mailbox` names is tracked. **Service** puts it
between its database and its status file: `Upgrade` applies a revision;
`StartProcess`, `CheckIntegrity`, `CheckSchema`, `CreateTriggers` and `BootChecked`
(the commit) are the steps of a start and `StartFails` ends it at any of them;
`OpenTemporary` and `ReplaceStatus` are
`write_status_file` with everything that can come in between, `Read` is
`get_status_data` in a monitor or in the API.

**Pool** is `MailboxWorker.run` and the orchestrator with the shared write lock; the
dict `workers` keeps one thread per account_id. `MailboxPoolOrchestrator` is
exercised by the tests only; it is modelled as written.

**LedgerViews** is a reader of one of three lists, going from page to page while
rows arrive and dead letters are replayed.

**Extraction** goes from the attachments to the row; a CDR sent as a plain XML is
read as an invoice and its ID taken for an invoice number. **FiscalAlerts** goes
from the PaymentTerms to payload and alerts. `schemas.py` sets no limit to the
decimals of an amount, so that an amount is an integer that counts cents / `Fine`,
and a rate one that counts hundredths of a percent / `Fine`; `HalfEven` is the
rounding of quantize and of the format .2f, `Garbled` an Amount that is no number.
**ErpAdapters** goes from the payload to the amounts that the drafts really hold:
lines, taxes, retention and payment, and a total only for Odoo. **Document** runs
one message through all three.

Definitions commented "Variant" are near misses of the definition after them. A
property is worth its run only if one of these breaks it; `PROJECT.json` pairs
them under "mutants". No specification uses a variant.

## 3. Runs

| Run | Shows | Instance and why it is enough |
| --- | --- | --- |
| OutboxSafety | exclusive claims, current retry counts, real deliveries, retry budget, announced alerts, burial only after the whole budget, and that Outbox implements OutboxAbs | 2 dispatchers (symmetric), 2 events of which one an alert, batch 2, concurrency 2, 2 retries, console batch 1, all faults. Two processes and two rows make every race over a row and every mixed batch; two retries pass the bound from below and at it |
| SweeperLive | graceful shutdowns orphan nothing; with the sweeper every event is settled once faults end; without it an event is settled or orphaned and never waits for ever | 2 dispatchers that may die in any overlap, 1 event |
| OutboxCrash (violation) | as deployed, a crash after the claim leaves the row PROCESSING for ever | 1 dispatcher, 1 event |
| OutboxTiming | due events wait a bounded time; signatures are fresh on arrival but for the time the event loop stood still; Retry-After is kept | 3 events in batches of 2 with one permit: a queue behind the semaphore, a backlog, retries of older rows; one poll that fails and 2 calls that find the database locked, in polls and in settlements, for any time up to a timeout as long as a poll interval or a post; pauses below, at and above the cap; the time of a post at the poll interval and one second below the tolerance |
| Ingest | flagged means recorded; one PROCESSED row per attachment; events match rows; duplicates have an original; what a consumer reaches is handled once trouble ends | daemon and worker on mailbox A, worker on B; 4 messages: the same attachment three times in two mailboxes, a repeated message_id, one refused, one that always raises in front of another |
| CajaClara | the ERP hears of booked invoices only and of none twice; once trouble ends every invoice is delivered, lies with the dead letters, or was orphaned by an earlier fault | daemon and worker, 3 messages: one that always raises, an invoice with an alert and its copy in the other mailbox |
| Transactions | read-then-overwrite sessions are atomic and none writes stale rows; the lock comes back | 2 dispatchers, console, replay request, reader, the daemon, 2 rows |
| Service | sessions closed, at most one more message after a signal, signals end it and it keeps polling unless the language model hangs; no row without triggers; readings go forward | the five attempts of the code, two lives, two counts: a reading of the first life meets a file of the second |
| SchemaHead (violation) | a database at head of alembic passes the check and lacks tables and columns of the models | one life |
| Pool | no lock held on the network, true states, a worker whose own server is well goes on, stop ends the threads, also one missing in the dict | a healthy and a flaky mailbox with the same account_id; errors counted to 6, past the threshold of 5 |
| LedgerViews | a walk misses at most one row for each that left | three lists, pages of 2, up to 4 rows, 2 dates: inserts before and behind the reader, a shrinking list, a growing last page |
| Document | ZIP pairs are read in any order and a rejection raises its alert; PDFs never override XML; amount and rate come from one term; alerts are fair to half a cent; payment and retention in the drafts meet the total up to rounding | one attachment with archives of up to 3 files, up to 3 attachments with archives of up to 1; up to 2 terms of every kind; amounts in tenths of a cent: declared ones 5 and 6 cents around the expected 10, at 4.6, 5.4 and 5.5 cents from the exact product, or the whole invoice; totals of zero and none; sums whose roundings miss each other by one cent and by two |

`CHECK_DEADLOCK FALSE` stands where the system may really stop: the pool after
`stop()`, a stored row, a full ledger.

### Bounds

`MaxCount` caps counters of receptions, which are only compared with zero, and in
`Service` emails_processed. `MaxErrors` caps `consecutive_errors` one above the
threshold. `MaxRows` bounds the ledger, `MaxLives` the starts of the daemon,
`MaxFailures` the polls that raise in `OutboxTiming` and `MaxStalls` its calls that
find the database locked (`WaitIsBounded` counts both: a failed poll costs a pause,
a locked database at most a `BusyTimeout`). `AdminBatch`, `BatchLimit`,
`MaxConcurrent`, `MaxRetries` and the times of `OutboxTiming` are parameters of the
code with smaller values than deployed, in the same order: base delay below poll
interval and cap, posts shorter than the tolerance. `Fine` is 10 in the run of
Document, so that half a cent and the tenth next to it are amounts; numbers beyond
the 28 digits with which Python's decimal computes exactly are left out.
`NumEvents`, `NumMessages` and the messages of MCDocument bound what arrives. In
`Outbox` time is abstracted: `due` is the set of rows whose next_retry_at has come,
`aged` the rows older than the sweeper's limit.

### Fairness

* **Coroutines and threads**: asyncio runs what can run; every await on the HTTP
  client ends within its timeout. Weak fairness per step. An ERP that answers is
  never assumed: `PostRaises` is part of the fair action.
* **IMAP**: sockets have 30 s timeouts and connect() five attempts: weak fairness
  of `Main`. In `Pool`, flaky workers get no answer at all if it so happens, and may
  hang for ever, in a fetch or in the call of the model.
* **The language model** has no timeout (`pdf_parser.py:60`): `ModelReturns` is fair
  in no specification of the daemon. `StopTerminates` and `KeepsPolling` have as
  their premise that no call hangs for ever (`ModelAnswers`); DaemonModel shows the
  call that does. `Pool` promises a worker progress when its own server and model
  answer.
* **Cycles end**: a cycle goes through the result of one SEARCH, a finite set:
  strong fairness of `EndCycle`.
* **The write lock**: SQLite polls for it during busy_timeout, transactions last
  milliseconds: in `Pool` strong fairness of `Begin`. In `Transactions` nothing is
  assumed of who waits, only that who holds the lock goes on, the daemon included:
  no transaction waits for anything outside the database.
* **Restarts**: systemd and Docker start processes again: weak fairness of
  `Start`. `SettledWhenStable`, `SettledAfterFaults` and `SettledUnlessOrphaned`
  assume in addition that from some moment on dispatchers stay up and nobody
  replays; `HandledWhenCalm` and `EveryInvoiceIsSettled` speak of what follows the
  moment `calm`.
* **Composition**: `CajaClara` assumes that an event which no fault orphans is
  settled if it is queued for ever, by delivery if the ERP has taken it, else by
  giving up. That is what `SettledUnlessOrphaned` shows of the dispatchers without a
  sweeper, under the premises that faults and replays end. Nothing is assumed of an
  orphan (OutboxCrash), and `EveryInvoiceIsSettled` promises it nothing.

## 4. Known divergences

Two of them are standing runs with an expected violation.

* **OutboxCrash**: nothing calls `recover_stuck_events`, so a crash after a claim
  strands the event; the README of the repository promises at-least-once delivery.
* **SchemaHead**: `verify_schema_version` (`database.py:111`) compares revision
  numbers; head of `alembic/versions` has neither `outbox_events` nor the fiscal
  columns of `models.py`. The tests make their tables from the models.

The others came up while modelling. Each has a property in its module and a
configuration with which TLC prints the behaviour, for example
`tlc -config TxReplay.cfg Transactions`; they are no standing runs.

| Configuration, module | Property | What the code does |
| --- | --- | --- |
| SweeperSteals, OutboxSweeper | SweepsOnlyOrphans | `dispatcher.py:220` looks at the age of the event, not of the claim, and takes it from a live coroutine |
| TxReplay, Transactions | ReplayIsCarriedOut | `api.py:339` begins a transaction the listener has begun: the replay endpoints answer 500 on the production engine; the tests use an engine without the listener |
| TxReaders, Transactions | ReadersShare | `database.py:40` makes readers take the write lock; README.md:22 says one writer and N readers |
| IngestFallback, MCIngest | NoInvoiceLost | `<uid@unknown>` (`extractor.py:162`) is unique in one mailbox only: the second of two such messages is flagged and its invoice is nowhere |
| DaemonIdle, Daemon | IdleAfterSuccess | `main.py:195` logs out before the wait: after a good cycle IDLE is never used |
| DaemonStatus, Daemon | StatusIsTrue | `main.py:72` always writes "connected" |
| DaemonModel, Daemon | ModelCallsEnd | `pdf_parser.py:60` has no timeout, which `task_plan.md:27` ticks off: a call that never returns keeps the daemon from its mailbox and from stopping |
| PoolJoin, MCPool | StopWaits | `mailbox_pool.py:253` gives up after ten seconds |
| LedgerTotals, LedgerViews | TotalsCountInvoicesOnce | `api.py:240` adds the amounts of DUPLICATE rows |
| LedgerRegister, LedgerViews | RegisterListsInvoicesOnce | `reports.py` lists rows of any status, a DUPLICATE on a line of its own |
| SireVerdict, MCDocument | RegisterAgreesWithErp | without a CDR `reports.py:54` writes ACCEPTED, `fiscal_alerts.py:80` UNKNOWN |
| AlertInstalments, MCDocument | InstalmentsAreNoDetraction | `xml_parser.py:138` looks for "Cuota" in cbc:ID only |
| AlertMissing, MCDocument | MissingDetractionIsAlerted | `fiscal_alerts.py:113` compares only when there is an amount |
| ExtractLoses, MCDocument | NoInvoiceDropped | `extractor.py:117` parses one attachment per message |
| ExtractVerdict, MCDocument | RejectionIsSeen | `extractor.py:114` opens no ZIP next to an XML |

## 5. What is proved

For every value of the constants, under the named assumptions of each module:
retries, batch sizes, delays, pages and numbers of processes, rows, messages and
mailboxes are arbitrary, and so are the length of an archive or of a list of terms
and the precision of an amount.
The assumptions give constants their types, order the waits as the code does, and
say that the placeholder for "nothing" is no document and no verdict. Every
invariant and every action property that a passing run checks is the statement of a
theorem; the inductive invariants were checked by TLC before they were proved.

**OutboxProofs.** `TypeCorrect`, the safety properties of OutboxSafety, and
`OutboxImplementsAbs`. `ExclusiveClaim` is nearly inductive by itself: a claim
takes PENDING rows only, and nothing but the owner changes a PROCESSING row. It
gives `ClaimIsCurrent` (nobody writes retry_count meanwhile), which gives
`AttemptsMatchRetryCount`: requests sent and retry_count differ by exactly one
from the POST to the settlement, whence `RetryBudget` and `BuriedOnlyWhenSpent`.
`OutcomesAreReal` carries "success means received" from the answer to the
settlement, `AlertsPrecedeSettlement` does so for alerts, `OnlyCommittedTravel`
keeps late requests from preceding their row. The refinement maps PENDING and
PROCESSING to "queued"; every step is an abstract step or a stutter.

With `recover_stuck_events` at work claims are not exclusive, and what follows
from that is lost. `SweptIInv` is what needs none of it: `OwnedWithoutFaultsHolds`
(a claim writes the status and starts the coroutine in one step, and a settlement
takes the row out of PROCESSING whoever else holds it) and `SweepsStayHonest`
(`DeliveredWasReceived` and `AlertAnnounced` survive two dispatchers working on
one event).

**OutboxTimingProofs.** `PauseInv` follows a Retry-After from the request that
learned of it to next_retry_at: wherever it is, the timer that stands there is at
least what is left of the pause. `FreshInv` adds the age of a signature to what is
left of its request: but for the seconds in which the event loop stood still, which
`stalled` counts, the sum never grows past the limit of a request. `WaitInv`,
for `WaitIsBoundedHolds`, rests on two counts that only fall. `ClaimsLeft(e)` are
the claims the rows older than e can still make, one for each retry left: a batch
that passes e over is full of older rows, so it lowers the count by a full batch,
and the quotient is how often e can be overtaken. `Young(y)` are the coroutines of
the batch that have not had their permit y seconds into a turn at the semaphore:
every turn of `Hold` seconds lowers it by the number of permits, so a batch ends
after `Turns` of them. Between polls the timer `sleep` bounds the wait, and a poll
that fails costs one more pause. A call that waits for the lock has used up
`BusyTimeout - patience` seconds, and `stalls` counts the calls: what all of them have
cost by now is at most their number times `BusyTimeout` less the patience left.

**CajaClaraProofs.** First `Ingest` by itself. `UniqueIds` (the UNIQUE
constraint) and `AckIsRecorded` (a consumer about to flag has its message_id in
the ledger, and rows stay) make `SeenIsRecorded` inductive; `DuplicatesHaveHashes`
does so for `DuplicateHasOriginal` and `OneProcessedPerInvoice`.
Then the composed system: a step of it is a step
of `Ingest` or leaves its variables alone (`CalmSteps`), so that the invariant of
`Ingest` holds in it. `QueueIsBooked` (an event that exists belongs to a PROCESSED
row) and `HeardWasQueued` (the ERP heard only what was queued) are inductive with
it: rows stay, and the step that books a row is the one that queues its events.
With `OneProcessedPerInvoice` they give `ErpMatchesLedger`.

**TransactionsProofs.** `OneTransaction` (who is past BEGIN has the lock) makes
`NoStaleWrite` inductive with `HeldIsProcessing`; then lock, read and commit
implement the atomic steps that `Outbox` uses.

**ServiceProofs.** First `Daemon` by itself, where `LateMeansLeaving` makes
`AtMostOneMore` inductive. A step of the service is a step of `Daemon`, or the
status file cannot be written; so it keeps that invariant, and `ServiceKeepsDaemon`
says what it gives. `UpIsChecked` (who runs has committed the triggers) gives
`EntriesAreSealed`, whatever start failed before. `ReadersLag` orders process, file
and reader by start and count and gives `ReadingsGoForward`; the temporary file
needs no clause, for it is whole whenever the file is replaced by it.

**PoolProofs.** `NoLockOnNetwork` and `StatusIsTrue` are inductive together with
the types: a worker that is given the lock finds nobody writing.

**LedgerViewsProofs.** The order of the query is total, so that the number of rows
before a row, its rank, is different for each and fills every place up to the
number of rows (`RanksFill`). A page is a range of ranks, and a reader has reached
a row when it has read past its rank. A row that comes in only raises ranks
(`RanksGrow`); one that leaves lowers the ranks behind it by one
(`RanksDropByOne`), so that at most one row crosses the edge of the page to be
read next, and it pays for it; and the page count, rounded up, is not reached
before the last rank (`PagesHoldAll`). That is `WalkSeesEverythingHolds`.

**DocumentProofs.** `AlertTolerance`: the comparison of the code, which rounds the
expected amount to the even cent and leaves the declared one as it is, is off by
at most half a cent, for all totals, rates and amounts of any sign and precision.
It rests on `HalfEvenIsNear`: the rounding of p/q is within half of it. Since a
whole number of cents that is off by more than five cents is off by six, who
declares whole cents is accused beyond 5.5 cents only. `FirstOfIsTerm` (the first
term with an amount is one of the terms; the natural numbers are well-founded) and
`RecordFollows` (payload and alerts are those of what was read) carry this to every
message: `AlertsAreFairHolds`. The same well-foundedness shows that what the lookups
of amount and of rate find is one term, the first that is a detraction
(`AmountAndRateAgreeHolds`).

`DraftsMeetTotalHolds`: the payload is that of the row, rounded
(`PayloadIsRounded`), and total, amount and their difference, each rounded by
itself, miss each other by a cent at most, and by nothing when they are whole cents
(`RoundedMeet`); the sum of two roundings misses that of their sum by a cent
(`TwoRounded`). `DraftsMeet` says the same of every payload made of amounts, whichever
of them are missing.

The loop over an archive is an action per member, so that its invariant speaks of
positions and needs no induction over sequences: what the loop has found of a kind
is a member of that kind, and it has found something once it has passed one
(`BytesFollow` in `ExtractIInv`). `ZipPairIsReadHolds` follows at the end of the
loop, `StructuredDataWinsHolds` from that and the preference of `Candidates` for
XML and ZIP, and `RejectionIsReportedHolds` from the first of them and the fact
that only an extracted row has alerts.

## 6. What is model-checked only

* Liveness: `SettledWhenStable`, `SettledAfterFaults`, `SettledUnlessOrphaned`,
  `HandledWhenCalm`, `EveryInvoiceIsSettled`, `LockIsReleased`, `StopTerminates`,
  `KeepsPolling`, `HealthyWorkersGoOn`, `StopEndsWorkers`. Fairness is out of
  the prover's reach, and so is `ReadersShare`, which uses ENABLED.
* The properties of section 4, which the code does not have: a run shows each
  of them violated on a small instance, and there is nothing to prove.
* That `Orphan` of `CajaClara` is what the crashes and failed settlements of `Outbox`
  do to the abstract queue: `Implements` allows a queued event that nobody settles,
  and says nothing of why.
* That OutboxTiming and `Outbox` are two views of one dispatcher is by
  construction of the two modules and was neither checked nor proved.

## 7. Not modelled

* Metrics and health endpoints: single queries, process counters and constants.
  The counters have no shared state; `status.json`, which one endpoint reads, is
  in `Service`.
* Configuration, logging and redaction: functions of the environment or of a text.
* The dashboard draws what the API returns; only the page buttons of the ledger
  table are in `LedgerViews`. The terminal monitor is `Read` of `Service`.
* systemd, Docker, Litestream: external; their effect is in `Start`, `Boot`, `Kill`
  and `Crash`.
* Inside modelled parts: the HMAC (a library function; its timestamp is in
  `OutboxTiming`), the text of XML fields and PDFs (an attachment holds an invoice
  or not), names, dates and texts in payloads and drafts, the wording of
  notifications and whether a channel is configured or fails (`alerted` in `Outbox`
  counts the call), the poll rate of the pool (`mailbox_pool.py:75`), the filters of
  the lists.
* The triggers are in `Service` those of the daemon: the pool installs none
  (`mailbox_pool.py`), and a ledger that only workers have ever written is outside it.
* Peculiarities seen in the code that no module reaches: record_id is None in a
  payload built before the flush (`fiscal_alerts.py:43`); the path of the status
  file comes from replacing a name in the path of the database (`main.py:58`) and
  the monitor looks for it elsewhere (`cli_monitor.py:23`); page_size 0 divides by
  zero (`api.py:234`); a row that has a total only, as the regular expressions read
  it from a PDF, gives SAP a LineTotal of 0.0 and Siigo an item of 0.00 next to a
  payment of the total (`erp_adapters.py:78-101`, `127-153`); the invariant of
  `EmailExtract` that is named for the accounting balance does nothing when it is
  broken (`schemas.py:123`); several settlements that wait for the lock during one
  request may make its signature stale, and the 4xx that answers it is final; the
  totals count a row without currency as PEN and a credit note with the sign of an
  invoice (`api.py:248`); the currency of the detraction is not looked at
  (`xml_parser.py:122`).

## 8. Plan

Done, in this order: Outbox and its abstraction, sweeper and proofs; Ingest and
its proofs; Transactions and its proofs; Daemon and its proofs; Pool; LedgerViews;
Extraction; FiscalAlerts; OutboxTiming; Service (migrations, status file and
readers) and its proofs; ErpAdapters and Document (a message from attachment to
drafts) and its proofs; the sweeper without faults; the paged list of dead
letters; the proofs of Pool; CajaClara (ingestion and queue composed) and its
proofs; the proofs of LedgerViews, OutboxTiming, the archive and the terms of
Document, and the sweeper.

Next:

1. OutboxTiming forgets what `Outbox` knows of faults and other processes, and
   `Outbox` forgets the clock: relate the statuses of one to the other by a
   refinement, with due rows as rows whose timer is zero.
2. Action properties that follow from invariants already proved: what a sweep may
   change, what a settlement may change when it is not the only one.
3. `CajaClara` with the dispatchers of `Outbox` in place of the abstract queue,
   from `OutboxImplementsAbs` and the proofs of `CajaClaraProofs`.
