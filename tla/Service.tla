------------------------------ MODULE Service ------------------------------
(***************************************************************************)
(* The daemon as it is installed: the process of Daemon together with the  *)
(* database it checks when it starts (database.py, alembic/versions) and   *)
(* the file status.json, which it replaces after every cycle (main.py) and *)
(* a monitor or the API reads at any moment (cli_monitor.py, api.py).      *)
(***************************************************************************)
EXTENDS Daemon, Sequences

CONSTANTS
    MaxLives,  \* bound: how often the process is started
    MaxCount   \* bound: emails_processed is counted up to here

ASSUME ServiceAssumption == MaxLives \in Nat /\ MaxCount \in Nat

VARIABLES
    applied,  \* how many revisions of alembic/versions the database has
    patched,  \* whether somebody ran Base.metadata.create_all, as the tests do
    sealed,   \* whether the immutability triggers exist
    entries,  \* whether invoice_records has a row
    start,    \* how far the start of a process has come: the step it is at
    life,     \* number of the process: its pid
    count,    \* emails_processed of this process
    tmp,      \* status.json.tmp
    file,     \* status.json
    reading   \* what the monitor last got from get_status_data

database == <<applied, patched, sealed, entries>>
process == <<start, life, count>>
files == <<tmp, file>>
serviceVars == <<pc, mailbox, attempts, stopping, late, outcome, reported,
                 applied, patched, sealed, entries, start, life, count, tmp, file, reading>>

\* The calls of main() before its loop; of the last one its two halves.
StartSteps == {"integrity", "schema", "triggers", "commit"}

\* What each revision adds to the database, in the order of down_revision.
Revisions == <<{"invoice_records"}, {"financial columns"}>>
LastRevision == Len(Revisions)
\* What models.py declares: its fiscal columns are document_type, the
\* detraction, cdr_status, the references and the discrepancies.
Declared == {"invoice_records", "financial columns", "fiscal columns", "outbox_events"}

Provided == IF patched THEN Declared ELSE UNION {Revisions[r] : r \in 1..applied}

\* The content of a file: what write_status_file dumps, or none of it.
Missing == [life |-> 0, count |-> 0]
Torn == [life |-> -1, count |-> 0]
Contents == [life : 1..MaxLives, count : 0..MaxCount]

ServiceTypeOK ==
    /\ TypeOK
    /\ applied \in 0..LastRevision
    /\ patched \in BOOLEAN
    /\ sealed \in BOOLEAN
    /\ entries \in BOOLEAN
    /\ start \in StartSteps \union {"none"}
    /\ life \in 0..MaxLives
    /\ count \in 0..MaxCount
    /\ tmp \in Contents \union {Missing, Torn}
    /\ file \in Contents \union {Missing}
    /\ reading \in Contents \union {Missing}

ServiceInit ==
    /\ Init
    /\ applied = 0
    /\ patched \in BOOLEAN
    /\ sealed = FALSE
    /\ entries = FALSE
    /\ start = "none"
    /\ life = 0
    /\ count = 0
    /\ tmp = Missing
    /\ file = Missing
    /\ reading = Missing

-----------------------------------------------------------------------------
(* The installation and the start.                                         *)

\* alembic upgrade head applies the revisions one after the other, while nobody
\* has a transaction open.
Upgrade ==
    /\ applied < LastRevision
    /\ start # "commit"
    /\ applied' = applied + 1
    /\ UNCHANGED <<vars, patched, sealed, entries, process, files, reading>>

StartsAt(step) == start' = step /\ UNCHANGED <<vars, database, life, count, files, reading>>

\* The supervisor starts the process, and main() begins to check.
StartProcess == pc \notin Up /\ start = "none" /\ StartsAt("integrity")

\* verify_db_integrity finds the file sound.
CheckIntegrity == start = "integrity" /\ StartsAt("schema")

\* verify_schema_version compares two revisions.
CheckSchema == start = "schema" /\ applied = LastRevision /\ StartsAt("triggers")

\* Both triggers are made in one transaction (the begin listener) ...
CreateTriggers == start = "triggers" /\ StartsAt("commit")

\* Variant: the connection is closed without a commit, which rolls back.
BootUnsealed ==
    /\ Boot
    /\ start = "commit"
    /\ start' = "none"
    /\ life < MaxLives
    /\ life' = life + 1
    /\ count' = 0
    /\ UNCHANGED <<database, files, reading>>

\* ... which is committed, and the loop begins.
BootChecked ==
    /\ Boot
    /\ start = "commit"
    /\ start' = "none"
    /\ sealed' = TRUE
    /\ life < MaxLives
    /\ life' = life + 1
    /\ count' = 0
    /\ UNCHANGED <<applied, patched, entries, files, reading>>

\* A check fails or the database is locked, and the process exits with 1, or it is
\* killed: what is not committed is rolled back.
StartFails == start # "none" /\ StartsAt("none")

-----------------------------------------------------------------------------
(* The cycle.                                                              *)

\* A message becomes a row, PROCESSED and counted or not ...
MessageBecomesRow ==
    /\ HandleMessage
    /\ Declared \subseteq Provided
    /\ entries' = TRUE
    /\ count' \in {count, IF count < MaxCount THEN count + 1 ELSE count}
    /\ UNCHANGED <<applied, patched, sealed, start, life, files, reading>>

\* ... or its failure is logged: on a database without the columns of the
\* models every query and every INSERT raises.
MessageFails ==
    /\ HandleMessage
    /\ UNCHANGED <<database, process, files, reading>>

\* Variant: status.json itself is opened for writing.
OpenInPlace ==
    /\ pc = "report"
    /\ tmp # Torn
    /\ tmp' = Torn
    /\ file' = Missing
    /\ UNCHANGED <<vars, database, process, reading>>

\* open(tmp_path, "w") makes or empties the temporary file.
OpenTemporary ==
    /\ pc = "report"
    /\ tmp # Torn
    /\ tmp' = Torn
    /\ UNCHANGED <<vars, database, process, file, reading>>

\* json.dump and close, then os.replace, which is atomic: who had the old
\* file open goes on reading the old file.
ReplaceStatus ==
    /\ WriteStatus
    /\ tmp = Torn
    /\ file' = [life |-> life, count |-> count]
    /\ tmp' = Missing
    /\ UNCHANGED <<database, process, reading>>

\* The disk is full or the directory cannot be written: a warning is logged.
StatusFails ==
    /\ pc = "report"
    /\ pc' = "waiting"
    /\ UNCHANGED <<mailbox, attempts, stopping, late, outcome, reported,
                   database, process, files, reading>>

\* get_status_data: None for a file that is not there or is no JSON.
Read ==
    /\ reading' = file
    /\ UNCHANGED <<vars, database, process, files>>

-----------------------------------------------------------------------------
Cycle ==
    \/ BeginCycle \/ Exit \/ AttemptFails \/ AttemptSucceeds
    \/ TakeMessage \/ EndCycle \/ RaiseInCycle
    \/ Poll \/ Idle \/ SleepInstead \/ TimeIsUp

Starting ==
    \/ StartProcess \/ CheckIntegrity \/ CheckSchema \/ CreateTriggers
    \/ BootChecked \/ StartFails

ServiceMain ==
    \/ Cycle /\ UNCHANGED <<database, process, files, reading>>
    \/ MessageBecomesRow
    \/ MessageFails
    \/ OpenTemporary
    \/ ReplaceStatus
    \/ StatusFails

\* A signal, a kill or an answer of the language model comes from outside.
Interrupt ==
    /\ Signal \/ Kill \/ ModelReturns
    /\ UNCHANGED <<database, process, files, reading>>

ServiceNext == Upgrade \/ Starting \/ Interrupt \/ ServiceMain \/ Read

ServiceSpec == ServiceInit /\ [][ServiceNext]_serviceVars

\* As in Daemon: main() goes on, and a cycle ends; the language model need not
\* answer.
ServiceFairSpec ==
    /\ ServiceSpec
    /\ WF_serviceVars(ServiceMain)
    /\ SF_serviceVars(Cycle /\ (EndCycle \/ RaiseInCycle)
                      /\ UNCHANGED <<database, process, files, reading>>)

-----------------------------------------------------------------------------
\* No accounting entry was ever written without the triggers that seal it,
\* whatever process died at whatever point of its start (main.py:208-214,
\* database.py:43-72).
EntriesAreSealed == entries => sealed

NotBefore(a, b) == a.life < b.life \/ (a.life = b.life /\ a.count <= b.count)

\* Who has seen the counters of a process sees them again at every later
\* look, and never older ones: no kill, no restart and no full disk shows a
\* monitor half a file or yesterday's (main.py:76-81, cli_monitor.py:27-36).
ReadingsGoForward == [][NotBefore(reading, reading')]_serviceVars

\* verify_schema_version makes sure "que la versión de esquema de base de
\* datos coincida con el código" (database.py:97): a daemon that passed it
\* on a database made by alembic has the tables and columns of models.py.
RunsOnItsModels == pc \in Up => Declared \subseteq Provided
=============================================================================
