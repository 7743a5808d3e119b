------------------------------- MODULE Daemon -------------------------------
(***************************************************************************)
(* The life of the cajaclarad process: main() of main.py around one        *)
(* IMAPClient.  A loop connects (up to five attempts), goes through the    *)
(* unread messages, logs out, writes status.json and waits for the next    *)
(* round; SIGTERM only sets an event, which the loop looks at.             *)
(*                                                                         *)
(* What happens to the messages is in Ingest; here a message is a step of  *)
(* the cycle, and a PDF one in which the language model is asked first.    *)
(* The mailbox object and the server behind it are external: a MailBox is  *)
(* open once its socket is, authed after LOGIN, selected once INBOX is     *)
(* selected (login and xoauth2 do both).  Only the one that _mailbox names *)
(* is tracked: an attempt to connect drops the object of the one before    *)
(* (imap_client.py:46), whose socket goes with it.                         *)
(***************************************************************************)
EXTENDS Integers

CONSTANT MaxAttempts  \* stop_after_attempt(5)

ASSUME DaemonAssumption == MaxAttempts \in Nat \ {0}

VARIABLES
    pc,        \* where main() is
    mailbox,   \* IMAPClient._mailbox: none, open, authed or selected
    attempts,  \* failed attempts of the running connect()
    stopping,  \* shutdown_event
    late,      \* history: messages handled since the signal, up to 2
    outcome,   \* history: how the last cycle ended
    reported   \* imap_connection_status in status.json

vars == <<pc, mailbox, attempts, stopping, late, outcome, reported>>

InCycle == {"fetching", "asking", "handling"}
Waits == {"polling", "idling", "sleeping"}
Up == {"loop", "connecting", "report", "waiting"} \union InCycle \union Waits

TypeOK ==
    /\ pc \in Up \union {"down", "exited"}
    /\ mailbox \in {"none", "open", "authed", "selected"}
    /\ attempts \in 0..(MaxAttempts - 1)
    /\ stopping \in BOOLEAN
    /\ late \in 0..2
    /\ outcome \in {"none", "ok", "raised", "unreachable"}
    /\ reported \in {"none", "connected"}

Init ==
    /\ pc = "down"
    /\ mailbox = "none"
    /\ attempts = 0
    /\ stopping = FALSE
    /\ late = 0
    /\ outcome = "none"
    /\ reported = "none"

-----------------------------------------------------------------------------
(* Processes and signals.                                                  *)

\* The supervisor has started the process and the start-up checks pass; when they
\* do not, the process exits with 1 and is started again.  The handlers are there
\* before the checks: a signal may have come already.
Boot ==
    /\ pc \in {"down", "exited"}
    /\ pc' = "loop"
    /\ mailbox' = "none"
    /\ attempts' = 0
    /\ stopping' \in BOOLEAN
    /\ late' = 0
    /\ UNCHANGED <<outcome, reported>>

\* SIGTERM or SIGINT: the handler sets the event and returns to where it was.
Signal ==
    /\ pc \in Up
    /\ stopping' = TRUE
    /\ UNCHANGED <<pc, mailbox, attempts, late, outcome, reported>>

\* SIGKILL (after TimeoutStopSec too) or a power cut.
Kill ==
    /\ pc \in Up
    /\ pc' = "down"
    /\ mailbox' = "none"
    /\ attempts' = 0
    /\ stopping' = FALSE
    /\ late' = 0
    /\ UNCHANGED <<outcome, reported>>

-----------------------------------------------------------------------------
(* The loop of main.                                                       *)

BeginCycle ==
    /\ pc = "loop"
    /\ ~ stopping
    /\ pc' = "connecting"
    /\ UNCHANGED <<mailbox, attempts, stopping, late, outcome, reported>>

\* The last logout; then sys.exit(0).
Exit ==
    /\ pc = "loop"
    /\ stopping
    /\ mailbox' = "none"
    /\ pc' = "exited"
    /\ UNCHANGED <<attempts, stopping, late, outcome, reported>>

\* Variant: there is no stop_after_attempt.
AttemptFailsForever ==
    /\ pc = "connecting"
    /\ mailbox' \in {mailbox, "open", "authed"}
    /\ attempts' = (attempts + 1) % MaxAttempts
    /\ UNCHANGED <<pc, stopping, late, outcome, reported>>

\* An attempt fails: at the dial, which leaves _mailbox as the attempt before
\* left it; at LOGIN; or at SELECT.  tenacity sleeps and tries again.  After
\* the last one process_mailbox returns before its try, so without logout.
AttemptFails ==
    /\ pc = "connecting"
    /\ mailbox' \in {mailbox, "open", "authed"}
    /\ IF attempts + 1 < MaxAttempts
       THEN attempts' = attempts + 1 /\ UNCHANGED <<pc, outcome>>
       ELSE attempts' = 0 /\ pc' = "report" /\ outcome' = "unreachable"
    /\ UNCHANGED <<stopping, late, reported>>

AttemptSucceeds ==
    /\ pc = "connecting"
    /\ mailbox' = "selected"
    /\ attempts' = 0
    /\ pc' = "fetching"
    /\ UNCHANGED <<stopping, late, outcome, reported>>

\* Variant: the loop over the messages does not look at the event.
TakeMessageAlways ==
    /\ pc = "fetching"
    /\ pc' \in {"asking", "handling"}
    /\ UNCHANGED <<mailbox, attempts, stopping, late, outcome, reported>>

\* The generator yields a message and the event is not set.  The text of a PDF
\* goes to the language model, if there is a key for it.
TakeMessage ==
    /\ pc = "fetching"
    /\ ~ stopping
    /\ pc' \in {"asking", "handling"}
    /\ UNCHANGED <<mailbox, attempts, stopping, late, outcome, reported>>

\* generate_content returns or raises; then the regular expressions do.
ModelReturns ==
    /\ pc = "asking"
    /\ pc' = "handling"
    /\ UNCHANGED <<mailbox, attempts, stopping, late, outcome, reported>>

\* The message is recorded and flagged, or its failure is logged.
HandleMessage ==
    /\ pc = "handling"
    /\ pc' = "fetching"
    /\ late' = IF stopping /\ late < 2 THEN late + 1 ELSE late
    /\ UNCHANGED <<mailbox, attempts, stopping, outcome, reported>>

\* Variant: logout after the loop instead of in finally.
LeaveCycleOpen(how) ==
    /\ mailbox' = IF how = "ok" THEN "none" ELSE mailbox
    /\ outcome' = how
    /\ pc' = "report"
    /\ UNCHANGED <<attempts, stopping, late, reported>>

\* The finally clause of process_mailbox logs out.
LeaveCycle(how) ==
    /\ mailbox' = "none"
    /\ outcome' = how
    /\ pc' = "report"
    /\ UNCHANGED <<attempts, stopping, late, reported>>

\* No message is left, or the event is set and the loop breaks.
EndCycle == pc = "fetching" /\ LeaveCycle("ok")

\* The connection fails at a fetch, or at the flag of a known message.
RaiseInCycle == pc \in {"fetching", "handling"} /\ LeaveCycle("raised")

\* write_status_file, then WATCHDOG=1.
WriteStatus ==
    /\ pc = "report"
    /\ reported' = "connected"
    /\ pc' = "waiting"
    /\ UNCHANGED <<mailbox, attempts, stopping, late, outcome>>

-----------------------------------------------------------------------------
(* wait_for_new_messages.                                                  *)

WaitAs(how) ==
    /\ pc = "waiting"
    /\ pc' = how
    /\ UNCHANGED <<mailbox, attempts, stopping, late, outcome, reported>>

\* No connection: the RuntimeError sends main to shutdown_event.wait.
Poll == mailbox = "none" /\ WaitAs("polling")

\* IDLE needs a connection that has logged in.
Idle == mailbox \in {"authed", "selected"} /\ WaitAs("idling")

\* IDLE fails: time.sleep(poll_interval), deaf to the event.
SleepInstead == mailbox # "none" /\ WaitAs("sleeping")

\* Variant: IDLE without a timeout, on a connection where nothing arrives.
TimeIsUpUnlessIdling ==
    /\ pc \in Waits \ {"idling"}
    /\ pc' = "loop"
    /\ UNCHANGED <<mailbox, attempts, stopping, late, outcome, reported>>

\* The timeout is over, or IDLE got a notification.
TimeIsUp ==
    /\ pc \in Waits
    /\ pc' = "loop"
    /\ UNCHANGED <<mailbox, attempts, stopping, late, outcome, reported>>

-----------------------------------------------------------------------------
(* The process.                                                            *)

Main ==
    \/ BeginCycle \/ Exit \/ AttemptFails \/ AttemptSucceeds
    \/ TakeMessage \/ HandleMessage \/ EndCycle \/ RaiseInCycle
    \/ WriteStatus \/ Poll \/ Idle \/ SleepInstead \/ TimeIsUp

Next == Boot \/ Signal \/ Kill \/ Main \/ ModelReturns

Spec == Init /\ [][Next]_vars

\* main() goes on wherever it waits for a time that is limited (30 s for the
\* sockets and for the database, poll_interval for the rest), and a cycle ends,
\* because it goes through the messages that one SEARCH has found.  Nothing limits
\* the call of the language model (pdf_parser.py:60): ModelReturns is not fair.
FairSpec == Spec /\ WF_vars(Main) /\ SF_vars(EndCycle \/ RaiseInCycle)

-----------------------------------------------------------------------------
(* Safety.                                                                 *)

\* INBOX is selected during a cycle and only then, whatever raised in it, and
\* the process that stops leaves no connection behind: also not one that a
\* failed connect() had left open in an earlier round.
SessionsAreClosed ==
    /\ pc \in InCycle <=> mailbox = "selected"
    /\ pc = "exited" => mailbox = "none"

\* A stopping daemon finishes at most the message it has in hand.
AtMostOneMore == late <= 1

\* What makes it inductive: the message in hand is the only one.
LateMeansLeaving == late > 0 => stopping /\ pc \notin {"asking", "handling"}

IInv == TypeOK /\ SessionsAreClosed /\ AtMostOneMore /\ LateMeansLeaving

\* IDLE is how the daemon waits, polling the fallback (README.md:18): after
\* a cycle that went well the wait is not a poll.
IdleAfterSuccess == outcome = "ok" => pc # "polling"

\* status.json says connected only if the last cycle reached the server
\* (main.py:38 starts as disconnected, main.py:191 notes an error).
StatusIsTrue == pc = "waiting" /\ reported = "connected" => outcome # "unreachable"

-----------------------------------------------------------------------------
(* Liveness.                                                               *)

\* No call of the language model hangs for ever.
ModelAnswers == []<>(pc # "asking")

\* A signal ends the process, wherever it finds it: in the start, in the pauses
\* between the attempts, in a message, in a sleep; unless the language model
\* never answers.
StopTerminates == ModelAnswers => (stopping ~> pc \in {"exited", "down"})

\* A daemon that runs looks at the mailbox again and again, whatever raised
\* before and in whatever way it waited; unless the language model never answers.
KeepsPolling ==
    ModelAnswers => (pc \in Up ~> (pc = "connecting" \/ stopping \/ pc = "down"))

\* "Incorporar timeout explícito en la llamada de Gemini" (task_plan.md:27): the
\* daemon gets an answer, or an error, within some time.
ModelCallsEnd == pc = "asking" ~> pc # "asking"
=============================================================================
