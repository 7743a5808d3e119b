----------------------------- MODULE IngestCalm -----------------------------
(***************************************************************************)
(* Ingest when the trouble ends: from some moment on nothing crashes, no   *)
(* connection or database operation fails and nobody asks for a shutdown.  *)
(* A step of Ingest does not tell whether the connection failed or a       *)
(* message raised, so the moment is a variable of its own.                 *)
(***************************************************************************)
EXTENDS Ingest

VARIABLE calm

calmVars == <<arrived, seen, row, outboxRows, pc, todo, stopping, calm>>

CalmInit == Init /\ calm = FALSE

TroubleEnds ==
    /\ ~ calm
    /\ calm' = TRUE
    /\ UNCHANGED vars

CalmNext ==
    \/ Healthy /\ UNCHANGED calm
    \/ ~ calm /\ (Faults \/ Signals) /\ UNCHANGED calm
    \/ TroubleEnds

FairCalmSpec == CalmInit /\ [][CalmNext]_calmVars /\ Fairness

-----------------------------------------------------------------------------
\* A consumer that gets to m in every cycle it completes: the daemon goes on
\* after a message that raises, a worker begins again and meets it again.
Reaches(c, m) ==
    /\ BoxOf[c] = Box[m]
    /\ c \in Workers => \A n \in Poison : Box[n] = Box[m] => m < n

\* Once the trouble has ended, every message that a consumer reaches is put on
\* the books or found there, and flagged: a crash between the commit and the
\* flag, or a message that always raises, delays the others but loses none.
HandledWhenCalm ==
    \A m \in Messages \ Poison :
        (\E c \in Consumers : Reaches(c, m)) => (calm /\ m \in arrived ~> m \in seen)
=============================================================================
