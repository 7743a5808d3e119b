---------------------------- MODULE AtomicOutbox ----------------------------
(***************************************************************************)
(* The outbox table as Outbox sees it: claiming a batch, settling an event *)
(* and replaying dead letters are single steps that look at the rows as    *)
(* they are.                                                               *)
(***************************************************************************)
CONSTANTS Events, Dispatchers, Nobody

VARIABLES
    status,  \* OutboxEvent.status
    holder   \* holder[e]: the dispatcher that claimed e, until it is settled

atomicVars == <<status, holder>>

\* The rows of S get a new status and a new holder, the others stay.
Overwrite(S, newStatus, newHolder) ==
    /\ status' = [e \in Events |-> IF e \in S THEN newStatus ELSE status[e]]
    /\ holder' = [e \in Events |-> IF e \in S THEN newHolder ELSE holder[e]]

AtomicInit ==
    /\ status = [e \in Events |-> "PENDING"]
    /\ holder = [e \in Events |-> Nobody]

Claim(d) ==
    /\ \A e \in Events : holder[e] # d
    /\ Overwrite({e \in Events : status[e] = "PENDING"}, "PROCESSING", d)

Settle(d, e) ==
    /\ holder[e] = d
    /\ status[e] = "PROCESSING"
    /\ \E s \in {"DELIVERED", "DEAD_LETTER", "PENDING"} : Overwrite({e}, s, Nobody)

Replay(S) ==
    /\ \A e \in S : status[e] = "DEAD_LETTER" /\ holder[e] = Nobody
    /\ Overwrite(S, "PENDING", Nobody)

\* A dispatcher that died, or could not settle an event, holds it no more.
Abandon(S) ==
    /\ holder' = [e \in Events |-> IF e \in S THEN Nobody ELSE holder[e]]
    /\ UNCHANGED status

AtomicNext ==
    \/ \E d \in Dispatchers : Claim(d)
    \/ \E d \in Dispatchers, e \in Events : Settle(d, e)
    \/ \E S \in SUBSET Events : Replay(S) \/ Abandon(S)

AtomicSpec == AtomicInit /\ [][AtomicNext]_atomicVars
=============================================================================
