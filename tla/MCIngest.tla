------------------------------ MODULE MCIngest ------------------------------
(***************************************************************************)
(* Instances of Ingest for TLC: the daemon and a pool of two workers over  *)
(* two mailboxes, and messages that stand for the cases that meet in them. *)
(***************************************************************************)
EXTENDS IngestCalm, TLC

CONSTANTS daemon, w1, w2, boxA, boxB, noHash

\* The daemon and w1 read mailbox A, w2 reads mailbox B.
MCBoxOf == (daemon :> boxA) @@ (w1 :> boxA) @@ (w2 :> boxB)

\* Messages 1, 2 and 3 are in A, 4 is in B.  1, 3 and 4 carry the same
\* attachment; 2 always raises; 3 has the message_id of 1 and is refused, and
\* may get to the ledger before 1.
MCBox == <<boxA, boxA, boxA, boxB>>
MCMsgId == <<"id1", "id2", "id1", "id4">>
MCHash == <<"h1", noHash, "h1", "h1">>
MCAlerts == <<1, 0, 0, 0>>

\* Two mailboxes, each with a first message that has no Message-ID header and
\* the UID 1: the fallback <1@unknown> is the message_id of both.
MCFallbackBox == <<boxA, boxB>>
MCFallbackId == <<"<1@unknown>", "<1@unknown>">>
MCTwoHashes == <<"h1", "h2">>
MCNoAlerts == <<0, 0>>
MCPoolBoxOf == (w1 :> boxA) @@ (w2 :> boxB)
=============================================================================
