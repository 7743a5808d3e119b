----------------------------- MODULE MCCajaClara -----------------------------
(***************************************************************************)
(* The daemon and a worker over two mailboxes.  Message 1, which always     *)
(* raises, comes before 2 in the mailbox of the daemon; 2, which raises an *)
(* alert, and 3, in the other mailbox, carry the same attachment.          *)
(***************************************************************************)
EXTENDS CajaClara, TLC

CONSTANTS daemon, worker, boxA, boxB, noHash

MCBoxOf == (daemon :> boxA) @@ (worker :> boxB)
MCBox == <<boxA, boxA, boxB>>
MCMsgId == <<"id1", "id2", "id3">>
MCHash == <<noHash, "h1", "h1">>
MCAlerts == <<0, 1, 0>>
=============================================================================
