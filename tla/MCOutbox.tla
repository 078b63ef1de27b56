------------------------------- MODULE MCOutbox -------------------------------
(***************************************************************************)
(* Small instances of Outbox: the scheduler's worker and an administrator  *)
(* who replays, over two events.                                           *)
(***************************************************************************)
EXTENDS Outbox
=============================================================================
