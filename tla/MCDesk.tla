-------------------------------- MODULE MCDesk --------------------------------
(***************************************************************************)
(* Small instances of CustomerService over Outbox.  MCOutbox has what is   *)
(* left out of the larger one here: a URL that is configured only later,   *)
(* and dead letters that are discarded.                                    *)
(***************************************************************************)
EXTENDS CustomerService

MCEvents == {"ticket_created", "decision_made"} \X Tickets

WithUrl == hasUrl
KeepLetters == \A e \in Events : letters'[e] >= letters[e]
=============================================================================
