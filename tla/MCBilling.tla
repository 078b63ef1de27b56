------------------------------ MODULE MCBilling ------------------------------
(***************************************************************************)
(* Small instances of AiBilling: a chat whose estimate is above its charge *)
(* and one whose estimate is below it, on a balance that does not cover    *)
(* both, and two metered calls on the last unit of a quota.                *)
(***************************************************************************)
EXTENDS AiBilling

MCReserve == [c \in Chats |-> IF c = "short" THEN 2 ELSE 1]
MCActual == [c \in Chats |-> IF c = "short" THEN 1 ELSE 3]
=============================================================================
