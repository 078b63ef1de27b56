----------------------------- MODULE Settlement -----------------------------
(***************************************************************************)
(* What the payment service promises for every order, however often it is  *)
(* notified and whoever else is at work: it is paid once, granted once and *)
(* only when paid, and its money is returned once and only when granted.   *)
(***************************************************************************)
CONSTANTS
    Orders,
    Returnable,     \* orders whose payment can go back to the wallet
    Settled         \* orders paid and granted before the behaviour starts

VARIABLES paid, granted, returned

vars == <<paid, granted, returned>>

Init ==
    /\ paid = Settled
    /\ granted = Settled
    /\ returned = {}

Pay(o) ==
    /\ o \notin paid
    /\ paid' = paid \cup {o}
    /\ UNCHANGED <<granted, returned>>

Grant(o) ==
    /\ o \in paid \ granted
    /\ granted' = granted \cup {o}
    /\ UNCHANGED <<paid, returned>>

Return(o) ==
    /\ o \in (granted \cap Returnable) \ returned
    /\ returned' = returned \cup {o}
    /\ UNCHANGED <<paid, granted>>

Next == \E o \in Orders : Pay(o) \/ Grant(o) \/ Return(o)

Spec == Init /\ [][Next]_vars
=============================================================================
