----------------------------- MODULE ReplayWindow -----------------------------
(***************************************************************************)
(* What the nonce handling of CryptStateOCB2 promises about one direction, *)
(* stated on plain packet numbers: packets are delivered at most once      *)
(* between two synchronisations, at most Reach ahead of the newest one     *)
(* delivered and less than LateWindow behind it, and a late packet never   *)
(* moves the newest one back.                                              *)
(***************************************************************************)
EXTENDS Integers

CONSTANTS Reach, LateWindow

VARIABLES
    newest,     \* number of the newest packet delivered, or the synchronised one
    delivered   \* numbers delivered since the last synchronisation

windowVars == <<newest, delivered>>

Init == newest \in Nat /\ delivered = {}

DeliverAhead(n) ==
    /\ n > newest /\ n - newest <= Reach
    /\ newest' = n

DeliverLate(n) ==
    /\ n < newest /\ newest - n < LateWindow
    /\ newest' = newest

Deliver ==
    \E n \in delivered' :
        /\ n \notin delivered
        /\ delivered' = delivered \cup {n}
        /\ DeliverAhead(n) \/ DeliverLate(n)

Synchronise == newest' \in Nat /\ delivered' = {}

Next == Deliver \/ Synchronise

Spec == Init /\ [][Next]_windowVars
=============================================================================
