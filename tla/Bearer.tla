-------------------------------- MODULE Bearer --------------------------------
(***************************************************************************)
(* What an acknowledged bearer promises for the SDUs it takes on: each is  *)
(* delivered at most once, only after it was sent, and the sender is told  *)
(* of the delivery of an SDU only when it has taken place.                 *)
(***************************************************************************)
CONSTANT Sdus

VARIABLES
    sending,     \* SDUs given to the lower layer, at least in part
    delivered,   \* times each SDU was handed to the upper layer of the receiver
    confirmed    \* SDUs the sender has dropped as acknowledged

bvars == <<sending, delivered, confirmed>>

Init == sending = {} /\ delivered = [n \in Sdus |-> 0] /\ confirmed = {}

Start(n) ==
    /\ n \in Sdus \ sending
    /\ sending' = sending \cup {n}
    /\ UNCHANGED <<delivered, confirmed>>

Deliver(n) ==
    /\ n \in sending /\ delivered[n] = 0
    /\ delivered' = [delivered EXCEPT ![n] = 1]
    /\ UNCHANGED <<sending, confirmed>>

Confirm(S) ==
    /\ S # {} /\ S \subseteq {n \in sending : delivered[n] = 1} \ confirmed
    /\ confirmed' = confirmed \cup S
    /\ UNCHANGED <<sending, delivered>>

Next ==
    \/ \E n \in Sdus : Start(n) \/ Deliver(n)
    \/ \E S \in SUBSET Sdus : Confirm(S)

Spec == Init /\ [][Next]_bvars
=============================================================================
