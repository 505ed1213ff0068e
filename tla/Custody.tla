------------------------------ MODULE Custody -------------------------------
(***************************************************************************)
(* What settlement and escrow promise about the money of an order, with    *)
(* the requests and their interleavings left out: it is held for the tutor *)
(* once, when the order is settled, and leaves escrow once, to the tutor   *)
(* or back to the payer.                                                   *)
(***************************************************************************)
CONSTANT Orders

VARIABLE custody

CustodyInit == custody = [o \in Orders |-> "payer"]

Move(o, from, to) ==
    /\ custody[o] = from
    /\ custody' = [custody EXCEPT ![o] = to]

Hold(o)   == Move(o, "payer", "escrow")
PayOut(o) == Move(o, "escrow", "tutor")
Return(o) == Move(o, "escrow", "returned")

CustodyNext == \E o \in Orders : Hold(o) \/ PayOut(o) \/ Return(o)

CustodySpec == CustodyInit /\ [][CustodyNext]_custody
=============================================================================
