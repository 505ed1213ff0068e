------------------------------ MODULE MCEscrow ------------------------------
(* Instances of Escrow for TLC.                                             *)
EXTENDS Escrow, TLC

CONSTANTS o1, o2, s1, t1, t2

TxSymmetry == Permutations(Txs)

(* A cohort order payable at a gateway and by hand, a Plus subscription by  *)
(* hand only.                                                               *)
TwoPayerOf    == o1 :> s1 @@ o2 :> s1
TwoItemOf     == o1 :> "COHORT" @@ o2 :> "PLUS_SUBSCRIPTION"
TwoOrderOf    == 1 :> o1 @@ 2 :> o1 @@ 3 :> o2
TwoProviderOf == 1 :> "PAYSTACK" @@ 2 :> "MANUAL" @@ 3 :> "MANUAL"

=============================================================================
