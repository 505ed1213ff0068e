---------------------------- MODULE MCSettlement ----------------------------
(* Instances of Settlement for TLC.                                         *)
EXTENDS Settlement, TLC

CONSTANTS o1, o2, o3, s1, s2, t1, t2

TxSymmetry == Permutations(Txs)

(* One payer who books the cohort, may let the checkout expire and book     *)
(* again; the second order is payable at two gateways and by hand.          *)
RebookPayerOf    == o1 :> s1 @@ o2 :> s1
RebookItemOf     == o1 :> "COHORT" @@ o2 :> "COHORT"
RebookOrderOf    == 1 :> o1 @@ 2 :> o2 @@ 3 :> o2 @@ 4 :> o2
RebookProviderOf == 1 :> "PAYSTACK" @@ 2 :> "PAYSTACK" @@ 3 :> "FLUTTERWAVE"
                    @@ 4 :> "MANUAL"

(* Two payers and one seat; the first also asks for a private package.      *)
RivalsPayerOf    == o1 :> s1 @@ o2 :> s2 @@ o3 :> s1
RivalsItemOf     == o1 :> "COHORT" @@ o2 :> "COHORT" @@ o3 :> "PRIVATE_PACKAGE"
RivalsOrderOf    == 1 :> o1 @@ 2 :> o2
RivalsProviderOf == 1 :> "PAYSTACK" @@ 2 :> "MANUAL"
=============================================================================
