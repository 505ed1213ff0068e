---------------------------- MODULE EscrowProofs ----------------------------
(***************************************************************************)
(* The money of orders, for any number of orders, payments, payers and     *)
(* requests.  First settlements and sweeps alone (Settlement): IInv, the   *)
(* inductive invariant, adds to the properties what the requests in flight *)
(* may rely on: who holds the lock of an order, which attempts nobody else *)
(* can see, which rows a sweep has locked.  One lemma per action shows     *)
(* that it keeps Core, the part of IInv that refunds keep too; the seats   *)
(* of paid orders come after it.                                           *)
(* Then releases and refunds as well (Escrow): the books agree, a hold has *)
(* a payment behind it, and the detailed system implements Custody.  Its   *)
(* invariant EscrowInv extends Core; that refunds keep Core rests on the   *)
(* lock of the order row, for which a refund waits as a settler does.      *)
(***************************************************************************)
EXTENDS Escrow, TLAPS, FiniteSetTheorems

-----------------------------------------------------------------------------
(* What several actions share.                                              *)

(* A free request slot is a well-typed transaction.                         *)
LEMMA IdleTyped == Idle \in Transaction
  BY DEF Idle, Transaction, Ops, SeatStatus, HoldStatus

(* Ending a request, committed or rolled back, leaves tx well-typed.        *)
LEMMA EndTyped ==
    ASSUME TypeOK, NEW t \in Txs, tx' = [tx EXCEPT ![t] = Idle]
    PROVE  tx' \in [Txs -> Transaction]
  BY IdleTyped DEF TypeOK

(* A request that ends, having written its own payment at most, exposes no  *)
(* attempt that another request is inserting.                               *)
LEMMA RequestEnds ==
    ASSUME TypeOK, RequestsWellFormed, InsertsAreUnseen, NEW t \in Txs,
           tx' = [tx EXCEPT ![t] = Idle],
           \A q \in Payments : q # tx[t].pay => pay'[q] = pay[q],
           pay' = pay \/ tx[t].pay \in Payments
    PROVE  InsertsAreUnseen'
<1> SUFFICES ASSUME NEW u \in Txs, tx'[u].op \in {"initiate", "manual"}
             PROVE  /\ pay'[tx'[u].pay] = "NONE"
                    /\ \A v \in Txs : tx'[v].pay = tx'[u].pay => v = u
  BY DEF InsertsAreUnseen
<1>1. u # t /\ tx'[u] = tx[u]
  BY DEF TypeOK, Idle
<1>2. tx[u].pay \in Payments /\ tx[u].pay # tx[t].pay
  BY <1>1 DEF RequestsWellFormed, InsertsAreUnseen, Settlers
<1>3. pay'[tx[u].pay] = "NONE"
  BY <1>1, <1>2 DEF InsertsAreUnseen
<1>4. ASSUME NEW v \in Txs, tx'[v].pay = tx[u].pay PROVE v = u
  <2>1. v # t
    BY <1>2, <1>4, ConstantsAssumption DEF TypeOK, Idle
  <2> QED BY <1>1, <1>4, <2>1 DEF InsertsAreUnseen, TypeOK
<1> QED BY <1>1, <1>3, <1>4

(* A step that changes neither orders nor payments, holds, activations,     *)
(* captures and the status of a seat keeps what settlement promises.        *)
LEMMA NothingSettles ==
    ASSUME SettledExactlyOnce, FundedByCapture,
           UNCHANGED <<order, pay, hold, access, captured>>
    PROVE  SettledExactlyOnce' /\ FundedByCapture'
  BY DEF SettledExactlyOnce, Succeeded, FundedByCapture

(* An attempt that is inserted or voided is not a success of its order.     *)
LEMMA NoSuccessAdded ==
    ASSUME TypeOK, SettledExactlyOnce, NEW q \in Payments, pay[q] # "SUCCESS", 
           NEW status, status # "SUCCESS", pay' = [pay EXCEPT ![q] = status],
           UNCHANGED <<order, hold, access>>
    PROVE  SettledExactlyOnce'
<1>1. \A o : Succeeded(o)' = Succeeded(o)
  BY DEF Succeeded, TypeOK
<1> QED BY <1>1 DEF SettledExactlyOnce

-----------------------------------------------------------------------------
(* One lemma per action.                                                    *)

(* The cutoff passing, and deliveries that settle nothing, touch neither a  *)
(* request nor anything that settlement decides.                            *)
LEMMA BookkeepingKeeps ==
    ASSUME Core,
           \/ \E s \in Payers : Age(s)
           \/ \E q \in Payments : WebhookBadSignature(q) \/ WebhookConsume(q)
    PROVE  Core'
<1>1. /\ UNCHANGED <<order, pay, captured, hold, access, tx>>
      /\ \A s \in Payers : seat'[s].status = seat[s].status
  BY DEF Core, TypeOK, Enrollment, Age, WebhookBadSignature, WebhookConsume, settled
<1>2. TypeOK'
  <2>1. ASSUME NEW s \in Payers, Age(s) PROVE TypeOK'
    BY <2>1 DEF Core, TypeOK, Enrollment, Age, settled
  <2>2. ASSUME NEW q \in Payments, WebhookBadSignature(q) \/ WebhookConsume(q)
        PROVE  TypeOK'
    BY <2>2 DEF Core, TypeOK, WebhookBadSignature, WebhookConsume, settled
  <2> QED
    BY <2>1, <2>2
<1>3. RequestsWellFormed' /\ WinnerIsAlone' /\ InsertsAreUnseen' /\ SettlersAreFunded'
  BY <1>1 DEF Core, RequestsWellFormed, WinnerIsAlone, InsertsAreUnseen, SettlersAreFunded
<1>4. SettledExactlyOnce' /\ FundedByCapture'
  BY <1>1 DEF Core, SettledExactlyOnce, Succeeded, FundedByCapture
<1> QED
  BY <1>2, <1>3, <1>4 DEF Core

(* A seat changes hands, or is given back.                                   *)
LEMMA SeatTaken ==
    ASSUME TypeOK, NEW s \in Payers, NEW o \in Orders
    PROVE  [seat[s] EXCEPT !.status = "PENDING", !.ord = o] \in Enrollment
<1>1. seat[s] \in Enrollment BY DEF TypeOK
<1> QED BY <1>1 DEF Enrollment, SeatStatus

LEMMA SeatCancelled ==
    ASSUME TypeOK, NEW s \in Payers
    PROVE  [seat[s] EXCEPT !.status = "CANCELLED"] \in Enrollment
<1>1. seat[s] \in Enrollment BY DEF TypeOK
<1> QED BY <1>1 DEF Enrollment, SeatStatus

(* A booking inserts its order and takes a seat that was free: no request in
   flight has that seat locked or has seen it confirmed. *)
LEMMA CreateCohortBookingKeeps ==
    ASSUME Core, NEW o \in Orders, CreateCohortBooking(o)
    PROVE  Core'
<1>1. TypeOK'
  <2> USE ConstantsAssumption DEF Core, TypeOK, CreateCohortBooking, settled
  <2>1. order' \in [Orders -> OrderStatus]
    BY DEF OrderStatus
  <2>2. seat' \in [Payers -> Enrollment]
    <3> DEFINE s == PayerOf[o]
    <3>0. s \in Payers OBVIOUS
    <3>1. [seat[s] EXCEPT !.status = "PENDING", !.ord = o] \in Enrollment
      BY <3>0, SeatTaken
    <3>2. seat' = [seat EXCEPT ![s] = [seat[s] EXCEPT !.status = "PENDING", !.ord = o]]
      OBVIOUS
    <3> QED BY <3>0, <3>1, <3>2
  <2> QED BY <2>1, <2>2
<1>2. RequestsWellFormed'
  BY DEF Core, CreateCohortBooking, RequestsWellFormed
<1>3. WinnerIsAlone'
  BY DEF Core, CreateCohortBooking, WinnerIsAlone, Settleable
<1>4. InsertsAreUnseen'
  BY DEF Core, CreateCohortBooking, InsertsAreUnseen, settled
<1>5. SettlersAreFunded'
  BY DEF Core, CreateCohortBooking, SettlersAreFunded, settled
<1>6. SettledExactlyOnce'
  BY DEF Core, CreateCohortBooking, SettledExactlyOnce, Succeeded, settled
<1>7. FundedByCapture'
  BY DEF Core, CreateCohortBooking, FundedByCapture, settled
<1> QED
  BY <1>1, <1>2, <1>3, <1>4, <1>5, <1>6, <1>7 DEF Core

(* An order without an enrollment.                                          *)
LEMMA CreateOtherOrderKeeps ==
    ASSUME Core, NEW o \in Orders, CreateOtherOrder(o)
    PROVE  Core'
<1>1. TypeOK'
  BY ConstantsAssumption DEF Core, TypeOK, CreateOtherOrder, settled,
     OrderStatus, PaymentStatus, SeatStatus, HoldStatus
<1>2. RequestsWellFormed'
  BY DEF Core, CreateOtherOrder, RequestsWellFormed
<1>3. WinnerIsAlone'
  BY DEF Core, CreateOtherOrder, WinnerIsAlone, Settleable
<1>4. InsertsAreUnseen'
  BY DEF Core, CreateOtherOrder, InsertsAreUnseen, settled
<1>5. SettlersAreFunded'
  BY DEF Core, CreateOtherOrder, SettlersAreFunded, settled
<1>6. SettledExactlyOnce'
  BY DEF Core, CreateOtherOrder, SettledExactlyOnce, Succeeded, settled
<1>7. FundedByCapture'
  BY DEF Core, CreateOtherOrder, FundedByCapture, settled
<1> QED
  BY <1>1, <1>2, <1>3, <1>4, <1>5, <1>6, <1>7 DEF Core

(* A capture is the only step that changes what the gateway holds, once.    *)
LEMMA CaptureKeeps ==
    ASSUME Core, NEW q \in Payments, Capture(q)
    PROVE  Core'
<1>1. TypeOK'
  BY ConstantsAssumption DEF Core, TypeOK, Capture, settled, OrderStatus,
     PaymentStatus, SeatStatus, HoldStatus
<1>2. RequestsWellFormed'
  BY DEF Core, Capture, RequestsWellFormed
<1>3. WinnerIsAlone'
  BY DEF Core, Capture, WinnerIsAlone
<1>4. InsertsAreUnseen'
  BY DEF Core, Capture, InsertsAreUnseen, settled
<1>5. SettlersAreFunded'
  BY DEF Core, Capture, SettlersAreFunded, settled
<1>6. SettledExactlyOnce'
  BY DEF Core, Capture, SettledExactlyOnce, Succeeded, settled
<1>7. FundedByCapture'
  BY DEF Core, Capture, FundedByCapture, settled
<1> QED
  BY <1>1, <1>2, <1>3, <1>4, <1>5, <1>6, <1>7 DEF Core

(* A new attempt is about to be inserted.                                   *)
LEMMA InitiateBeginKeeps ==
    ASSUME Core, NEW t \in Txs, NEW q \in Payments, InitiateBegin(t, q)
    PROVE  Core'
<1>1. TypeOK'
  BY ConstantsAssumption DEF Core, TypeOK, InitiateBegin, settled,
     OrderStatus, PaymentStatus, SeatStatus, HoldStatus, Request, Idle,
     Transaction, Ops
<1>2. RequestsWellFormed'
  BY DEF Core, InitiateBegin, RequestsWellFormed, Request
<1>3. WinnerIsAlone'
  BY DEF Core, InitiateBegin, WinnerIsAlone, Request
<1>4. InsertsAreUnseen'
  BY DEF Core, InitiateBegin, InsertsAreUnseen, Fresh, Request, settled
<1>5. SettlersAreFunded'
  BY DEF Core, InitiateBegin, SettlersAreFunded, Request, settled
<1>6. SettledExactlyOnce' /\ FundedByCapture'
  BY NothingSettles DEF Core, InitiateBegin, settled
<1> QED
  BY <1>1, <1>2, <1>3, <1>4, <1>5, <1>6 DEF Core

(* A delivery starts to settle a captured payment.                          *)
LEMMA WebhookBeginKeeps ==
    ASSUME Core, NEW t \in Txs, NEW q \in Payments, WebhookBegin(t, q)
    PROVE  Core'
<1>1. TypeOK'
  BY ConstantsAssumption DEF Core, TypeOK, WebhookBegin, settled,
     OrderStatus, PaymentStatus, SeatStatus, HoldStatus, Request, Idle,
     Transaction, Ops
<1>2. RequestsWellFormed'
  BY DEF Core, WebhookBegin, RequestsWellFormed, Request
<1>3. WinnerIsAlone'
  BY DEF Core, WebhookBegin, WinnerIsAlone, Request
<1>4. InsertsAreUnseen'
  BY DEF Core, WebhookBegin, Reconciles, InsertsAreUnseen, Request, settled,
     SettlersAreFunded
<1>5. SettlersAreFunded'
  BY DEF Core, WebhookBegin, Reconciles, SettlersAreFunded, Request, settled
<1>6. SettledExactlyOnce' /\ FundedByCapture'
  BY NothingSettles DEF Core, WebhookBegin, settled
<1> QED
  BY <1>1, <1>2, <1>3, <1>4, <1>5, <1>6 DEF Core

(* A verification starts with an attempt that it has yet to ask about.      *)
LEMMA VerifyBeginKeeps ==
    ASSUME Core, NEW t \in Txs, NEW q \in Payments, VerifyBegin(t, q)
    PROVE  Core'
<1>1. TypeOK'
  BY ConstantsAssumption DEF Core, TypeOK, VerifyBegin, settled, OrderStatus,
     PaymentStatus, SeatStatus, HoldStatus, Request, Idle, Transaction, Ops
<1>2. RequestsWellFormed'
  BY DEF Core, VerifyBegin, RequestsWellFormed, Request
<1>3. WinnerIsAlone'
  BY DEF Core, VerifyBegin, WinnerIsAlone, Request
<1>4. InsertsAreUnseen'
  BY DEF Core, VerifyBegin, InsertsAreUnseen, PendingAttempts, Request,
     settled
<1>5. SettlersAreFunded'
  BY DEF Core, VerifyBegin, SettlersAreFunded, Request, settled
<1>6. SettledExactlyOnce' /\ FundedByCapture'
  BY NothingSettles DEF Core, VerifyBegin, settled
<1> QED
  BY <1>1, <1>2, <1>3, <1>4, <1>5, <1>6 DEF Core

(* A manual confirmation inserts its placeholder.                           *)
LEMMA ManualBeginKeeps ==
    ASSUME Core, NEW t \in Txs, NEW q \in Payments, ManualBegin(t, q)
    PROVE  Core'
<1>1. TypeOK'
  BY ConstantsAssumption DEF Core, TypeOK, ManualBegin, settled, OrderStatus,
     PaymentStatus, SeatStatus, HoldStatus, Request, Idle, Transaction, Ops
<1>2. RequestsWellFormed'
  BY DEF Core, ManualBegin, RequestsWellFormed, Request
<1>3. WinnerIsAlone'
  BY DEF Core, ManualBegin, WinnerIsAlone, Request
<1>4. InsertsAreUnseen'
  BY DEF Core, ManualBegin, InsertsAreUnseen, Fresh, Request, settled
<1>5. SettlersAreFunded'
  BY DEF Core, ManualBegin, SettlersAreFunded, Request, settled
<1>6. SettledExactlyOnce' /\ FundedByCapture'
  BY NothingSettles DEF Core, ManualBegin, settled
<1> QED
  BY <1>1, <1>2, <1>3, <1>4, <1>5, <1>6 DEF Core

(* The attempt becomes visible, not successful.                             *)
LEMMA InitiateCommitKeeps ==
    ASSUME Core, NEW t \in Txs, InitiateCommit(t)
    PROVE  Core'
<1>1. TypeOK'
  BY EndTyped DEF Core, TypeOK, InitiateCommit, PaymentStatus
<1>2. RequestsWellFormed'
  BY DEF Core, InitiateCommit, RequestsWellFormed, Idle, Settlers
<1>3. WinnerIsAlone'
  BY DEF Core, InitiateCommit, WinnerIsAlone, Idle
<1>4. InsertsAreUnseen'
  BY RequestEnds DEF Core, TypeOK, RequestsWellFormed, Settlers, InitiateCommit
<1>5. SettlersAreFunded'
  BY DEF Core, InitiateCommit, SettlersAreFunded, Idle
<1>6. SettledExactlyOnce'
  <2>1. tx[t].pay \in Payments /\ pay[tx[t].pay] = "NONE"
    BY DEF Core, RequestsWellFormed, InsertsAreUnseen, InitiateCommit
  <2>2. PICK status \in {"PENDING", "FAILED"} : pay' = [pay EXCEPT ![tx[t].pay] = status]
    BY DEF InitiateCommit
  <2> QED BY <2>1, <2>2, NoSuccessAdded DEF Core, InitiateCommit
<1>7. FundedByCapture'
  BY DEF Core, InitiateCommit, FundedByCapture
<1> QED
  BY <1>1, <1>2, <1>3, <1>4, <1>5, <1>6, <1>7 DEF Core

(* The verification goes on, or ends.                                       *)
LEMMA VerifyReloadKeeps ==
    ASSUME Core, NEW t \in Txs, VerifyReload(t)
    PROVE  Core'
<1>1. TypeOK'
  <2>1. [tx[t] EXCEPT !.pc = "read"] \in Transaction
    BY DEF Core, TypeOK, Transaction
  <2> QED BY <2>1, IdleTyped DEF Core, TypeOK, VerifyReload, settled
<1>2. RequestsWellFormed'
  BY DEF Core, VerifyReload, RequestsWellFormed, Idle, Settlers
<1>3. WinnerIsAlone'
  BY DEF Core, VerifyReload, WinnerIsAlone, Idle
<1>4. InsertsAreUnseen'
  <2>1. CASE tx' = [tx EXCEPT ![t] = Idle]
    BY <2>1, RequestEnds DEF Core, VerifyReload, settled
  <2>2. CASE tx' = [tx EXCEPT ![t].pc = "read"]
    <3>1. \A u \in Txs : tx'[u].op = tx[u].op /\ tx'[u].pay = tx[u].pay
      BY <2>2 DEF Core, TypeOK, Transaction
    <3> QED BY <3>1 DEF Core, VerifyReload, settled, InsertsAreUnseen
  <2> QED BY <2>1, <2>2 DEF VerifyReload
<1>5. SettlersAreFunded'
  BY DEF Core, VerifyReload, Reconciles, SettlersAreFunded, Idle, settled
<1>6. SettledExactlyOnce' /\ FundedByCapture'
  BY NothingSettles DEF Core, VerifyReload, settled
<1> QED
  BY <1>1, <1>2, <1>3, <1>4, <1>5, <1>6 DEF Core

(* Only one settler gets the lock of the order row.                         *)
LEMMA TryMarkPaidKeeps ==
    ASSUME Core, NEW t \in Txs, TryMarkPaid(t)
    PROVE  Core'
<1>1. TypeOK'
  <2> DEFINE o == tx[t].ord
             seen == IF ItemOf[o] = "COHORT" THEN seat[PayerOf[o]].status ELSE "NONE"
  <2>1. o \in Orders /\ PayerOf[o] \in Payers
    BY ConstantsAssumption DEF Core, RequestsWellFormed, Settlers, TryMarkPaid
  <2>2. seen \in SeatStatus
    BY <2>1 DEF Core, TypeOK, SeatStatus, Enrollment
  <2>3. [tx[t] EXCEPT !.pc = "won", !.seen = seen] \in Transaction
    <3>1. tx[t] \in Transaction
      BY DEF Core, TypeOK
    <3> HIDE DEF seen
    <3> QED BY <2>2, <3>1 DEF Transaction
  <2>4. tx' = [tx EXCEPT ![t] = [tx[t] EXCEPT !.pc = "won", !.seen = seen]]
    BY DEF TryMarkPaid, Core, TypeOK
  <2> HIDE DEF o, seen
  <2>5. tx' \in [Txs -> Transaction]
    BY <2>3, <2>4 DEF Core, TypeOK
  <2>6. rewarded' \subseteq Payers
    BY <2>1 DEF TryMarkPaid, Core, TypeOK, o
  <2> QED BY <2>5, <2>6 DEF Core, TypeOK, TryMarkPaid
<1>2. RequestsWellFormed'
  BY DEF Core, TryMarkPaid, RequestsWellFormed, Settlers, TypeOK
<1>3. WinnerIsAlone'
  BY DEF Core, TryMarkPaid, WinnerIsAlone, OrderLocked, TypeOK
<1>4. InsertsAreUnseen'
  BY DEF Core, TryMarkPaid, InsertsAreUnseen, TypeOK
<1>5. SettlersAreFunded'
  BY DEF Core, TryMarkPaid, SettlersAreFunded, TypeOK
<1>6. SettledExactlyOnce' /\ FundedByCapture'
  BY NothingSettles DEF Core, TryMarkPaid, settled
<1> QED
  BY <1>1, <1>2, <1>3, <1>4, <1>5, <1>6 DEF Core

(* The winner's commit: before it nothing of the order was settled, after   *)
(* it everything is, once, and no other order is touched.                   *)
LEMMA WinnersCommit ==
    ASSUME Core, NEW t \in Txs, SettleCommit(t)
    PROVE  \E o \in Orders, q \in Payments :
           /\ tx[t].ord = o /\ tx[t].pay = q /\ OrderOf[q] = o
           /\ order[o] \in Settleable
           /\ Succeeded(o) = {} /\ hold[o] = "NONE" /\ access[o] = 0
           /\ order' = [order EXCEPT ![o] = "PAID"]
           /\ pay' = [pay EXCEPT ![q] = "SUCCESS"]
           /\ hold' = [hold EXCEPT ![o] = HoldCreated(o)]
           /\ access' = [access EXCEPT ![o] = Activated(o)]
           /\ ProviderOf[q] # "MANUAL" => captured[q] = "EXACT"
           /\ Succeeded(o)' = {q}
           /\ \A p \in Orders : p # o => Succeeded(p)' = Succeeded(p)
<1>1. PICK o \in Orders, q \in Payments :
          tx[t].ord = o /\ tx[t].pay = q /\ OrderOf[q] = o /\ tx[t].op \in Settlers
  BY ConstantsAssumption DEF Core, RequestsWellFormed, SettleCommit
<1>2. order[o] \in Settleable
  BY <1>1 DEF Core, WinnerIsAlone, SettleCommit
<1>3. Succeeded(o) = {} /\ hold[o] = "NONE" /\ access[o] = 0
  BY <1>1, <1>2 DEF Core, SettledExactlyOnce, Settleable
<1>4. /\ order' = [order EXCEPT ![o] = "PAID"]
      /\ pay' = [pay EXCEPT ![q] = "SUCCESS"]
      /\ hold' = [hold EXCEPT ![o] = HoldCreated(o)]
      /\ access' = [access EXCEPT ![o] = Activated(o)]
  BY <1>1 DEF SettleCommit
<1>5. pay \in [Payments -> PaymentStatus]
  BY DEF Core, TypeOK
<1>6. ProviderOf[q] # "MANUAL" => captured[q] = "EXACT"
  BY <1>1 DEF Core, SettlersAreFunded, Settlers, SettleCommit
<1>7. Succeeded(o)' = {q}
  BY <1>1, <1>3, <1>4, <1>5 DEF Succeeded
<1>8. \A p \in Orders : p # o => Succeeded(p)' = Succeeded(p)
  BY <1>1, <1>4, <1>5 DEF Succeeded
<1> QED
  BY <1>1, <1>2, <1>3, <1>4, <1>6, <1>7, <1>8

LEMMA SettleCommitSettles ==
    ASSUME Core, NEW t \in Txs, SettleCommit(t)
    PROVE  SettledExactlyOnce' /\ FundedByCapture'
<1>1. PICK o \in Orders, q \in Payments :
      /\ hold[o] = "NONE" /\ access[o] = 0
      /\ order' = [order EXCEPT ![o] = "PAID"]
      /\ pay' = [pay EXCEPT ![q] = "SUCCESS"]
      /\ hold' = [hold EXCEPT ![o] = HoldCreated(o)]
      /\ access' = [access EXCEPT ![o] = Activated(o)]
      /\ ProviderOf[q] # "MANUAL" => captured[q] = "EXACT"
      /\ Succeeded(o)' = {q}
      /\ \A p \in Orders : p # o => Succeeded(p)' = Succeeded(p)
  BY WinnersCommit
<1>2. /\ order \in [Orders -> OrderStatus]
      /\ pay \in [Payments -> PaymentStatus]
      /\ hold \in [Orders -> HoldStatus]
      /\ access \in [Orders -> Nat]
      /\ SettledExactlyOnce /\ FundedByCapture
  BY DEF Core, TypeOK
<1>3. captured' = captured
  BY DEF SettleCommit
<1>4. SettledExactlyOnce'
  <2> SUFFICES ASSUME NEW p \in Orders
       PROVE /\ order'[p] \in {"NONE", "PENDING", "CANCELLED"} =>
               Succeeded(p)' = {} /\ hold'[p] = "NONE" /\ access'[p] = 0
             /\ order'[p] = "PAID" =>
               /\ \E r \in Succeeded(p)' : Succeeded(p)' = {r}
               /\ hold'[p] # "NONE" <=> p \in Tutored
               /\ access'[p] = IF ItemOf[p] = "COHORT" THEN 0 ELSE 1
    BY DEF SettledExactlyOnce
  <2>1. CASE p = o
    <3>1. order'[o] = "PAID" BY <1>1, <1>2
    <3>2. hold'[o] # "NONE" <=> o \in Tutored BY <1>1, <1>2 DEF HoldCreated
    <3>3. access'[o] = IF ItemOf[o] = "COHORT" THEN 0 ELSE 1
      BY <1>1, <1>2, ConstantsAssumption DEF Activated, ItemTypes
    <3>4. Succeeded(o)' = {q} BY <1>1
    <3> QED BY <2>1, <3>1, <3>2, <3>3, <3>4
  <2>2. CASE p # o
    <3>1. order'[p] = order[p] /\ hold'[p] = hold[p] /\ access'[p] = access[p]
      BY <2>2, <1>1, <1>2
    <3> QED BY <2>2, <3>1, <1>1, <1>2 DEF SettledExactlyOnce
  <2> QED BY <2>1, <2>2
<1>5. FundedByCapture'
  BY <1>1, <1>2, <1>3 DEF FundedByCapture
<1> QED BY <1>4, <1>5

(* The winner's commit, with what it does to the other requests.            *)
LEMMA SettleCommitKeeps ==
    ASSUME Core, NEW t \in Txs, SettleCommit(t)
    PROVE  Core'
<1>1. TypeOK'
  <2>1. order' \in [Orders -> OrderStatus] /\ pay' \in [Payments -> PaymentStatus]
    BY DEF Core, TypeOK, SettleCommit, OrderStatus, PaymentStatus
  <2>2. hook' \in [Payments -> {"NONE", "RECEIVED", "PROCESSED"}]
    BY DEF Core, TypeOK, SettleCommit
  <2>3. seat' \in [Payers -> Enrollment]
    <3> DEFINE s == PayerOf[tx[t].ord]
    <3>1. CASE seat' = seat
      BY <3>1 DEF Core, TypeOK
    <3>2. CASE seat' = [seat EXCEPT ![s].status = "CONFIRMED"]
      <4>1. s \in Payers => [seat[s] EXCEPT !.status = "CONFIRMED"] \in Enrollment
        BY DEF Core, TypeOK, SeatStatus, Enrollment
      <4>2. CASE s \in Payers
        BY <3>2, <4>1, <4>2 DEF Core, TypeOK
      <4>3. CASE s \notin Payers
        BY <3>2, <4>3 DEF Core, TypeOK
      <4> QED BY <4>2, <4>3
    <3>3. \/ seat' = seat
          \/ seat' = [seat EXCEPT ![s].status = "CONFIRMED"]
      BY DEF SettleCommit
    <3> QED BY <3>1, <3>2, <3>3
  <2>4. enrolled' \in Int /\ hold' \in [Orders -> HoldStatus]
    <3>1. enrolled' \in {enrolled, enrolled + 1}
      BY DEF SettleCommit
    <3>2. hold' = [hold EXCEPT ![tx[t].ord] = HoldCreated(tx[t].ord)]
      BY DEF SettleCommit
    <3>3. tx[t].ord \in Orders
      BY ConstantsAssumption DEF Core, RequestsWellFormed, Settlers, SettleCommit
    <3>4. HoldCreated(tx[t].ord) \in HoldStatus
      BY <3>3 DEF Core, TypeOK, HoldStatus, HoldCreated
    <3> QED
      BY <3>1, <3>2, <3>3, <3>4 DEF Core, TypeOK
  <2>5. access' \in [Orders -> Nat]
    <3> DEFINE o == tx[t].ord
    <3>1. o \in Orders
      BY ConstantsAssumption DEF Core, RequestsWellFormed, Settlers, SettleCommit
    <3>2. access' = [access EXCEPT ![o] = Activated(o)]
      BY DEF SettleCommit
    <3>3. Activated(o) \in Nat
      BY <3>1, ConstantsAssumption DEF Core, TypeOK, Activated, ItemTypes
    <3> QED BY <3>2, <3>3 DEF Core, TypeOK
  <2>6. tx' \in [Txs -> Transaction]
    BY EndTyped DEF SettleCommit, Core
  <2>7. UNCHANGED <<captured, rewarded, aged>>
    BY DEF SettleCommit
  <2> QED
    BY <2>1, <2>2, <2>3, <2>4, <2>5, <2>6, <2>7 DEF Core, TypeOK
<1>2. RequestsWellFormed'
  BY DEF Core, SettleCommit, RequestsWellFormed, Idle, Settlers
<1>3. WinnerIsAlone'
  BY DEF Core, SettleCommit, WinnerIsAlone, Idle, TypeOK
<1>4. InsertsAreUnseen'
  BY RequestEnds DEF Core, TypeOK, RequestsWellFormed, Settlers, SettleCommit
<1>5. SettlersAreFunded'
  BY DEF Core, SettleCommit, SettlersAreFunded, Idle
<1> QED
  BY <1>1, <1>2, <1>3, <1>4, <1>5, SettleCommitSettles DEF Core

(* A settler that lost writes nothing that counts as a success.             *)
LEMMA SettleLostKeeps ==
    ASSUME Core, NEW t \in Txs, SettleLost(t)
    PROVE  Core'
<1>1. TypeOK'
  BY ConstantsAssumption DEF Core, TypeOK, SettleLost, settled, OrderStatus,
     PaymentStatus, SeatStatus, HoldStatus, Idle, Transaction, Ops
<1>2. RequestsWellFormed'
  BY DEF Core, SettleLost, RequestsWellFormed, Idle, Settlers
<1>3. WinnerIsAlone'
  BY DEF Core, SettleLost, WinnerIsAlone, Idle
<1>4. InsertsAreUnseen'
  BY RequestEnds DEF Core, TypeOK, RequestsWellFormed, Settlers, SettleLost
<1>5. SettlersAreFunded'
  BY DEF Core, SettleLost, SettlersAreFunded, Idle
<1>6. SettledExactlyOnce'
  <2>1. CASE tx[t].op = "manual"
    <3>1. tx[t].pay \in Payments /\ pay[tx[t].pay] = "NONE"
      BY <2>1 DEF Core, RequestsWellFormed, InsertsAreUnseen, Settlers
    <3> QED BY <2>1, <3>1, NoSuccessAdded DEF Core, SettleLost
  <2>2. CASE tx[t].op # "manual"
    BY <2>2 DEF Core, SettleLost, SettledExactlyOnce, Succeeded
  <2> QED BY <2>1, <2>2
<1>7. FundedByCapture'
  BY DEF Core, SettleLost, FundedByCapture
<1> QED
  BY <1>1, <1>2, <1>3, <1>4, <1>5, <1>6, <1>7 DEF Core

(* A sweep locks PENDING rows that no other sweep has.                      *)
LEMMA SweepListKeeps ==
    ASSUME Core, NEW t \in Txs, SweepList(t)
    PROVE  Core'
<1>1. TypeOK'
  BY ConstantsAssumption DEF Core, TypeOK, SweepList, settled, OrderStatus,
     PaymentStatus, SeatStatus, HoldStatus, Idle, StaleSeats, Transaction,
     Ops
<1>2. RequestsWellFormed'
  BY DEF Core, SweepList, RequestsWellFormed, Settlers
<1>3. WinnerIsAlone'
  BY DEF Core, SweepList, WinnerIsAlone
<1>4. InsertsAreUnseen'
  BY DEF Core, SweepList, InsertsAreUnseen, settled
<1>5. SettlersAreFunded'
  BY DEF Core, SweepList, SettlersAreFunded, settled
<1>6. SettledExactlyOnce' /\ FundedByCapture'
  BY NothingSettles DEF Core, SweepList, settled
<1> QED
  BY <1>1, <1>2, <1>3, <1>4, <1>5, <1>6 DEF Core

(* The sweep cancels orders that are PENDING and not being settled.         *)
LEMMA SweepCommitKeeps ==
    ASSUME Core, NEW t \in Txs, SweepCommit(t)
    PROVE  Core'
<1>1. TypeOK'
  <2> USE ConstantsAssumption DEF Core, TypeOK, SweepCommit
  <2>1. order' \in [Orders -> OrderStatus]
    BY DEF OrderStatus
  <2>2. seat' \in [Payers -> Enrollment]
    <3>1. \A s \in Payers : seat[s] \in Enrollment
      OBVIOUS
    <3>2. seat' = [s \in Payers |-> IF s \in Expired(t)
                                    THEN [seat[s] EXCEPT !.status = "CANCELLED"] ELSE seat[s]]
      OBVIOUS
    <3> QED BY <3>1, <3>2, SeatCancelled
  <2>3. enrolled' \in Int
    <3>1. tx[t].rows \subseteq Payers BY DEF Transaction
    <3>2. Expired(t) \subseteq tx[t].rows BY DEF Expired
    <3>3. IsFiniteSet(Expired(t)) BY <3>1, <3>2, FS_Subset
    <3>4. Cardinality(Expired(t)) \in Nat BY <3>3, FS_CardinalityType
    <3> QED BY <3>4
  <2>4. tx' \in [Txs -> Transaction]
    BY EndTyped
  <2> QED BY <2>1, <2>2, <2>3, <2>4 DEF settled
<1>2. RequestsWellFormed'
  BY DEF Core, SweepCommit, RequestsWellFormed, Idle, Settlers
<1>3. WinnerIsAlone'
  BY ConstantsAssumption DEF Core, SweepCommit, WinnerIsAlone, Idle,
     OrderLocked, RequestsWellFormed
<1>4. InsertsAreUnseen'
  BY RequestEnds DEF Core, SweepCommit, settled
<1>5. SettlersAreFunded'
  BY DEF Core, SweepCommit, SettlersAreFunded, Idle, settled
<1>6. SettledExactlyOnce'
  BY DEF Core, SweepCommit, Expired, SettledExactlyOnce, Succeeded, settled
<1>7. FundedByCapture'
  BY DEF Core, SweepCommit, FundedByCapture, settled
<1> QED
  BY <1>1, <1>2, <1>3, <1>4, <1>5, <1>6, <1>7 DEF Core

(* A request that dies leaves its rows alone.                               *)
LEMMA RollbackKeeps ==
    ASSUME Core, NEW t \in Txs, Rollback(t)
    PROVE  Core'
<1>1. TypeOK'
  BY ConstantsAssumption DEF Core, TypeOK, Rollback, settled, OrderStatus,
     PaymentStatus, SeatStatus, HoldStatus, Idle, Transaction, Ops
<1>2. RequestsWellFormed'
  BY DEF Core, Rollback, RequestsWellFormed, Idle, Settlers
<1>3. WinnerIsAlone'
  BY DEF Core, Rollback, WinnerIsAlone, Idle
<1>4. InsertsAreUnseen'
  BY RequestEnds DEF Core, Rollback, settled
<1>5. SettlersAreFunded'
  BY DEF Core, Rollback, SettlersAreFunded, Idle, settled
<1>6. SettledExactlyOnce' /\ FundedByCapture'
  BY NothingSettles DEF Core, Rollback, settled
<1> QED
  BY <1>1, <1>2, <1>3, <1>4, <1>5, <1>6 DEF Core

-----------------------------------------------------------------------------
(* Every step of settlement, of whichever request, keeps the core.          *)
LEMMA CoreStep == Core /\ SettlementNext => Core'
<1> SUFFICES ASSUME Core, SettlementNext PROVE Core'
  OBVIOUS
<1>1. ASSUME NEW o \in Orders, CreateCohortBooking(o) \/ CreateOtherOrder(o)
      PROVE  Core'
  BY <1>1, CreateCohortBookingKeeps, CreateOtherOrderKeeps
<1>2. ASSUME NEW q \in Payments, Capture(q)
      PROVE  Core'
  BY <1>2, CaptureKeeps
<1>3. ASSUME NEW t \in Txs, NEW q \in Payments,
             \/ InitiateBegin(t, q) \/ WebhookBegin(t, q)
             \/ VerifyBegin(t, q)   \/ ManualBegin(t, q)
      PROVE  Core'
  BY <1>3, InitiateBeginKeeps, WebhookBeginKeeps, VerifyBeginKeeps, ManualBeginKeeps
<1>4. ASSUME NEW t \in Txs,
             \/ InitiateCommit(t) \/ VerifyReload(t)
             \/ TryMarkPaid(t)    \/ SettleCommit(t) \/ SettleLost(t)
      PROVE  Core'
  BY <1>4, InitiateCommitKeeps, VerifyReloadKeeps, TryMarkPaidKeeps, SettleCommitKeeps,
     SettleLostKeeps
<1>5. ASSUME NEW t \in Txs, SweepList(t) \/ SweepCommit(t) \/ Rollback(t)
      PROVE  Core'
  BY <1>5, SweepListKeeps, SweepCommitKeeps, RollbackKeeps
<1> QED
  BY <1>1, <1>2, <1>3, <1>4, <1>5, BookkeepingKeeps DEF SettlementNext

-----------------------------------------------------------------------------
(* The seats of paid orders.                                                *)

(* A settler's order is an order, and what a sweep has locked are seats.    *)
LEMMA RequestsKnowTheirRows ==
    ASSUME Core, NEW t \in Txs
    PROVE  /\ tx[t].rows \subseteq Payers
           /\ tx[t].pc = "won" => tx[t].ord \in Orders /\ PayerOf[tx[t].ord] \in Payers
<1>1. tx[t].rows \subseteq Payers
  BY DEF Core, TypeOK, Transaction
<1>2. ASSUME tx[t].pc = "won"
      PROVE  tx[t].ord \in Orders /\ PayerOf[tx[t].ord] \in Payers
  BY <1>2, ConstantsAssumption DEF Core, RequestsWellFormed
<1> QED
  BY <1>1, <1>2

(* A step that starts or ends a request, or moves one that has locked no    *)
(* row, and leaves the seats alone, breaks no lock on them.                 *)
LEMMA RequestsKeepLocks ==
    ASSUME Core, RowsStayLocked, NEW t \in Txs,
           \A u \in Txs \ {t} : tx'[u] = tx[u],
           tx'[t].pc \notin {"won", "locked"}, seat' = seat
    PROVE  RowsStayLocked'
  BY DEF RowsStayLocked

(* A booking takes a seat that was free: no request in flight has that seat *)
(* locked or has seen it confirmed.                                         *)
LEMMA CreateCohortBookingSeats ==
    ASSUME IInv, NEW o \in Orders, CreateCohortBooking(o)
    PROVE  RowsStayLocked' /\ PaidIsSeated'
<1>1. PayerOf[o] \in Payers /\ seat[PayerOf[o]].status \in {"NONE", "CANCELLED"}
  BY ConstantsAssumption DEF CreateCohortBooking
<1>2. \A s \in Payers : s # PayerOf[o] => seat'[s] = seat[s]
  BY DEF CreateCohortBooking, IInv, Core, TypeOK
<1>3. tx' = tx
  BY DEF CreateCohortBooking
<1>4. ASSUME NEW t \in Txs, tx[t].pc = "locked", NEW s \in tx[t].rows
      PROVE  seat'[s].status = "PENDING"
  BY <1>1, <1>2, <1>4, RequestsKnowTheirRows DEF IInv, RowsStayLocked
<1>5. ASSUME NEW t \in Txs, tx[t].pc = "won", ItemOf[tx[t].ord] = "COHORT",
             tx[t].seen = "CONFIRMED"
      PROVE  seat'[PayerOf[tx[t].ord]].status = "CONFIRMED"
  BY <1>1, <1>2, <1>5, RequestsKnowTheirRows DEF IInv, RowsStayLocked
<1>6. RowsStayLocked'
  BY <1>3, <1>4, <1>5 DEF IInv, RowsStayLocked
<1>7. PaidIsSeated'
  BY ConstantsAssumption DEF IInv, Core, CreateCohortBooking, PaidIsSeated, TypeOK
<1> QED
  BY <1>6, <1>7

(* The winner confirms the seat, unless it has seen it confirmed; a row that *)
(* a sweep has locked it waits for.                                         *)
LEMMA SettleCommitSeats ==
    ASSUME IInv, NEW t \in Txs, SettleCommit(t)
    PROVE  RowsStayLocked' /\ PaidIsSeated'
<1>1. RowsStayLocked'
  BY DEF IInv, Core, TypeOK, SettleCommit, RowsStayLocked, Idle, SeatLocked
<1>2. PICK o \in Orders, s \in Payers : tx[t].ord = o /\ PayerOf[o] = s
  BY ConstantsAssumption DEF IInv, Core, RequestsWellFormed, SettleCommit
<1>3. order' = [order EXCEPT ![o] = "PAID"]
  BY <1>2 DEF SettleCommit
<1>4. seat' = IF ItemOf[o] = "COHORT" /\ tx[t].seen # "CONFIRMED"
                  THEN [seat EXCEPT ![s].status = "CONFIRMED"] ELSE seat
  BY <1>2 DEF SettleCommit, NeedsSeat
<1>5. order \in [Orders -> OrderStatus] /\ seat \in [Payers -> Enrollment]
  BY DEF IInv, Core, TypeOK
<1>6. ItemOf[o] = "COHORT" /\ tx[t].seen = "CONFIRMED" => seat[s].status = "CONFIRMED"
  BY <1>2 DEF IInv, RowsStayLocked, SettleCommit
<1>7. PaidIsSeated'
  <2> SUFFICES ASSUME NEW p \in Orders, order'[p] = "PAID", ItemOf[p] = "COHORT"
               PROVE  seat'[PayerOf[p]].status = "CONFIRMED"
    BY DEF PaidIsSeated
  <2>1. PayerOf[p] \in Payers
    BY ConstantsAssumption
  <2>2. CASE p = o
    BY <1>2, <1>4, <1>5, <1>6, <2>1, <2>2
  <2>3. CASE p # o
    <3>1. seat[PayerOf[p]].status = "CONFIRMED"
       BY <2>3, <1>3, <1>5 DEF IInv, PaidIsSeated
    <3> QED BY <3>1, <2>1, <1>4, <1>5
  <2> QED BY <2>2, <2>3
<1> QED
  BY <1>1, <1>7

(* The sweep gives up seats of orders that are still PENDING.               *)
LEMMA SweepSeats ==
    ASSUME IInv, NEW t \in Txs, SweepList(t) \/ SweepCommit(t)
    PROVE  RowsStayLocked' /\ PaidIsSeated'
<1>1. CASE SweepList(t)
  <2>1. RowsStayLocked'
    BY <1>1 DEF IInv, Core, TypeOK, SweepList, RowsStayLocked, SeatLocked, StaleSeats, settled
  <2>2. PaidIsSeated'
    BY <1>1 DEF IInv, SweepList, PaidIsSeated, settled
  <2> QED BY <2>1, <2>2
<1>2. CASE SweepCommit(t)
  <2>1. RowsStayLocked'
    <3>1. tx[t].pc = "locked" /\ tx \in [Txs -> Transaction] /\ RowsStayLocked
      BY <1>2 DEF SweepCommit, IInv, Core, TypeOK
    <3>2. tx'[t].pc = "idle" /\ \A u \in Txs \ {t} : tx'[u] = tx[u]
      BY <1>2, <3>1 DEF SweepCommit, Idle
    <3>3. \A s \in Payers : s \notin tx[t].rows => seat'[s] = seat[s]
      BY <1>2 DEF SweepCommit, Expired
    <3>4. \A s \in Payers : seat[s].status = "CONFIRMED" => s \notin tx[t].rows
      BY <3>1 DEF RowsStayLocked
    <3>5. \A u \in Txs : tx[u].pc = "won" /\ ItemOf[tx[u].ord] = "COHORT"
                             => PayerOf[tx[u].ord] \in Payers
      BY ConstantsAssumption DEF IInv, Core, RequestsWellFormed, Settlers
    <3>6. \A u \in Txs : tx[u].rows \subseteq Payers
      BY <3>1 DEF Transaction
    <3> QED BY <3>1, <3>2, <3>3, <3>4, <3>5, <3>6 DEF RowsStayLocked
  <2>2. PaidIsSeated'
    BY <1>2, ConstantsAssumption DEF IInv, SweepCommit, Expired, PaidIsSeated,
       RowsStayLocked
  <2> QED BY <2>1, <2>2
<1> QED
  BY <1>1, <1>2

(* Every step of settlement keeps the seats of paid orders.                 *)
LEMMA SeatStep == IInv /\ SettlementNext => RowsStayLocked' /\ PaidIsSeated'
<1> SUFFICES ASSUME IInv, SettlementNext PROVE RowsStayLocked' /\ PaidIsSeated'
  OBVIOUS
<1>1. ASSUME NEW o \in Orders, CreateOtherOrder(o)
      PROVE  RowsStayLocked' /\ PaidIsSeated'
  BY <1>1 DEF IInv, CreateOtherOrder, RowsStayLocked, PaidIsSeated
<1>2. ASSUME \/ \E s \in Payers : Age(s)
             \/ \E q \in Payments : \/ WebhookBadSignature(q) \/ WebhookConsume(q)
                                    \/ Capture(q)
      PROVE  RowsStayLocked' /\ PaidIsSeated'
  <2>1. /\ UNCHANGED <<order, tx>>
        /\ \A s \in Payers : seat'[s].status = seat[s].status
    BY <1>2 DEF IInv, Core, TypeOK, Enrollment, Age, WebhookBadSignature, WebhookConsume,
                Capture
  <2>2. RowsStayLocked'
    BY <2>1, RequestsKnowTheirRows DEF IInv, RowsStayLocked
  <2>3. PaidIsSeated'
    BY <2>1, ConstantsAssumption DEF IInv, PaidIsSeated
  <2> QED BY <2>2, <2>3
<1>3. ASSUME NEW t \in Txs, NEW q \in Payments,
             \/ InitiateBegin(t, q) \/ WebhookBegin(t, q)
             \/ VerifyBegin(t, q)   \/ ManualBegin(t, q)
      PROVE  RowsStayLocked' /\ PaidIsSeated'
  <2>1. /\ \E op, pc : /\ tx' = [tx EXCEPT ![t] = Request(op, pc, q)]
                       /\ pc \in {"asked", "read"}
        /\ seat' = seat /\ order' = order
    BY <1>3 DEF InitiateBegin, WebhookBegin, VerifyBegin, ManualBegin
  <2>2. tx'[t].pc \in {"asked", "read"} /\ \A u \in Txs \ {t} : tx'[u] = tx[u]
    BY <2>1 DEF IInv, Core, TypeOK, Request, Idle
  <2> QED
    BY <2>1, <2>2, RequestsKeepLocks DEF IInv, PaidIsSeated
<1>4. ASSUME NEW t \in Txs,
             \/ InitiateCommit(t) \/ VerifyReload(t) \/ SettleLost(t) \/ Rollback(t)
      PROVE  RowsStayLocked' /\ PaidIsSeated'
  <2>1. /\ tx'[t].pc \in {"idle", "read"} /\ \A u \in Txs \ {t} : tx'[u] = tx[u]
        /\ seat' = seat /\ order' = order
    BY <1>4, IdleTyped DEF IInv, Core, TypeOK, Transaction, InitiateCommit, VerifyReload,
       SettleLost, Rollback, Idle, settled
  <2> QED
    BY <2>1, RequestsKeepLocks DEF IInv, PaidIsSeated
<1>5. ASSUME NEW t \in Txs, TryMarkPaid(t)
      PROVE  RowsStayLocked' /\ PaidIsSeated'
  <2>0. tx \in [Txs -> Transaction]
    BY DEF IInv, Core, TypeOK
  <2>1. /\ UNCHANGED <<order, seat>>
        /\ \A u \in Txs \ {t} : tx'[u] = tx[u]
    BY <1>5, <2>0 DEF TryMarkPaid
  <2>2. /\ tx'[t].pc = "won" /\ tx'[t].ord = tx[t].ord
        /\ ItemOf[tx[t].ord] = "COHORT" => tx'[t].seen = seat[PayerOf[tx[t].ord]].status
    BY <1>5 DEF IInv, Core, TypeOK, Transaction, TryMarkPaid
  <2>3. RowsStayLocked'
    BY <2>1, <2>2 DEF IInv, RowsStayLocked
  <2>4. PaidIsSeated'
    BY <2>1 DEF IInv, PaidIsSeated
  <2> QED BY <2>3, <2>4
<1> QED
  BY <1>1, <1>2, <1>3, <1>4, <1>5, CreateCohortBookingSeats, SettleCommitSeats, SweepSeats
     DEF SettlementNext

-----------------------------------------------------------------------------
(* The theorems.                                                            *)

(* An empty system satisfies the core of the invariant.                     *)
LEMMA CoreInit == Init => Core
<1> SUFFICES ASSUME Init PROVE Core
  OBVIOUS
<1>1. TypeOK
  BY IdleTyped DEF Init, TypeOK, OrderStatus, PaymentStatus, SeatStatus, HoldStatus, Enrollment
<1>2. RequestsWellFormed /\ WinnerIsAlone /\ InsertsAreUnseen /\ SettlersAreFunded
  BY DEF Init, Idle, Settlers, RequestsWellFormed, WinnerIsAlone, InsertsAreUnseen,
         SettlersAreFunded
<1>3. SettledExactlyOnce /\ FundedByCapture
  BY DEF Init, SettledExactlyOnce, Succeeded, FundedByCapture
<1> QED
  BY <1>1, <1>2, <1>3 DEF Core

(* A step that changes nothing of settlement keeps the core.                *)
LEMMA CoreStutter == Core /\ UNCHANGED vars => Core'
  BY DEF vars, Core, TypeOK, RequestsWellFormed, WinnerIsAlone, InsertsAreUnseen,
         SettlersAreFunded, SettledExactlyOnce, Succeeded, FundedByCapture

(* An empty system satisfies the invariant, and every step keeps it.        *)
LEMMA InitHolds == Init => IInv
  BY CoreInit DEF Init, IInv, Idle, RowsStayLocked, PaidIsSeated

LEMMA StepKeeps == IInv /\ [Next]_vars => IInv'
<1>1. IInv /\ UNCHANGED vars => RowsStayLocked' /\ PaidIsSeated'
  BY DEF vars, IInv, RowsStayLocked, PaidIsSeated
<1> QED
  BY <1>1, CoreStep, SeatStep, CoreStutter DEF Next, IInv

(* The invariant holds in every reachable state of settlement.              *)
THEOREM Invariance == Spec => []IInv
  BY InitHolds, StepKeeps, PTL DEF Spec

(* The tables and the requests in flight stay well-typed: the counters and  *)
(* statuses that the handlers write have the values that they are read with. *)
THEOREM TypeCorrect == Spec => []TypeOK
  BY Invariance, PTL DEF IInv, Core

(* However webhooks, verifications, manual confirmations and sweeps of an   *)
(* order interleave and die, it is settled once: one successful payment,    *)
(* one hold, one activation.                                                *)
THEOREM SettlesOnce == Spec => []SettledExactlyOnce
  BY Invariance, PTL DEF IInv, Core

(* No interleaving of webhooks and verifications makes a gateway payment    *)
(* succeed that was not captured in full.                                   *)
THEOREM SuccessIsFunded == Spec => []FundedByCapture
  BY Invariance, PTL DEF IInv, Core

(* Whichever of the sweep, a rebooking and the settlement comes first, the  *)
(* payer of a PAID cohort order has the confirmed seat.                     *)
THEOREM PaidHasSeat == Spec => []PaidIsSeated
  BY Invariance, PTL DEF IInv

(* No sweep and no late settler takes a settled order back.                 *)
THEOREM SettledForGood == Spec => PaidStaysPaid
<1> DEFINE Kept == \A o \in Orders :
                      /\ order[o] = "PAID" => order'[o] \in {"PAID", "REFUNDED"}
                      /\ order[o] = "REFUNDED" => order'[o] = "REFUNDED"
<1>1. IInv /\ [Next]_vars => [Kept]_vars
  <2> SUFFICES ASSUME IInv, Next PROVE Kept
    BY DEF vars
  <2>1. CASE order' = order
    BY <2>1
  <2>2. ASSUME NEW o \in Orders, CreateCohortBooking(o) \/ CreateOtherOrder(o)
        PROVE  Kept
    BY <2>2 DEF CreateCohortBooking, CreateOtherOrder, IInv, Core, TypeOK
  <2>3. ASSUME NEW t \in Txs, SettleCommit(t)
        PROVE  Kept
    BY <2>3 DEF SettleCommit, IInv, Core, TypeOK, WinnerIsAlone, Settleable
  <2>4. ASSUME NEW t \in Txs, SweepCommit(t)
        PROVE  Kept
    BY <2>4 DEF SweepCommit, Expired
  <2>5. \/ order' = order
        \/ \E o \in Orders : CreateCohortBooking(o) \/ CreateOtherOrder(o)
        \/ \E t \in Txs : SettleCommit(t) \/ SweepCommit(t)
    BY DEF Next, SettlementNext, Age, Capture, WebhookBadSignature, WebhookConsume,
           InitiateBegin, WebhookBegin, VerifyBegin, ManualBegin, InitiateCommit,
           VerifyReload, TryMarkPaid, SettleLost, SweepList, Rollback
  <2> QED
    BY <2>1, <2>2, <2>3, <2>4, <2>5
<1> QED
  BY <1>1, Invariance, PTL DEF Spec, PaidStaysPaid

-----------------------------------------------------------------------------
(* The count of seats.                                                      *)

(* Orders and seats change, and order rows are locked, by bookings,         *)
(* settlers and sweeps only.                                                *)
Quiet ==
    /\ UNCHANGED <<order, enrolled>>
    /\ \A s \in Payers : seat'[s].status = seat[s].status /\ seat'[s].ord = seat[s].ord
    /\ \A u \in Txs : tx'[u] = tx[u] \/ tx'[u].pc # "won"

LEMMA StepKinds ==
    ASSUME Core, [Next]_vars
    PROVE  \/ Quiet
           \/ \E o \in Orders : CreateCohortBooking(o) \/ CreateOtherOrder(o)
           \/ \E t \in Txs : TryMarkPaid(t) \/ SettleCommit(t) \/ SweepCommit(t)
<1>1. seat \in [Payers -> Enrollment] /\ tx \in [Txs -> Transaction]
  BY DEF Core, TypeOK
<1>2. ASSUME NEW s \in Payers, Age(s) PROVE Quiet
  <2>1. UNCHANGED <<order, enrolled, tx>> /\ seat' = [seat EXCEPT ![s].stale = TRUE]
    BY <1>2 DEF Age
  <2>2. \A r \in Payers : seat'[r].status = seat[r].status /\ seat'[r].ord = seat[r].ord
    BY <1>1, <2>1 DEF Enrollment
  <2> QED BY <2>1, <2>2 DEF Quiet
<1>3. ASSUME \/ UNCHANGED vars
             \/ \E q \in Payments : \/ Capture(q) \/ WebhookBadSignature(q)
                                    \/ WebhookConsume(q)
      PROVE  Quiet
  BY <1>3 DEF Quiet, vars, Capture, WebhookBadSignature, WebhookConsume
<1>4. ASSUME NEW t \in Txs, NEW q \in Payments,
             \/ InitiateBegin(t, q) \/ WebhookBegin(t, q)
             \/ VerifyBegin(t, q)   \/ ManualBegin(t, q)
      PROVE  Quiet
  <2>1. /\ \E op, pc : /\ tx' = [tx EXCEPT ![t] = Request(op, pc, q)]
                       /\ pc \in {"asked", "read"}
        /\ UNCHANGED <<order, enrolled, seat>>
    BY <1>4 DEF InitiateBegin, WebhookBegin, VerifyBegin, ManualBegin
  <2>2. \A u \in Txs : tx'[u] = tx[u] \/ tx'[u].pc # "won"
    BY <1>1, <2>1 DEF Request, Idle
  <2> QED BY <2>1, <2>2 DEF Quiet
<1>5. ASSUME NEW t \in Txs,
             \/ InitiateCommit(t) \/ VerifyReload(t) \/ SettleLost(t)
             \/ SweepList(t)      \/ Rollback(t)
      PROVE  Quiet
  <2>1. UNCHANGED <<order, enrolled, seat>>
    BY <1>5 DEF InitiateCommit, VerifyReload, SettleLost, SweepList, Rollback
  <2>2. PICK r : tx' = [tx EXCEPT ![t] = r] /\ r.pc # "won"
    <3>1. [tx[t] EXCEPT !.pc = "read"].pc = "read"
      BY <1>1 DEF Transaction
    <3>2. Idle.pc # "won"
      BY DEF Idle
    <3>3. CASE SweepList(t)
      <4>1. [Idle EXCEPT !.op = "sweep", !.pc = "locked", !.rows = StaleSeats].pc # "won"
        BY DEF Idle
      <4> QED BY <3>3, <4>1 DEF SweepList
    <3>4. CASE VerifyReload(t)
      <4>1. tx' = [tx EXCEPT ![t] = Idle] \/ tx' = [tx EXCEPT ![t].pc = "read"]
        BY <3>4 DEF VerifyReload
      <4>2. CASE tx' = [tx EXCEPT ![t] = Idle] BY <3>2, <4>2
      <4>3. CASE tx' = [tx EXCEPT ![t].pc = "read"] BY <3>1, <4>3
      <4> QED BY <4>1, <4>2, <4>3
    <3>5. CASE InitiateCommit(t) \/ SettleLost(t) \/ Rollback(t)
      BY <3>2, <3>5 DEF InitiateCommit, SettleLost, Rollback
    <3> QED BY <1>5, <3>3, <3>4, <3>5
  <2> QED BY <1>1, <2>1, <2>2 DEF Quiet
<1> QED
  BY <1>2, <1>3, <1>4, <1>5 DEF Next, SettlementNext

(* A settler's order stays settleable, and its payer's seat, from the step  *)
(* that locked the order row to the commit.                                 *)
LEMMA OpenCheckoutStep ==
    IInv /\ OpenCheckoutHasSeat /\ [Next]_vars => OpenCheckoutHasSeat'
<1> SUFFICES ASSUME IInv, OpenCheckoutHasSeat, [Next]_vars
             PROVE  OpenCheckoutHasSeat'
  OBVIOUS
<1>1. /\ order \in [Orders -> OrderStatus] /\ seat \in [Payers -> Enrollment]
      /\ tx \in [Txs -> Transaction] /\ PayerOf \in [Orders -> Payers]
  BY ConstantsAssumption DEF IInv, Core, TypeOK
<1>2. CASE Quiet
  BY <1>1, <1>2 DEF Quiet, OpenCheckoutHasSeat
<1>3. ASSUME NEW o \in Orders, CreateCohortBooking(o) PROVE OpenCheckoutHasSeat'
  <2>1. /\ order' = [order EXCEPT ![o] = "PENDING"] /\ tx' = tx
        /\ order[o] = "NONE"
        /\ seat[PayerOf[o]].status \in {"NONE", "CANCELLED"}
    BY <1>3 DEF CreateCohortBooking
  <2>2. /\ seat'[PayerOf[o]].status = "PENDING" /\ seat'[PayerOf[o]].ord = o
        /\ \A s \in Payers : s # PayerOf[o] => seat'[s] = seat[s]
    BY <1>1, <1>3 DEF CreateCohortBooking, Enrollment
  <2>3. \A t \in Txs : tx[t].pc = "won" => tx[t].ord # o
    BY <2>1 DEF IInv, Core, WinnerIsAlone, Settleable
  <2> QED BY <1>1, <2>1, <2>2, <2>3 DEF OpenCheckoutHasSeat
<1>4. ASSUME NEW o \in Orders, CreateOtherOrder(o) PROVE OpenCheckoutHasSeat'
  <2>1. /\ order' = [order EXCEPT ![o] = "PENDING"] /\ tx' = tx /\ seat' = seat
        /\ ItemOf[o] # "COHORT"
    BY <1>4 DEF CreateOtherOrder
  <2> QED BY <1>1, <2>1 DEF OpenCheckoutHasSeat
<1>5. ASSUME NEW t \in Txs, TryMarkPaid(t) PROVE OpenCheckoutHasSeat'
  <2> DEFINE o == tx[t].ord
  <2>1. /\ UNCHANGED <<order, seat>> /\ order[o] \in Settleable /\ o \in Orders
        /\ \A u \in Txs \ {t} : tx'[u] = tx[u]
        /\ tx'[t].ord = o
        /\ ItemOf[o] = "COHORT" => tx'[t].seen = seat[PayerOf[o]].status
    BY <1>1, <1>5, ConstantsAssumption
       DEF TryMarkPaid, Transaction, IInv, Core, RequestsWellFormed, Settlers
  <2>2. ItemOf[o] = "COHORT" /\ tx'[t].seen = "CANCELLED" => order[o] = "CANCELLED"
    BY <2>1 DEF OpenCheckoutHasSeat, Settleable
  <2> QED BY <2>1, <2>2 DEF OpenCheckoutHasSeat
<1>6. ASSUME NEW t \in Txs, SettleCommit(t) PROVE OpenCheckoutHasSeat'
  <2>1. order' = [order EXCEPT ![tx[t].ord] = "PAID"] /\ tx' = [tx EXCEPT ![t] = Idle]
    BY <1>6 DEF SettleCommit
  <2>2. \A s \in Payers : /\ seat'[s].ord = seat[s].ord
                          /\ seat'[s].status \in {seat[s].status, "CONFIRMED"}
    BY <1>1, <1>6 DEF SettleCommit, Enrollment
  <2>3. \A u \in Txs : u # t /\ tx[u].pc = "won" /\ tx[t].pc = "won"
                       => tx[u].ord # tx[t].ord
    BY DEF IInv, Core, WinnerIsAlone
  <2>4. tx[t].pc = "won" /\ tx'[t].pc # "won"
    BY <1>1, <1>6, <2>1 DEF SettleCommit, Idle
  <2> QED BY <1>1, <2>1, <2>2, <2>3, <2>4 DEF OpenCheckoutHasSeat
<1>7. ASSUME NEW t \in Txs, SweepCommit(t) PROVE OpenCheckoutHasSeat'
  <2>1. /\ \A o \in Orders : order'[o] \in {order[o], "CANCELLED"}
        /\ \A s \in Payers : seat'[s].ord = seat[s].ord
        /\ tx' = [tx EXCEPT ![t] = Idle]
    BY <1>1, <1>7 DEF SweepCommit, Enrollment
  <2>2. ASSUME NEW o \in Orders, order'[o] = "PENDING", ItemOf[o] = "COHORT"
        PROVE  seat'[PayerOf[o]] = seat[PayerOf[o]] /\ order[o] = "PENDING"
    <3>1. seat[PayerOf[o]].ord = o
      BY <2>1, <2>2 DEF OpenCheckoutHasSeat
    <3>2. PayerOf[o] \notin Expired(t)
      BY <1>1, <1>7, <2>2, <3>1 DEF SweepCommit
    <3> QED BY <1>1, <1>7, <2>1, <2>2, <3>2 DEF SweepCommit
  <2>3. tx'[t].pc # "won"
    BY <1>1, <2>1 DEF Idle
  <2>4. \A u \in Txs : tx[u].pc = "won" => tx[u].ord \in Orders
    BY RequestsKnowTheirRows DEF IInv
  <2> QED BY <1>1, <2>1, <2>2, <2>3, <2>4 DEF OpenCheckoutHasSeat
<1> QED
  BY <1>2, <1>3, <1>4, <1>5, <1>6, <1>7, StepKinds DEF IInv

(* The cohort fills past its capacity only through a payment that comes     *)
(* after the sweep has given the seat away: a settler counts a seat only    *)
(* when it has seen it CANCELLED, and by then its order is CANCELLED too.   *)
THEOREM BookingNeverOversells == Spec => OversoldOnlyByRevival
<1> DEFINE Kept == enrolled' > enrolled /\ enrolled' > Capacity =>
                       \E o \in Orders : order[o] = "CANCELLED" /\ order'[o] = "PAID"
<1>1. Init => OpenCheckoutHasSeat
  BY DEF Init, OpenCheckoutHasSeat, Idle
<1>2. IInv /\ OpenCheckoutHasSeat /\ [Next]_vars => [Kept]_vars
  <2> SUFFICES ASSUME IInv, OpenCheckoutHasSeat, Next PROVE Kept
    BY DEF vars
  <2>1. enrolled \in Int /\ Capacity \in Nat
    BY ConstantsAssumption DEF IInv, Core, TypeOK
  <2>2. CASE Quiet
    BY <2>1, <2>2 DEF Quiet
  <2>3. ASSUME NEW o \in Orders, CreateCohortBooking(o) \/ CreateOtherOrder(o)
        PROVE  Kept
    BY <2>1, <2>3 DEF CreateCohortBooking, CreateOtherOrder, HasRoom
  <2>4. ASSUME NEW t \in Txs, TryMarkPaid(t) PROVE Kept
    BY <2>1, <2>4 DEF TryMarkPaid
  <2>5. ASSUME NEW t \in Txs, SettleCommit(t) PROVE Kept
    <3>1. CASE RetakesSeat(t)
      <4>1. tx[t].ord \in Orders /\ order[tx[t].ord] = "CANCELLED"
        BY <2>5, <3>1, RequestsKnowTheirRows
           DEF IInv, OpenCheckoutHasSeat, SettleCommit, RetakesSeat, NeedsSeat
      <4>2. order' = [order EXCEPT ![tx[t].ord] = "PAID"]
        BY <2>5 DEF SettleCommit
      <4> QED BY <4>1, <4>2 DEF IInv, Core, TypeOK
    <3>2. CASE ~RetakesSeat(t)
      BY <2>1, <2>5, <3>2 DEF SettleCommit
    <3> QED BY <3>1, <3>2
  <2>6. ASSUME NEW t \in Txs, SweepCommit(t) PROVE Kept
    <3>1. IsFiniteSet(Expired(t))
      BY ConstantsAssumption, FS_Subset DEF IInv, Core, TypeOK, Transaction, Expired
    <3>2. Cardinality(Expired(t)) \in Nat
      BY <3>1, FS_CardinalityType
    <3>3. enrolled' = enrolled - Cardinality(Expired(t))
      BY <2>6 DEF SweepCommit
    <3> QED BY <2>1, <3>2, <3>3
  <2> QED
    BY <2>2, <2>3, <2>4, <2>5, <2>6, StepKinds DEF IInv
<1> QED
  BY <1>1, <1>2, OpenCheckoutStep, Invariance, PTL DEF Spec, OversoldOnlyByRevival

-----------------------------------------------------------------------------
(* When nobody books twice, a seat is the seat of one order.                *)

LEMMA SeatFollowsInit == Init => SeatFollowsOrder /\ SeatsCounted
<1> SUFFICES ASSUME Init PROVE SeatFollowsOrder /\ SeatsCounted
  OBVIOUS
<1>1. SeatFollowsOrder
  BY ConstantsAssumption DEF Init, SeatFollowsOrder, SeatStatusOf, Idle
<1>2. Seated = {}
  BY DEF Init, Seated
<1> QED
  BY <1>1, <1>2, FS_EmptySet DEF Init, SeatsCounted

LEMMA SeatFollowsStep ==
    ASSUME OneOrderEach, IInv, SeatFollowsOrder, SeatsCounted, [Next]_vars
    PROVE  SeatFollowsOrder' /\ SeatsCounted'
<1>1. /\ order \in [Orders -> OrderStatus] /\ seat \in [Payers -> Enrollment]
      /\ tx \in [Txs -> Transaction] /\ PayerOf \in [Orders -> Payers]
      /\ enrolled \in Int /\ IsFiniteSet(Payers) /\ NoOrder \notin Orders
  BY ConstantsAssumption DEF IInv, Core, TypeOK
<1>2. IsFiniteSet(Seated) /\ Cardinality(Seated) \in Nat
  BY <1>1, FS_Subset, FS_CardinalityType DEF Seated
<1>3. \A t \in Txs : tx[t].pc = "won" => tx[t].ord \in Orders
  BY RequestsKnowTheirRows DEF IInv
<1>4. CASE Quiet
  <2>1. SeatFollowsOrder'
    BY <1>1, <1>3, <1>4 DEF Quiet, SeatFollowsOrder
  <2>2. Seated' = Seated
    BY <1>4 DEF Quiet, Seated
  <2> QED BY <1>4, <2>1, <2>2 DEF Quiet, SeatsCounted
<1>5. ASSUME NEW o \in Orders, CreateOtherOrder(o)
      PROVE  SeatFollowsOrder' /\ SeatsCounted'
  <2>1. /\ order' = [order EXCEPT ![o] = "PENDING"] /\ ItemOf[o] # "COHORT"
        /\ UNCHANGED <<seat, enrolled, tx>>
    BY <1>5 DEF CreateOtherOrder
  <2>2. SeatFollowsOrder'
    BY <1>1, <2>1 DEF SeatFollowsOrder
  <2>3. SeatsCounted'
    BY <2>1 DEF SeatsCounted, Seated
  <2> QED BY <2>2, <2>3
<1>6. ASSUME NEW o \in Orders, CreateCohortBooking(o)
      PROVE  SeatFollowsOrder' /\ SeatsCounted'
  <2> DEFINE s == PayerOf[o]
  <2>1. /\ order' = [order EXCEPT ![o] = "PENDING"] /\ order[o] = "NONE" /\ tx' = tx
        /\ ItemOf[o] = "COHORT" /\ enrolled' = enrolled + 1
        /\ seat[s].status \in {"NONE", "CANCELLED"} /\ s \in Payers
    BY <1>1, <1>6 DEF CreateCohortBooking
  <2>2. /\ seat'[s].status = "PENDING" /\ seat'[s].ord = o
        /\ \A r \in Payers : r # s => seat'[r] = seat[r]
    BY <1>1, <1>6 DEF CreateCohortBooking, Enrollment
  <2>3. \A p \in Orders : ItemOf[p] = "COHORT" /\ PayerOf[p] = s => p = o
    BY <2>1 DEF OneOrderEach
  <2>4. \A t \in Txs : tx[t].pc = "won" => tx[t].ord # o
    BY <2>1 DEF IInv, Core, WinnerIsAlone, Settleable
  <2>5. SeatFollowsOrder'
    <3>1. \A p \in Orders : p # o => order'[p] = order[p]
      BY <1>1, <2>1
    <3>2. order'[o] = "PENDING"
      BY <1>1, <2>1
    <3> HIDE DEF s
    <3>3. \A p \in Orders : ItemOf[p] = "COHORT" =>
              /\ order'[p] \in DOMAIN SeatStatusOf
              /\ seat'[PayerOf[p]].status = SeatStatusOf[order'[p]]
              /\ order'[p] # "NONE" => seat'[PayerOf[p]].ord = p
      BY <1>1, <2>2, <2>3, <3>1, <3>2 DEF SeatFollowsOrder, SeatStatusOf, s
    <3>4. \A r \in Payers : seat'[r].status # "NONE" =>
              /\ seat'[r].ord \in Orders /\ ItemOf[seat'[r].ord] = "COHORT"
              /\ PayerOf[seat'[r].ord] = r
      BY <2>1, <2>2 DEF SeatFollowsOrder, s
    <3>5. \A t \in Txs : tx'[t].pc = "won" /\ ItemOf[tx'[t].ord] = "COHORT" =>
              tx'[t].seen = seat'[PayerOf[tx'[t].ord]].status
      BY <1>1, <1>3, <2>1, <2>2, <2>3, <2>4 DEF SeatFollowsOrder
    <3> QED BY <3>3, <3>4, <3>5 DEF SeatFollowsOrder
  <2>6. Seated' = Seated \union {s} /\ s \notin Seated
    BY <2>1, <2>2 DEF Seated
  <2>7. Cardinality(Seated') = Cardinality(Seated) + 1
    BY <1>2, <2>6, FS_AddElement
  <2> QED BY <2>1, <2>5, <2>7 DEF SeatsCounted
<1>7. ASSUME NEW t \in Txs, TryMarkPaid(t)
      PROVE  SeatFollowsOrder' /\ SeatsCounted'
  <2>1. /\ UNCHANGED <<order, seat, enrolled>>
        /\ \A u \in Txs \ {t} : tx'[u] = tx[u]
        /\ tx'[t].ord = tx[t].ord
        /\ ItemOf[tx[t].ord] = "COHORT" => tx'[t].seen = seat[PayerOf[tx[t].ord]].status
    BY <1>1, <1>7 DEF TryMarkPaid, Transaction
  <2>2. SeatFollowsOrder'
    BY <2>1 DEF SeatFollowsOrder
  <2> QED BY <2>1, <2>2 DEF SeatsCounted, Seated
<1>8. ASSUME NEW t \in Txs, SettleCommit(t)
      PROVE  SeatFollowsOrder' /\ SeatsCounted'
  <2>1. PICK o \in Orders : o = tx[t].ord
    BY <1>3, <1>8 DEF SettleCommit
  <2>2. PICK s \in Payers : s = PayerOf[o]
    BY <1>1
  <2>3. /\ tx[t].pc = "won" /\ tx' = [tx EXCEPT ![t] = Idle] /\ tx'[t].pc # "won"
        /\ order' = [order EXCEPT ![o] = "PAID"] /\ order[o] \in Settleable
    BY <1>1, <1>8, <2>1 DEF SettleCommit, Idle, IInv, Core, WinnerIsAlone
  <2>4. \A u \in Txs : u # t /\ tx[u].pc = "won" => tx[u].ord # o
    BY <2>1, <2>3 DEF IInv, Core, WinnerIsAlone
  <2>5. CASE ItemOf[o] # "COHORT"
    <3>1. UNCHANGED <<seat, enrolled>>
      BY <1>8, <2>1, <2>5 DEF SettleCommit, NeedsSeat, RetakesSeat
    <3>2. SeatFollowsOrder'
      BY <1>1, <2>3, <2>5, <3>1 DEF SeatFollowsOrder
    <3> QED BY <3>1, <3>2 DEF SeatsCounted, Seated
  <2>6. CASE ItemOf[o] = "COHORT"
    <3>1. /\ tx[t].seen = seat[s].status /\ seat[s].status \in {"PENDING", "CANCELLED"}
          /\ seat[s].ord = o
      BY <2>1, <2>2, <2>3, <2>6 DEF SeatFollowsOrder, SeatStatusOf, Settleable
    <3>2. /\ seat' = [seat EXCEPT ![s].status = "CONFIRMED"]
          /\ enrolled' = IF seat[s].status = "CANCELLED" THEN enrolled + 1 ELSE enrolled
      BY <1>8, <2>1, <2>2, <2>6, <3>1 DEF SettleCommit, NeedsSeat, RetakesSeat
    <3>3. /\ seat'[s].status = "CONFIRMED" /\ seat'[s].ord = o
          /\ \A r \in Payers : r # s => seat'[r] = seat[r]
      BY <1>1, <3>1, <3>2 DEF Enrollment
    <3>4. \A p \in Orders : ItemOf[p] = "COHORT" /\ PayerOf[p] = s => p = o
      BY <2>2, <2>6 DEF OneOrderEach
    <3>5. SeatFollowsOrder'
      <4>1. \A p \in Orders : order'[p] = IF p = o THEN "PAID" ELSE order[p]
        BY <1>1, <2>3
      <4>2. \A p \in Orders : ItemOf[p] = "COHORT" =>
                /\ order'[p] \in DOMAIN SeatStatusOf
                /\ seat'[PayerOf[p]].status = SeatStatusOf[order'[p]]
                /\ order'[p] # "NONE" => seat'[PayerOf[p]].ord = p
        BY <1>1, <2>2, <3>3, <3>4, <4>1 DEF SeatFollowsOrder, SeatStatusOf
      <4>3. \A r \in Payers : seat'[r].status # "NONE" =>
                /\ seat'[r].ord \in Orders /\ ItemOf[seat'[r].ord] = "COHORT"
                /\ PayerOf[seat'[r].ord] = r
        BY <2>2, <2>6, <3>3 DEF SeatFollowsOrder
      <4>4. \A u \in Txs : tx'[u].pc = "won" /\ ItemOf[tx'[u].ord] = "COHORT" =>
                tx'[u].seen = seat'[PayerOf[tx'[u].ord]].status
        BY <1>1, <1>3, <2>3, <2>4, <3>3, <3>4 DEF SeatFollowsOrder
      <4> QED BY <4>2, <4>3, <4>4 DEF SeatFollowsOrder
    <3>6. Seated' = Seated \union {s} /\ (s \in Seated <=> seat[s].status = "PENDING")
      BY <3>1, <3>3 DEF Seated
    <3>7. Cardinality(Seated') = IF s \in Seated THEN Cardinality(Seated)
                                                 ELSE Cardinality(Seated) + 1
      BY <1>2, <3>6, FS_AddElement
    <3> QED BY <3>1, <3>2, <3>5, <3>6, <3>7 DEF SeatsCounted
  <2> QED BY <2>5, <2>6
<1>9. ASSUME NEW t \in Txs, SweepCommit(t)
      PROVE  SeatFollowsOrder' /\ SeatsCounted'
  <2> DEFINE E == Expired(t)
  <2>1. /\ \A s \in E : ~OrderLocked(seat[s].ord)
        /\ order' = [o \in Orders |-> IF \E s \in E : seat[s].ord = o
                                      THEN "CANCELLED" ELSE order[o]]
        /\ seat' = [s \in Payers |-> IF s \in E THEN [seat[s] EXCEPT !.status = "CANCELLED"]
                                               ELSE seat[s]]
        /\ enrolled' = enrolled - Cardinality(E)
        /\ tx' = [tx EXCEPT ![t] = Idle] /\ tx[t].pc = "locked"
    BY <1>9 DEF SweepCommit
  <2>2. \A s \in E : /\ s \in Payers /\ seat[s].status = "PENDING"
                     /\ order[seat[s].ord] = "PENDING"
    BY <2>1, RequestsKnowTheirRows DEF Expired, IInv, RowsStayLocked
  <2> HIDE DEF E
  <2>3. \A s \in E : /\ seat[s].ord \in Orders /\ ItemOf[seat[s].ord] = "COHORT"
                     /\ PayerOf[seat[s].ord] = s
    BY <2>2 DEF SeatFollowsOrder
  <2>4. \A p \in Orders : ItemOf[p] = "COHORT" =>
            (PayerOf[p] \in E <=> \E s \in E : seat[s].ord = p)
    BY <2>3 DEF OneOrderEach
  <2>5. \A s \in Payers : /\ seat'[s].ord = seat[s].ord
                          /\ seat'[s].status = IF s \in E THEN "CANCELLED" ELSE seat[s].status
    BY <1>1, <2>1 DEF Enrollment
  <2>6. \A p \in Orders : ItemOf[p] = "COHORT" =>
            order'[p] = IF PayerOf[p] \in E THEN "CANCELLED" ELSE order[p]
    BY <2>1, <2>4
  <2>7. \A u \in Txs : tx[u].pc = "won" /\ ItemOf[tx[u].ord] = "COHORT"
                       => PayerOf[tx[u].ord] \notin E
    BY <1>3, <2>1, <2>4 DEF OrderLocked
  <2>8. tx'[t].pc # "won" /\ \A u \in Txs : u # t => tx'[u] = tx[u]
    BY <1>1, <2>1 DEF Idle
  <2>9. SeatFollowsOrder'
    <3>1. \A p \in Orders : ItemOf[p] = "COHORT" =>
              /\ order'[p] \in DOMAIN SeatStatusOf
              /\ seat'[PayerOf[p]].status = SeatStatusOf[order'[p]]
              /\ order'[p] # "NONE" => seat'[PayerOf[p]].ord = p
      <4>1. SUFFICES ASSUME NEW p \in Orders, ItemOf[p] = "COHORT"
                     PROVE  /\ order'[p] \in DOMAIN SeatStatusOf
                            /\ seat'[PayerOf[p]].status = SeatStatusOf[order'[p]]
                            /\ order'[p] # "NONE" => seat'[PayerOf[p]].ord = p
        OBVIOUS
      <4>2. CASE PayerOf[p] \in E
        <5>1. seat[PayerOf[p]].ord = p
          BY <2>4, <2>3, <4>1, <4>2 DEF OneOrderEach
        <5> QED BY <1>1, <2>5, <2>6, <4>1, <4>2, <5>1 DEF SeatStatusOf
      <4>3. CASE PayerOf[p] \notin E
        BY <1>1, <2>5, <2>6, <4>1, <4>3 DEF SeatFollowsOrder
      <4> QED BY <4>2, <4>3
    <3>2. \A r \in Payers : seat'[r].status # "NONE" =>
              /\ seat'[r].ord \in Orders /\ ItemOf[seat'[r].ord] = "COHORT"
              /\ PayerOf[seat'[r].ord] = r
      BY <2>2, <2>3, <2>5 DEF SeatFollowsOrder
    <3>3. \A u \in Txs : tx'[u].pc = "won" /\ ItemOf[tx'[u].ord] = "COHORT" =>
              tx'[u].seen = seat'[PayerOf[tx'[u].ord]].status
      BY <1>1, <1>3, <2>5, <2>7, <2>8 DEF SeatFollowsOrder
    <3> QED BY <3>1, <3>2, <3>3 DEF SeatFollowsOrder
  <2>10. Seated' = Seated \ E /\ E \subseteq Seated
    BY <2>2, <2>5 DEF Seated
  <2>11. IsFiniteSet(E) /\ Seated \cap E = E
    BY <1>1, <2>2, <2>10, FS_Subset
  <2>12. Cardinality(Seated') = Cardinality(Seated) - Cardinality(E)
    BY <1>2, <2>10, <2>11, FS_Difference
  <2> QED BY <2>1, <2>9, <2>12 DEF SeatsCounted
<1> QED
  BY <1>4, <1>5, <1>6, <1>7, <1>8, <1>9, StepKinds DEF IInv

(* When no payer books the cohort twice, enrolled_count is the number of    *)
(* seats that are reserved or taken, whatever sweeps and late settlements   *)
(* do to them.                                                              *)
THEOREM SeatCountExact ==
    ASSUME OneOrderEach
    PROVE  Spec => []SeatsCounted
<1>1. IInv /\ (SeatFollowsOrder /\ SeatsCounted) /\ [Next]_vars
          => (SeatFollowsOrder /\ SeatsCounted)'
  BY SeatFollowsStep
<1> QED
  BY <1>1, SeatFollowsInit, Invariance, PTL DEF Spec

-----------------------------------------------------------------------------
(* Settlement's steps, as escrow sees them.                                 *)

(* Only a winning settler moves money in; no step of settlement takes an    *)
(* order out of REFUNDED.                                                   *)
LEMMA OnlyWinnersSettle ==
    ASSUME Core, SettlementNext
    PROVE  \/ \E t \in Txs : SettleCommit(t)
           \/ /\ UNCHANGED <<hold, access>>
              /\ \A o \in Orders : /\ Succeeded(o)' = Succeeded(o)
                                   /\ order[o] \in {"PAID", "REFUNDED"}
                                          => order'[o] = order[o]
<1> DEFINE Still == /\ UNCHANGED <<hold, access>>
                    /\ \A o \in Orders : /\ Succeeded(o)' = Succeeded(o)
                                         /\ order[o] \in {"PAID", "REFUNDED"}
                                                => order'[o] = order[o]
<1>1. order \in [Orders -> OrderStatus] /\ pay \in [Payments -> PaymentStatus]
  BY DEF Core, TypeOK
<1>2. ASSUME UNCHANGED <<order, pay, hold, access>> PROVE Still
  BY <1>2 DEF Succeeded
<1>3. ASSUME NEW o \in Orders, CreateCohortBooking(o) \/ CreateOtherOrder(o) PROVE Still
  BY <1>1, <1>3 DEF CreateCohortBooking, CreateOtherOrder, settled, Succeeded
<1>4. ASSUME NEW t \in Txs, InitiateCommit(t) \/ SettleLost(t) PROVE Still
  <2>1. UNCHANGED <<order, hold, access>>
    BY <1>4 DEF InitiateCommit, SettleLost
  <2>2. \/ pay' = pay
        \/ \E status \in {"PENDING", "FAILED"} : pay' = [pay EXCEPT ![tx[t].pay] = status]
    BY <1>4 DEF InitiateCommit, SettleLost
  <2>3. pay' # pay => tx[t].op \in {"initiate", "manual"}
    BY <1>4 DEF InitiateCommit, SettleLost
  <2>4. pay' # pay => pay[tx[t].pay] = "NONE"
    BY <2>3 DEF Core, InsertsAreUnseen
  <2>5. \A q \in Payments : pay'[q] = "SUCCESS" <=> pay[q] = "SUCCESS"
    BY <1>1, <2>2, <2>4
  <2> QED BY <2>1, <2>5 DEF Succeeded
<1>5. ASSUME NEW t \in Txs, SweepCommit(t) PROVE Still
  BY <1>1, <1>5 DEF SweepCommit, Expired, settled, Succeeded
<1>6. \/ UNCHANGED <<order, pay, hold, access>>
      \/ \E o \in Orders : CreateCohortBooking(o) \/ CreateOtherOrder(o)
      \/ \E t \in Txs : \/ InitiateCommit(t) \/ SettleLost(t)
                        \/ SettleCommit(t) \/ SweepCommit(t)
  <2>1. ASSUME NEW s \in Payers, Age(s) PROVE UNCHANGED <<order, pay, hold, access>>
    BY <2>1 DEF Age, settled
  <2>2. ASSUME NEW q \in Payments, Capture(q) \/ WebhookBadSignature(q) \/ WebhookConsume(q)
        PROVE  UNCHANGED <<order, pay, hold, access>>
    BY <2>2 DEF Capture, WebhookBadSignature, WebhookConsume, settled
  <2>3. ASSUME NEW t \in Txs, NEW q \in Payments,
               \/ InitiateBegin(t, q) \/ WebhookBegin(t, q)
               \/ VerifyBegin(t, q) \/ ManualBegin(t, q)
        PROVE  UNCHANGED <<order, pay, hold, access>>
    BY <2>3 DEF InitiateBegin, WebhookBegin, VerifyBegin, ManualBegin, settled
  <2>4. ASSUME NEW t \in Txs, VerifyReload(t) \/ TryMarkPaid(t) \/ SweepList(t) \/ Rollback(t)
        PROVE  UNCHANGED <<order, pay, hold, access>>
    BY <2>4 DEF VerifyReload, TryMarkPaid, SweepList, Rollback, settled
  <2> QED BY <2>1, <2>2, <2>3, <2>4 DEF SettlementNext
<1> QED
  BY <1>2, <1>3, <1>4, <1>5, <1>6

-----------------------------------------------------------------------------
(* Releases and refunds keep the core.                                      *)

(* A release or a refund that starts has read its order and its hold.       *)
LEMMA StartKeeps ==
    ASSUME EscrowInv, NEW t \in Txs, NEW op \in MoneyMovers, NEW o \in Orders,
           tx[t] = Idle, Start(t, op, o),
           UNCHANGED <<order, pay, captured, hook, seat, enrolled, hold, access,
                       rewarded, aged, escrowVars>>
    PROVE  EscrowInv'
<1> DEFINE r == [Idle EXCEPT !.op = op, !.pc = "asked", !.ord = o, !.seen = hold[o]]
<1>1. tx' = [tx EXCEPT ![t] = r]
  BY DEF Start
<1>2. hold[o] \in HoldStatus
  BY DEF EscrowInv, Core, TypeOK
<1>3. r \in Transaction
  <2>1. op \in Ops
    BY DEF Ops, MoneyMovers
  <2> QED BY <1>2, <2>1, IdleTyped DEF Transaction
<1>4. r.op = op /\ r.pc = "asked" /\ r.ord = o /\ r.pay = NoPayment
  BY DEF Idle
<1> HIDE DEF r
<1>5. tx'[t] = r /\ \A u \in Txs : u # t => tx'[u] = tx[u]
  BY <1>1 DEF EscrowInv, Core, TypeOK
<1>6. TypeOK'
  BY <1>1, <1>3 DEF EscrowInv, Core, TypeOK
<1>7. RequestsWellFormed' /\ WinnerIsAlone' /\ SettlersAreFunded' /\ RefundsWellFormed'
  BY <1>4, <1>5 DEF EscrowInv, Core, RequestsWellFormed, WinnerIsAlone, SettlersAreFunded,
                    RefundsWellFormed, Settlers, MoneyMovers
<1>8. InsertsAreUnseen'
  BY <1>4, <1>5, ConstantsAssumption
     DEF EscrowInv, Core, InsertsAreUnseen, RequestsWellFormed, Settlers, MoneyMovers
<1>9. SettledExactlyOnce' /\ FundedByCapture'
  BY NothingSettles DEF EscrowInv, Core
<1>10. Core'
  BY <1>6, <1>7, <1>8, <1>9 DEF Core
<1>11. EscrowTypeOK' /\ BooksAgree' /\ HoldIsFunded'
  BY <1>6 DEF EscrowInv, EscrowTypeOK, escrowVars, BooksAgree, HoldIsFunded, Succeeded
<1> QED
  BY <1>7, <1>10, <1>11 DEF EscrowInv

(* The gateway's refunds change no row.                                     *)
LEMMA GatewayKeeps ==
    ASSUME EscrowInv, NEW t \in Txs, RefundGateway(t)
    PROVE  EscrowInv'
<1>1. /\ tx[t].op \in MoneyMovers /\ tx' = [tx EXCEPT ![t].pc = "gateway"]
      /\ UNCHANGED <<settled, order, captured, hook, seat, enrolled, aged, credited, payout>>
  BY DEF RefundGateway, MoneyMovers
<1>2. [tx[t] EXCEPT !.pc = "gateway"] \in Transaction
  BY DEF EscrowInv, Core, TypeOK, Transaction
<1>3. TypeOK'
  BY <1>1, <1>2 DEF EscrowInv, Core, TypeOK, settled
<1>4. /\ \A u \in Txs : u # t => tx'[u] = tx[u]
      /\ tx'[t].op = tx[t].op /\ tx'[t].ord = tx[t].ord /\ tx'[t].pay = tx[t].pay
      /\ tx'[t].pc = "gateway"
  BY <1>1 DEF EscrowInv, Core, TypeOK, Transaction
<1>5. RequestsWellFormed' /\ WinnerIsAlone' /\ SettlersAreFunded' /\ RefundsWellFormed'
  BY <1>1, <1>4 DEF EscrowInv, Core, RequestsWellFormed, WinnerIsAlone, SettlersAreFunded,
                    RefundsWellFormed, Settlers, MoneyMovers, settled
<1>6. InsertsAreUnseen'
  BY <1>1, <1>4 DEF EscrowInv, Core, InsertsAreUnseen, settled
<1>7. SettledExactlyOnce' /\ FundedByCapture'
  BY <1>1, NothingSettles DEF EscrowInv, Core, settled
<1>8. refunded' \in [Payments -> 0..MaxRefunds]
  BY MaxRefundsAssumption
     DEF EscrowInv, EscrowTypeOK, RefundGateway, Refundable, GatewayPayments
<1>9. EscrowTypeOK' /\ BooksAgree' /\ HoldIsFunded'
  BY <1>1, <1>3, <1>8 DEF EscrowInv, EscrowTypeOK, BooksAgree, HoldIsFunded, Succeeded, settled
<1> QED
  BY <1>3, <1>5, <1>6, <1>7, <1>9 DEF EscrowInv, Core

(* A release or a refund that ends, having locked the order row if it       *)
(* writes it, leaves the other requests as they were.                       *)
LEMMA MoverEnds ==
    ASSUME EscrowInv, NEW t \in Txs, tx' = [tx EXCEPT ![t] = Idle],
           UNCHANGED <<pay, captured>>,
           \A o \in Orders : OrderLocked(o) => order'[o] = order[o]
    PROVE  /\ tx' \in [Txs -> Transaction]
           /\ RequestsWellFormed' /\ WinnerIsAlone' /\ SettlersAreFunded'
           /\ InsertsAreUnseen' /\ RefundsWellFormed' /\ FundedByCapture'
<1>1. /\ \A u \in Txs : u # t => tx'[u] = tx[u]
      /\ tx'[t].op = "none" /\ tx'[t].pc = "idle"
  BY DEF EscrowInv, Core, TypeOK, Idle
<1>2. tx' \in [Txs -> Transaction]
  BY EndTyped DEF EscrowInv, Core
<1>3. RequestsWellFormed' /\ SettlersAreFunded' /\ RefundsWellFormed' /\ FundedByCapture'
  BY <1>1 DEF EscrowInv, Core, RequestsWellFormed, SettlersAreFunded,
              RefundsWellFormed, Settlers, MoneyMovers, FundedByCapture
<1>4. WinnerIsAlone'
  <2>1. \A u \in Txs : tx[u].pc = "won" => OrderLocked(tx[u].ord) /\ tx[u].ord \in Orders
    BY RequestsKnowTheirRows DEF OrderLocked, EscrowInv
  <2> QED BY <1>1, <2>1 DEF EscrowInv, Core, WinnerIsAlone
<1>5. InsertsAreUnseen'
  BY RequestEnds DEF EscrowInv, Core
<1> QED
  BY <1>2, <1>3, <1>4, <1>5

LEMMA ReleaseKeeps ==
    ASSUME EscrowInv, NEW t \in Txs, ReleaseCommit(t)
    PROVE  EscrowInv'
<1>1. PICK o \in Orders : o = tx[t].ord
  BY DEF ReleaseCommit, EscrowInv, RefundsWellFormed, MoneyMovers
<1>2. /\ tx' = [tx EXCEPT ![t] = Idle]
      /\ UNCHANGED <<order, pay, captured, hook, seat, enrolled, access, rewarded, aged,
                     refunded, credited>>
      /\ IF hold[o] = "HELD"
         THEN hold' = [hold EXCEPT ![o] = "RELEASED"] /\ payout' = payout \union {o}
         ELSE UNCHANGED <<hold, payout>>
  BY <1>1 DEF ReleaseCommit, StillHeld
<1>3. /\ hold \in [Orders -> HoldStatus] /\ payout \subseteq Orders
  BY DEF EscrowInv, Core, TypeOK, EscrowTypeOK
<1>4. \A p \in Orders : hold'[p] # "NONE" <=> hold[p] # "NONE"
  BY <1>2, <1>3
<1>5. \A p \in Orders : Succeeded(p)' = Succeeded(p)
  BY <1>2 DEF Succeeded
<1>6. /\ tx' \in [Txs -> Transaction]
      /\ RequestsWellFormed' /\ WinnerIsAlone' /\ SettlersAreFunded'
      /\ InsertsAreUnseen' /\ RefundsWellFormed' /\ FundedByCapture'
  BY <1>2, MoverEnds
<1>7. TypeOK' /\ EscrowTypeOK'
  BY <1>2, <1>3, <1>6 DEF EscrowInv, Core, TypeOK, EscrowTypeOK, HoldStatus
<1>8. SettledExactlyOnce'
  BY <1>2, <1>3, <1>4, <1>5 DEF EscrowInv, Core, SettledExactlyOnce
<1>9. HoldIsFunded'
  BY <1>2, <1>4, <1>5 DEF EscrowInv, HoldIsFunded
<1>10. BooksAgree'
  BY <1>2, <1>3 DEF EscrowInv, BooksAgree
<1> QED
  BY <1>6, <1>7, <1>8, <1>9, <1>10 DEF EscrowInv, Core

(* Both kinds of refund write REFUNDED on an order row that no settler has  *)
(* locked.                                                                  *)
LEMMA RefundKeeps ==
    ASSUME EscrowInv, NEW t \in Txs, RefundHoldCommit(t) \/ RefundBareCommit(t)
    PROVE  EscrowInv'
<1>1. PICK o \in Orders : o = tx[t].ord
  BY DEF EscrowInv, RefundsWellFormed, RefundHoldCommit, RefundBareCommit
<1>2. /\ tx' = [tx EXCEPT ![t] = Idle]
      /\ UNCHANGED <<pay, captured, hook, enrolled, access, rewarded, aged, refunded, payout>>
      /\ ~OrderLocked(o) /\ order' = [order EXCEPT ![o] = "REFUNDED"]
  BY <1>1 DEF RefundHoldCommit, RefundBareCommit, settled, escrowVars
<1>3. \/ /\ hold[o] = "HELD" /\ hold' = [hold EXCEPT ![o] = "REFUNDED"]
         /\ credited' = credited \union {o}
      \/ UNCHANGED <<hold, credited>>
  BY <1>1 DEF RefundHoldCommit, RefundBareCommit, StillHeld, settled, escrowVars
<1>4. seat' \in [Payers -> Enrollment]
  <2>1. \/ seat' = seat
        \/ seat' = [seat EXCEPT ![PayerOf[o]].status = "REFUNDED"]
    BY <1>1 DEF RefundHoldCommit, RefundBareCommit
  <2>2. PayerOf[o] \in Payers /\ seat \in [Payers -> Enrollment]
    BY ConstantsAssumption DEF EscrowInv, Core, TypeOK
  <2>3. [seat[PayerOf[o]] EXCEPT !.status = "REFUNDED"] \in Enrollment
    BY <2>2 DEF Enrollment, SeatStatus
  <2> QED BY <2>1, <2>2, <2>3
<1>5. /\ order \in [Orders -> OrderStatus] /\ hold \in [Orders -> HoldStatus]
      /\ credited \subseteq Orders
  BY DEF EscrowInv, Core, TypeOK, EscrowTypeOK
<1>6. \A p \in Orders : p # o => order'[p] = order[p] /\ hold'[p] = hold[p]
  BY <1>2, <1>3, <1>5
<1>7. order'[o] = "REFUNDED" /\ (hold'[o] # "NONE" <=> hold[o] # "NONE")
  BY <1>2, <1>3, <1>5
<1>8. \A p \in Orders : Succeeded(p)' = Succeeded(p)
  BY <1>2 DEF Succeeded
<1>9. /\ tx' \in [Txs -> Transaction]
      /\ RequestsWellFormed' /\ WinnerIsAlone' /\ SettlersAreFunded'
      /\ InsertsAreUnseen' /\ RefundsWellFormed' /\ FundedByCapture'
  BY <1>2, <1>6, MoverEnds
<1>10. TypeOK' /\ EscrowTypeOK'
  <2>1. order' \in [Orders -> OrderStatus] /\ hold' \in [Orders -> HoldStatus]
        /\ credited' \subseteq Orders
    BY <1>2, <1>3, <1>5 DEF OrderStatus, HoldStatus
  <2> QED
    BY <1>2, <1>4, <1>9, <2>1 DEF EscrowInv, Core, TypeOK, EscrowTypeOK
<1>11. SettledExactlyOnce'
  BY <1>2, <1>6, <1>7, <1>8 DEF EscrowInv, Core, SettledExactlyOnce
<1>12. HoldIsFunded'
  BY <1>2, <1>6, <1>7, <1>8 DEF EscrowInv, HoldIsFunded
<1>13. BooksAgree'
  BY <1>2, <1>3, <1>5, <1>6, <1>7 DEF EscrowInv, BooksAgree
<1> QED
  BY <1>9, <1>10, <1>11, <1>12, <1>13 DEF EscrowInv, Core

(* Settlement's steps keep what releases and refunds rely on: the money of  *)
(* an order is untouched until its winner commits, and a settled order is   *)
(* never settled again.                                                     *)
LEMMA SettlementKeeps ==
    ASSUME EscrowInv, SettlementNext, UNCHANGED escrowVars
    PROVE  EscrowInv'
<1>1. Core'
  BY CoreStep DEF EscrowInv
<1>2. EscrowTypeOK'
  BY <1>1 DEF EscrowInv, EscrowTypeOK, escrowVars, Core
<1>3. RefundsWellFormed'
  <2>1. tx \in [Txs -> Transaction]
    BY DEF EscrowInv, Core, TypeOK
  <2>2. ASSUME NEW t \in Txs, NEW q \in Payments,
               \/ InitiateBegin(t, q) \/ WebhookBegin(t, q)
               \/ VerifyBegin(t, q)   \/ ManualBegin(t, q)
        PROVE  RefundsWellFormed'
    <3>1. \E op, pc : /\ tx' = [tx EXCEPT ![t] = Request(op, pc, q)]
                      /\ op \in Settlers \union {"initiate"} /\ pc \in {"asked", "read"}
      BY <2>2 DEF InitiateBegin, WebhookBegin, VerifyBegin, ManualBegin, Settlers
    <3> QED BY <2>1, <3>1 DEF Request, Idle, EscrowInv, RefundsWellFormed, MoneyMovers, Settlers
  <2>3. ASSUME NEW t \in Txs,
               \/ InitiateCommit(t) \/ SettleCommit(t) \/ SettleLost(t)
               \/ SweepCommit(t)    \/ Rollback(t)
        PROVE  RefundsWellFormed'
    BY <2>1, <2>3 DEF InitiateCommit, SettleCommit, SettleLost, SweepCommit, Rollback, Idle,
                      EscrowInv, RefundsWellFormed, MoneyMovers
  <2>4. ASSUME NEW t \in Txs, VerifyReload(t) PROVE RefundsWellFormed'
    BY <2>1, <2>4 DEF VerifyReload, Idle, EscrowInv, RefundsWellFormed, MoneyMovers, Transaction
  <2>5. ASSUME NEW t \in Txs, TryMarkPaid(t) PROVE RefundsWellFormed'
    BY <2>1, <2>5 DEF TryMarkPaid, EscrowInv, RefundsWellFormed, MoneyMovers, Transaction
  <2>6. ASSUME NEW t \in Txs, SweepList(t) PROVE RefundsWellFormed'
    BY <2>1, <2>6 DEF SweepList, Idle, EscrowInv, RefundsWellFormed, MoneyMovers
  <2>7. ASSUME tx' = tx PROVE RefundsWellFormed'
    BY <2>7 DEF EscrowInv, RefundsWellFormed
  <2> QED
    BY <2>2, <2>3, <2>4, <2>5, <2>6, <2>7
       DEF SettlementNext, CreateCohortBooking, CreateOtherOrder, Age, Capture,
           WebhookBadSignature, WebhookConsume
<1>4. BooksAgree' /\ HoldIsFunded'
  <2>1. UNCHANGED <<refunded, credited, payout>>
    BY DEF escrowVars
  <2>2. CASE /\ UNCHANGED <<hold, access>>
             /\ \A o \in Orders : /\ Succeeded(o)' = Succeeded(o)
                                  /\ order[o] \in {"PAID", "REFUNDED"}
                                         => order'[o] = order[o]
    <3>1. BooksAgree'
      BY <2>1, <2>2 DEF EscrowInv, BooksAgree
    <3>2. HoldIsFunded'
      BY <2>2 DEF EscrowInv, HoldIsFunded
    <3> QED BY <3>1, <3>2
  <2>3. ASSUME NEW t \in Txs, SettleCommit(t)
        PROVE  BooksAgree' /\ HoldIsFunded'
    <3>1. PICK o \in Orders, q \in Payments :
              /\ order[o] \in Settleable /\ hold[o] = "NONE" /\ access[o] = 0
              /\ order' = [order EXCEPT ![o] = "PAID"]
              /\ hold' = [hold EXCEPT ![o] = HoldCreated(o)]
              /\ access' = [access EXCEPT ![o] = Activated(o)]
              /\ Succeeded(o)' = {q}
              /\ \A p \in Orders : p # o => Succeeded(p)' = Succeeded(p)
      BY <2>3, WinnersCommit DEF EscrowInv
    <3>2. /\ order \in [Orders -> OrderStatus] /\ hold \in [Orders -> HoldStatus]
          /\ access \in [Orders -> Nat]
      BY DEF EscrowInv, Core, TypeOK
    <3>3. \A p \in Orders : p # o => /\ order'[p] = order[p] /\ hold'[p] = hold[p]
                                     /\ access'[p] = access[p]
      BY <3>1, <3>2
    <3>4. /\ hold'[o] = IF o \in Tutored THEN "HELD" ELSE "NONE"
          /\ access'[o] = Activated(o)
      BY <3>1, <3>2 DEF HoldCreated
    <3>5. Activated(o) \in 0..1
      BY <3>1, ConstantsAssumption DEF Activated, ItemTypes
    <3>6. o \notin payout /\ o \notin credited
      BY <3>1 DEF EscrowInv, BooksAgree
    <3>7. BooksAgree'
      BY <2>1, <3>3, <3>4, <3>6 DEF EscrowInv, BooksAgree
    <3>8. Succeeded(o)' # {} /\ Cardinality(Succeeded(o)') <= 1
      <4>1. PICK S : S = Succeeded(o)' /\ S = {q}
        BY <3>1
      <4>2. Cardinality(S) = 1
        BY <4>1, FS_Singleton
      <4> QED BY <4>1, <4>2
    <3>9. HoldIsFunded'
      <4>1. SUFFICES ASSUME NEW p \in Orders
                     PROVE  /\ hold'[p] # "NONE" => p \in Tutored /\ Succeeded(p)' # {}
                            /\ Cardinality(Succeeded(p)') <= 1
                            /\ access'[p] <= 1
        BY DEF HoldIsFunded
      <4>2. CASE p = o
        BY <3>4, <3>5, <3>8, <4>2
      <4>3. CASE p # o
        BY <3>1, <3>3, <4>3 DEF EscrowInv, HoldIsFunded
      <4> QED BY <4>2, <4>3
    <3> QED BY <3>7, <3>9
  <2> QED BY <2>2, <2>3, OnlyWinnersSettle DEF EscrowInv
<1> QED
  BY <1>1, <1>2, <1>3, <1>4 DEF EscrowInv

-----------------------------------------------------------------------------
(* The theorems.                                                            *)

LEMMA EscrowInitHolds == EscrowInit => EscrowInv
<1> SUFFICES ASSUME EscrowInit PROVE EscrowInv
  OBVIOUS
<1>1. Core
  BY CoreInit DEF EscrowInit
<1>2. EscrowTypeOK /\ RefundsWellFormed
  BY <1>1, MaxRefundsAssumption
     DEF Core, EscrowInit, EscrowTypeOK, Init, Idle, RefundsWellFormed, MoneyMovers
<1>3. \A o \in Orders : Succeeded(o) = {}
  BY DEF EscrowInit, Init, Succeeded
<1>4. BooksAgree
  BY DEF EscrowInit, Init, BooksAgree
<1>5. Cardinality({}) = 0
  BY FS_EmptySet
<1>6. \A o \in Orders : Cardinality(Succeeded(o)) = 0
  BY <1>3, <1>5
<1>7. HoldIsFunded
  BY <1>6 DEF EscrowInit, Init, HoldIsFunded
<1> QED
  BY <1>1, <1>2, <1>4, <1>7 DEF EscrowInv

LEMMA EscrowStepKeeps == EscrowInv /\ [EscrowNext]_allVars => EscrowInv'
<1> SUFFICES ASSUME EscrowInv, [EscrowNext]_allVars PROVE EscrowInv'
  OBVIOUS
<1>1. CASE UNCHANGED allVars
  <2>1. Core'
    BY <1>1, CoreStutter DEF EscrowInv, allVars
  <2> QED
    BY <1>1, <2>1 DEF EscrowInv, allVars, vars, escrowVars, Core, EscrowTypeOK,
       RefundsWellFormed, BooksAgree, HoldIsFunded, Succeeded
<1>2. ASSUME NEW t \in Txs, NEW o \in Orders,
             ReleaseBegin(t, o) \/ RefundOrderBegin(t, o) \/ RefundEscrowBegin(t, o)
      PROVE  EscrowInv'
  <2>1. \E op \in MoneyMovers : tx[t] = Idle /\ Start(t, op, o)
    BY <1>2 DEF ReleaseBegin, RefundOrderBegin, RefundEscrowBegin, MoneyMovers
  <2>2. UNCHANGED <<order, pay, captured, hook, seat, enrolled, hold, access,
                    rewarded, aged, escrowVars>>
    BY <1>2 DEF ReleaseBegin, RefundOrderBegin, RefundEscrowBegin, settled
  <2> QED BY <2>1, <2>2, StartKeeps
<1> QED
  BY <1>1, <1>2, SettlementKeeps, ReleaseKeeps, GatewayKeeps, RefundKeeps DEF EscrowNext

(* However releases, refunds, settlements and sweeps interleave and die,    *)
(* the invariant holds.                                                     *)
THEOREM EscrowInvariant == EscrowSpec => []EscrowInv
  BY EscrowInitHolds, EscrowStepKeeps, PTL DEF EscrowSpec

(* The rows of settlement and escrow, the requests in flight and the        *)
(* gateway's counters stay well-typed.                                      *)
THEOREM EscrowTyped == EscrowSpec => []EscrowTypeOK
  BY EscrowInvariant, PTL DEF EscrowInv

(* A payout row exists exactly for a released hold and a wallet credit      *)
(* exactly for a refunded one, whose order is REFUNDED: no race of a        *)
(* release with a refund writes one without the other, or both.             *)
THEOREM BooksBalance == EscrowSpec => []BooksAgree
  BY EscrowInvariant, PTL DEF EscrowInv

(* A hold has a payment behind it, and a refund that comes to an unsettled  *)
(* order, however late, is not followed by a settlement.                    *)
THEOREM HoldsAreFunded == EscrowSpec => []HoldIsFunded
  BY EscrowInvariant, PTL DEF EscrowInv

(* Refunds do not disturb the settlement: an order is settled once, with a  *)
(* captured payment, also when it is refunded meanwhile.                    *)
THEOREM StillSettledOnce == EscrowSpec => [](SettledExactlyOnce /\ FundedByCapture)
  BY EscrowInvariant, PTL DEF EscrowInv, Core

(* A PAID order can become REFUNDED only, and a REFUNDED one nothing else,  *)
(* whichever settlers, sweeps and refunds still hold older reads of it.     *)
THEOREM RefundedForGood == EscrowSpec => PaidStaysPaid
<1> DEFINE Kept == \A o \in Orders :
                      /\ order[o] = "PAID" => order'[o] \in {"PAID", "REFUNDED"}
                      /\ order[o] = "REFUNDED" => order'[o] = "REFUNDED"
<1>1. EscrowInv /\ [EscrowNext]_allVars => [Kept]_vars
  <2> SUFFICES ASSUME EscrowInv, EscrowNext PROVE Kept
    BY DEF allVars, vars
  <2>1. order \in [Orders -> OrderStatus]
    BY DEF EscrowInv, Core, TypeOK
  <2>2. CASE SettlementNext
    <3>1. ASSUME NEW t \in Txs, SettleCommit(t) PROVE Kept
      BY <2>1, <3>1 DEF SettleCommit, EscrowInv, Core, WinnerIsAlone, Settleable
    <3> QED BY <2>2, <3>1, OnlyWinnersSettle DEF EscrowInv
  <2>3. ASSUME NEW t \in Txs, NEW o \in Orders,
               ReleaseBegin(t, o) \/ RefundOrderBegin(t, o) \/ RefundEscrowBegin(t, o)
        PROVE  Kept
    BY <2>3 DEF ReleaseBegin, RefundOrderBegin, RefundEscrowBegin
  <2>4. ASSUME NEW t \in Txs, \/ ReleaseCommit(t) \/ RefundGateway(t)
                              \/ RefundHoldCommit(t) \/ RefundBareCommit(t)
        PROVE  Kept
    BY <2>1, <2>4 DEF ReleaseCommit, RefundGateway, RefundHoldCommit, RefundBareCommit
  <2> QED BY <2>2, <2>3, <2>4 DEF EscrowNext
<1> QED
  BY <1>1, EscrowInvariant, PTL DEF EscrowSpec, PaidStaysPaid

-----------------------------------------------------------------------------
(* Escrow implements Custody.                                               *)

(* The money of one order moves and that of no other.                       *)
LEMMA HoldMoves ==
    ASSUME EscrowInv, EscrowInv', NEW o \in Orders, NEW status \in HoldStatus,
           hold' = [hold EXCEPT ![o] = status],
           \/ hold[o] = "NONE" /\ status = "HELD"
           \/ hold[o] = "HELD" /\ status \in {"RELEASED", "REFUNDED"}
    PROVE  C!CustodyNext
<1>1. hold \in [Orders -> HoldStatus] /\ hold' \in [Orders -> HoldStatus]
  BY DEF EscrowInv, Core, TypeOK
<1>2. \A p \in Orders : p # o => hold'[p] = hold[p]
  BY <1>1
<1>3. hold'[o] = status
  BY <1>1
<1>4. ASSUME NEW p \in Orders
      PROVE  /\ CustodyOf(p) = CASE hold[p] = "RELEASED" -> "tutor"
                                 [] hold[p] = "REFUNDED" -> "returned"
                                 [] hold[p] = "HELD"     -> "escrow"
                                 [] OTHER                -> "payer"
             /\ CustodyOf(p)' = CASE hold'[p] = "RELEASED" -> "tutor"
                                  [] hold'[p] = "REFUNDED" -> "returned"
                                  [] hold'[p] = "HELD"     -> "escrow"
                                  [] OTHER                 -> "payer"
  <2>1. hold[p] \in HoldStatus /\ hold'[p] \in HoldStatus
    BY <1>1
  <2>2. BooksAgree /\ BooksAgree'
    BY DEF EscrowInv
  <2> QED BY <2>1, <2>2 DEF BooksAgree, CustodyOf, HoldStatus
<1>5. \A p \in Orders : p # o => CustodyOf(p)' = CustodyOf(p)
  BY <1>2, <1>4
<1>6. custodyOf' = [custodyOf EXCEPT ![o] = CustodyOf(o)']
  BY <1>5 DEF custodyOf
<1>7. \/ CustodyOf(o) = "payer" /\ CustodyOf(o)' = "escrow"
      \/ CustodyOf(o) = "escrow" /\ CustodyOf(o)' = "tutor"
      \/ CustodyOf(o) = "escrow" /\ CustodyOf(o)' = "returned"
  BY <1>3, <1>4
<1>8. custodyOf[o] = CustodyOf(o)
  BY DEF custodyOf
<1> QED
  BY <1>6, <1>7, <1>8 DEF C!CustodyNext, C!Hold, C!PayOut, C!Return, C!Move

(* The requests that settle, release and refund an order implement Custody: *)
(* its money is held once and leaves escrow once, to one side.  A winner's  *)
(* commit for an order with a tutor is Hold, a release PayOut, a refund of  *)
(* a hold Return; everything else leaves the money where it is.             *)
THEOREM EscrowImplementsCustody == EscrowSpec => MoneyMovesOnce
<1>1. EscrowInit => C!CustodyInit
  BY DEF EscrowInit, Init, C!CustodyInit, custodyOf, CustodyOf
<1>2. EscrowInv /\ EscrowInv' /\ [EscrowNext]_allVars => [C!CustodyNext]_custodyOf
  <2> SUFFICES ASSUME EscrowInv, EscrowInv', [EscrowNext]_allVars
               PROVE  C!CustodyNext \/ UNCHANGED custodyOf
    OBVIOUS
  <2>1. ASSUME UNCHANGED <<hold, payout, credited>> PROVE UNCHANGED custodyOf
    BY <2>1 DEF custodyOf, CustodyOf
  <2>2. CASE UNCHANGED allVars
    BY <2>1, <2>2 DEF allVars, vars, escrowVars
  <2>3. CASE SettlementNext /\ UNCHANGED escrowVars
    <3>1. ASSUME NEW t \in Txs, SettleCommit(t) PROVE C!CustodyNext \/ UNCHANGED custodyOf
      <4>1. PICK o \in Orders : hold[o] = "NONE" /\ hold' = [hold EXCEPT ![o] = HoldCreated(o)]
        BY <3>1, WinnersCommit DEF EscrowInv
      <4>2. CASE o \in Tutored
        BY <4>1, <4>2, HoldMoves DEF HoldCreated, HoldStatus
      <4>3. CASE o \notin Tutored
        BY <2>1, <2>3, <4>1, <4>3 DEF HoldCreated, escrowVars, EscrowInv, Core, TypeOK
      <4> QED BY <4>2, <4>3
    <3>2. CASE hold' = hold
      BY <2>1, <2>3, <3>2 DEF escrowVars
    <3> QED BY <2>3, <3>1, <3>2, OnlyWinnersSettle DEF EscrowInv
  <2>4. ASSUME NEW t \in Txs, NEW o \in Orders,
               ReleaseBegin(t, o) \/ RefundOrderBegin(t, o) \/ RefundEscrowBegin(t, o)
        PROVE  UNCHANGED custodyOf
    BY <2>1, <2>4 DEF ReleaseBegin, RefundOrderBegin, RefundEscrowBegin, settled, escrowVars
  <2>5. ASSUME NEW t \in Txs, RefundGateway(t) \/ RefundBareCommit(t)
        PROVE  UNCHANGED custodyOf
    BY <2>1, <2>5 DEF RefundGateway, RefundBareCommit, settled, escrowVars
  <2>6. ASSUME NEW t \in Txs, ReleaseCommit(t)
        PROVE  C!CustodyNext \/ UNCHANGED custodyOf
    <3>1. tx[t].ord \in Orders
      BY <2>6 DEF ReleaseCommit, EscrowInv, RefundsWellFormed, MoneyMovers
    <3>2. CASE hold[tx[t].ord] = "HELD"
      BY <2>6, <3>1, <3>2, HoldMoves DEF ReleaseCommit, StillHeld, HoldStatus
    <3>3. CASE hold[tx[t].ord] # "HELD"
      BY <2>1, <2>6, <3>3 DEF ReleaseCommit, StillHeld
    <3> QED BY <3>2, <3>3
  <2>7. ASSUME NEW t \in Txs, RefundHoldCommit(t)
        PROVE  C!CustodyNext
    <3>1. tx[t].ord \in Orders
      BY <2>7 DEF RefundHoldCommit, EscrowInv, RefundsWellFormed
    <3> QED BY <2>7, <3>1, HoldMoves DEF RefundHoldCommit, StillHeld, HoldStatus
  <2> QED
    BY <2>2, <2>3, <2>4, <2>5, <2>6, <2>7 DEF EscrowNext
<1> QED
  BY <1>1, <1>2, EscrowInvariant, PTL DEF EscrowSpec, MoneyMovesOnce, C!CustodySpec
=============================================================================
