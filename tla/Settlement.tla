----------------------------- MODULE Settlement -----------------------------
(***************************************************************************)
(* How an order becomes PAID (internal/service/payment_service.go) and how *)
(* the seat of an unpaid one is taken back (internal/service/              *)
(* booking_service.go).                                                    *)
(*                                                                         *)
(* Every request is a Postgres READ COMMITTED transaction.  Its reads see  *)
(* the rows committed when they run; its writes become visible together,   *)
(* at COMMIT.  A request is therefore an entry of `tx` that goes through   *)
(* a few steps: reads first, then the compare-and-set that locks the order *)
(* row, then the commit that applies the writes.  Any number of requests   *)
(* of any kind interleave between those steps, and any of them may die.    *)
(***************************************************************************)
EXTENDS Integers, FiniteSets

CONSTANTS
    Orders,     \* order ids, in the pool from the start, inserted by a booking
    Payments,   \* payment ids: numbers, so that "newest attempt" is the largest
    Payers,     \* a parent with one student (the order's parent and student)
    Txs,        \* request slots: how many transactions can be open at once
    PayerOf,    \* orders -> payers
    ItemOf,     \* orders -> the order's item type
    OrderOf,    \* payments -> orders
    ProviderOf, \* payments -> gateway, or "MANUAL"
    Tutored,    \* orders whose cohort or package has a tutor assigned
    Capacity,   \* cohorts.capacity of the one cohort
    Declines,   \* references for which the gateway also reports a failed charge
    NoOrder, NoPayment  \* nil

ItemTypes == {"COHORT", "PRIVATE_PACKAGE", "PLUS_SUBSCRIPTION"}
Providers == {"PAYSTACK", "FLUTTERWAVE", "MANUAL"}

ASSUME ConstantsAssumption ==
    /\ Payments \subseteq Nat
    /\ PayerOf \in [Orders -> Payers]
    /\ ItemOf \in [Orders -> ItemTypes]
    /\ OrderOf \in [Payments -> Orders]
    /\ ProviderOf \in [Payments -> Providers]
    /\ Tutored \subseteq {o \in Orders : ItemOf[o] # "PLUS_SUBSCRIPTION"}
    /\ Capacity \in Nat \ {0}
    /\ Declines \subseteq Payments
    /\ IsFiniteSet(Payers)
    /\ NoOrder \notin Orders
    /\ NoPayment \notin Payments

VARIABLES
    order,    \* orders.status
    pay,      \* payments.status
    captured, \* at the gateway: what has been captured for the reference
    hook,     \* payment_webhooks: absent, received or processed
    seat,     \* cohort_enrollments: one row per student of the cohort
    enrolled, \* cohorts.enrolled_count
    hold,     \* escrow_holds.status (one row per order: uq_escrow_holds_order_id)
    access,   \* orders -> rows activated: the package, or Plus subscriptions
    rewarded, \* payers whose referral has been rewarded
    aged,     \* orders created before the sweep's cutoff
    tx        \* the transactions in flight

vars == <<order, pay, captured, hook, seat, enrolled, hold, access, rewarded,
          aged, tx>>
settled == <<pay, hold, access, rewarded>>

OrderStatus   == {"NONE", "PENDING", "PAID", "CANCELLED", "REFUNDED"}
PaymentStatus == {"NONE", "PENDING", "SUCCESS", "FAILED"}
SeatStatus    == {"NONE", "PENDING", "CONFIRMED", "CANCELLED", "REFUNDED"}
HoldStatus    == {"NONE", "HELD", "RELEASED", "REFUNDED"}

Enrollment == [status : SeatStatus, ord : Orders \union {NoOrder}, stale : BOOLEAN]

Ops == {"none", "initiate", "webhook", "verify", "manual", "sweep",
        "release", "refundOrder", "refundEscrow"}
(* What a request has read and may still act on when it has become stale:   *)
(* seen is the status of the row its next step depends on, rows the         *)
(* enrollments a sweep has locked.                                          *)
Transaction == [op : Ops,
                pc : {"idle", "asked", "read", "won", "locked", "gateway"},
                ord : Orders \union {NoOrder},
                pay : Payments \union {NoPayment},
                seen : SeatStatus \union HoldStatus,
                rows : SUBSET Payers]

Idle == [op |-> "none", pc |-> "idle", ord |-> NoOrder, pay |-> NoPayment,
         seen |-> "NONE", rows |-> {}]
Request(op, pc, q) == [Idle EXCEPT !.op = op, !.pc = pc, !.pay = q,
                                   !.ord = OrderOf[q]]

TypeOK ==
    /\ order \in [Orders -> OrderStatus]
    /\ pay \in [Payments -> PaymentStatus]
    /\ captured \in [Payments -> {"NO", "EXACT", "WRONG"}]
    /\ hook \in [Payments -> {"NONE", "RECEIVED", "PROCESSED"}]
    /\ seat \in [Payers -> Enrollment]
    /\ enrolled \in Int
    /\ hold \in [Orders -> HoldStatus]
    /\ access \in [Orders -> Nat]
    /\ rewarded \subseteq Payers
    /\ aged \subseteq Orders
    /\ tx \in [Txs -> Transaction]

Init ==
    /\ order = [o \in Orders |-> "NONE"]
    /\ pay = [q \in Payments |-> "NONE"]
    /\ captured = [q \in Payments |-> "NO"]
    /\ hook = [q \in Payments |-> "NONE"]
    /\ seat = [s \in Payers |-> [status |-> "NONE", ord |-> NoOrder, stale |-> FALSE]]
    /\ enrolled = 0
    /\ hold = [o \in Orders |-> "NONE"]
    /\ access = [o \in Orders |-> 0]
    /\ rewarded = {}
    /\ aged = {}
    /\ tx = [t \in Txs |-> Idle]

-----------------------------------------------------------------------------
(* Row locks a transaction holds until it ends, read off its position.      *)
(* (A definition that no other one uses, here NeverLocked, is a fault of    *)
(* the code that the definition after it is swapped for, to see that a run  *)
(* notices.)                                                                *)

NeverLocked(o) == FALSE
OrderLocked(o) == \E t \in Txs : tx[t].pc = "won" /\ tx[t].ord = o
SeatLocked(s)  == \E t \in Txs : tx[t].pc = "locked" /\ s \in tx[t].rows
(* An uncommitted INSERT of a webhook row makes a second one wait.          *)
HookInFlight(q) == \E t \in Txs : /\ tx[t].op = "webhook"
                                  /\ tx[t].pay = q
                                  /\ hook[q] = "NONE"

NotYetPaid == {"PENDING", "CANCELLED", "REFUNDED"}
Settleable == {"PENDING", "CANCELLED"}
GatewayPayments(o) == {q \in Payments : OrderOf[q] = o /\ ProviderOf[q] # "MANUAL"}
PendingAttempts(o) == {q \in GatewayPayments(o) : pay[q] = "PENDING"}
Fresh(q) == pay[q] = "NONE" /\ \A t \in Txs : tx[t].pay # q

-----------------------------------------------------------------------------
(* Booking.                                                                 *)

RoomForOneMore == enrolled <= Capacity
HasRoom == enrolled < Capacity

(* A cohort booking: the cohort row is locked FOR UPDATE, so the capacity   *)
(* check, the order, the enrollment (inserted, or the CANCELLED row revived *)
(* for the new order) and the seat are one step.                            *)
CreateCohortBooking(o) ==
    LET s == PayerOf[o] IN
    /\ order[o] = "NONE" /\ ItemOf[o] = "COHORT"
    /\ HasRoom
    /\ seat[s].status \in {"NONE", "CANCELLED"}
    /\ order' = [order EXCEPT ![o] = "PENDING"]
    /\ seat' = [seat EXCEPT ![s].status = "PENDING", ![s].ord = o]
    /\ enrolled' = enrolled + 1
    /\ UNCHANGED <<settled, captured, hook, aged, tx>>

(* A private package (PENDING_PAYMENT) or a Plus purchase: an order with    *)
(* one item and no enrollment.                                              *)
CreateOtherOrder(o) ==
    /\ order[o] = "NONE" /\ ItemOf[o] # "COHORT"
    /\ order' = [order EXCEPT ![o] = "PENDING"]
    /\ UNCHANGED <<settled, captured, hook, seat, enrolled, aged, tx>>

(* The cutoff of the sweep passes the rows a payer has so far.  Reactivate  *)
(* leaves created_at alone: a revived enrollment keeps its age.             *)
Age(s) ==
    /\ seat[s].status # "NONE"
    /\ \E o \in Orders : PayerOf[o] = s /\ order[o] # "NONE" /\ o \notin aged
    /\ seat' = [seat EXCEPT ![s].stale = TRUE]
    /\ aged' = aged \union {o \in Orders : PayerOf[o] = s /\ order[o] # "NONE"}
    /\ UNCHANGED <<settled, order, captured, hook, enrolled, tx>>

-----------------------------------------------------------------------------
(* Payment attempts and the gateway.                                        *)

(* InitiatePayment, first half: the order is PENDING and no PENDING attempt *)
(* exists with this provider (one that does is returned again).             *)
InitiateBegin(t, q) ==
    LET o == OrderOf[q] IN
    /\ tx[t] = Idle /\ Fresh(q) /\ ProviderOf[q] # "MANUAL"
    /\ \A r \in GatewayPayments(o) : Fresh(r) => q <= r
    /\ order[o] = "PENDING"
    /\ \A r \in PendingAttempts(o) : ProviderOf[r] # ProviderOf[q]
    /\ tx' = [tx EXCEPT ![t] = Request("initiate", "asked", q)]
    /\ UNCHANGED <<settled, order, captured, hook, seat, enrolled, aged>>

(* Second half: the row is committed, PENDING with its link, FAILED without. *)
InitiateCommit(t) ==
    /\ tx[t].op = "initiate"
    /\ \E status \in {"PENDING", "FAILED"} :
           pay' = [pay EXCEPT ![tx[t].pay] = status]
    /\ tx' = [tx EXCEPT ![t] = Idle]
    /\ UNCHANGED <<order, captured, hook, seat, enrolled, hold, access,
                   rewarded, aged>>

(* The payer pays the link, whatever has become of the order.               *)
Capture(q) ==
    /\ pay[q] = "PENDING" /\ captured[q] = "NO"
    /\ \E amount \in {"EXACT", "WRONG"} :
           captured' = [captured EXCEPT ![q] = amount]
    /\ UNCHANGED <<settled, order, hook, seat, enrolled, aged, tx>>

AnyAmount(q)  == captured[q] # "NO"
(* checkAmount: the gateway's amount is the one recorded with the payment.  *)
Reconciles(q) == captured[q] = "EXACT"

-----------------------------------------------------------------------------
(* ProcessWebhook.                                                          *)

BadSignatureConsumes(q) ==
    /\ hook[q] = "NONE" /\ ~HookInFlight(q) /\ pay[q] # "NONE"
    /\ hook' = [hook EXCEPT ![q] = "PROCESSED"]
    /\ UNCHANGED <<settled, order, captured, seat, enrolled, aged, tx>>

(* An unverifiable delivery leaves its row behind, unprocessed.             *)
WebhookBadSignature(q) ==
    /\ hook[q] = "NONE" /\ ~HookInFlight(q) /\ pay[q] # "NONE"
    /\ hook' = [hook EXCEPT ![q] = "RECEIVED"]
    /\ UNCHANGED <<settled, order, captured, seat, enrolled, aged, tx>>

(* Deliveries that end without settling, but mark the reference processed:  *)
(* a charge that failed, a payment that is SUCCESS already, an amount or    *)
(* currency that does not reconcile.                                        *)
WebhookConsume(q) ==
    /\ hook[q] # "PROCESSED" /\ ~HookInFlight(q) /\ pay[q] # "NONE"
    /\ \/ q \in Declines
       \/ Reconciles(q) /\ pay[q] = "SUCCESS"
       \/ captured[q] = "WRONG"
    /\ hook' = [hook EXCEPT ![q] = "PROCESSED"]
    /\ UNCHANGED <<settled, order, captured, seat, enrolled, aged, tx>>

(* A success event: the row is inserted, or an unprocessed one adopted, and *)
(* the payment is read; it has not succeeded yet.                           *)
WebhookBegin(t, q) ==
    /\ tx[t] = Idle
    /\ Reconciles(q) /\ hook[q] # "PROCESSED" /\ ~HookInFlight(q)
    /\ pay[q] # "SUCCESS"
    /\ tx' = [tx EXCEPT ![t] = Request("webhook", "read", q)]
    /\ UNCHANGED <<settled, order, captured, hook, seat, enrolled, aged>>

-----------------------------------------------------------------------------
(* VerifyOrder and ConfirmManualPayment, up to the settlement they share.   *)

(* The order is PENDING: its newest PENDING attempt is looked up at the     *)
(* gateway, outside any settlement transaction.                             *)
VerifyBegin(t, q) ==
    LET o == OrderOf[q] IN
    /\ tx[t] = Idle /\ order[o] = "PENDING"
    /\ q \in PendingAttempts(o) /\ \A r \in PendingAttempts(o) : r <= q
    /\ tx' = [tx EXCEPT ![t] = Request("verify", "asked", q)]
    /\ UNCHANGED <<settled, order, captured, hook, seat, enrolled, aged>>

(* If the answer is a capture that reconciles, a fresh transaction reads    *)
(* payment and order again.  (captured only grows: that it is looked at     *)
(* here, after the answer, makes no difference.)                            *)
VerifyReload(t) ==
    /\ tx[t].op = "verify" /\ tx[t].pc = "asked"
    /\ tx' = [tx EXCEPT ![t] =
                IF Reconciles(@.pay) /\ pay[@.pay] # "SUCCESS" /\ order[@.ord] = "PENDING"
                THEN [@ EXCEPT !.pc = "read"]
                ELSE Idle]
    /\ UNCHANGED <<settled, order, captured, hook, seat, enrolled, aged>>

(* The admin confirms an order that is not PAID: a placeholder attempt is   *)
(* inserted, not yet committed.                                             *)
ManualBegin(t, q) ==
    /\ tx[t] = Idle /\ Fresh(q) /\ ProviderOf[q] = "MANUAL"
    /\ order[OrderOf[q]] \notin {"NONE", "PAID"}
    /\ tx' = [tx EXCEPT ![t] = Request("manual", "read", q)]
    /\ UNCHANGED <<settled, order, captured, hook, seat, enrolled, aged>>

-----------------------------------------------------------------------------
(* settleSuccessInUOW.                                                      *)

(* TryMarkPaid matches a row that is PENDING or CANCELLED and locks it; a   *)
(* concurrent settler waits for the lock.  The referral service is called   *)
(* next, on its own connection: what it writes is committed at once.  Then  *)
(* confirmEnrollment reads the student's enrollment, without locking it.    *)
TryMarkPaid(t) ==
    LET o == tx[t].ord
        s == PayerOf[o] IN
    /\ tx[t].pc = "read" /\ tx[t].op \in {"webhook", "verify", "manual"}
    /\ ~OrderLocked(o) /\ order[o] \in Settleable
    /\ rewarded' = rewarded \union {s}
    /\ tx' = [tx EXCEPT ![t].pc = "won",
                        ![t].seen = IF ItemOf[o] = "COHORT" THEN seat[s].status
                                                            ELSE "NONE"]
    /\ UNCHANGED <<order, pay, captured, hook, seat, enrolled, hold, access, aged>>

NeedsPendingSeat(t) == ItemOf[tx[t].ord] = "COHORT" /\ tx[t].seen = "PENDING"
(* confirmEnrollment writes the enrollment unless it has seen it CONFIRMED, *)
(* and counts the seat again if it has seen it CANCELLED.                   *)
NeedsSeat(t) == ItemOf[tx[t].ord] = "COHORT" /\ tx[t].seen # "CONFIRMED"
NeverRetakes(t) == FALSE
RetakesSeat(t) == NeedsSeat(t) /\ tx[t].seen = "CANCELLED"

(* A package becomes ACTIVE (or is already); every paid Plus order inserts a *)
(* subscription.                                                            *)
Activated(o) == CASE ItemOf[o] = "COHORT"            -> access[o]
                  [] ItemOf[o] = "PRIVATE_PACKAGE"   -> 1
                  [] ItemOf[o] = "PLUS_SUBSCRIPTION" -> access[o] + 1

(* createEscrowHold: none for an order without a tutor.                     *)
HoldCreated(o) == IF o \in Tutored THEN "HELD" ELSE hold[o]

(* The commit of the winner: order and payment, seat, package or            *)
(* subscription, hold, webhook row.  The enrollment row must not be locked  *)
(* by a sweep.                                                              *)
SettleCommit(t) ==
    LET o == tx[t].ord
        s == PayerOf[o]
        q == tx[t].pay IN
    /\ tx[t].pc = "won"
    /\ NeedsSeat(t) => ~SeatLocked(s)
    /\ order' = [order EXCEPT ![o] = "PAID"]
    /\ pay' = [pay EXCEPT ![q] = "SUCCESS"]
    /\ seat' = IF NeedsSeat(t) THEN [seat EXCEPT ![s].status = "CONFIRMED"] ELSE seat
    /\ enrolled' = IF RetakesSeat(t) THEN enrolled + 1 ELSE enrolled
    /\ access' = [access EXCEPT ![o] = Activated(o)]
    /\ hold' = [hold EXCEPT ![o] = HoldCreated(o)]
    /\ hook' = IF tx[t].op = "webhook" THEN [hook EXCEPT ![q] = "PROCESSED"] ELSE hook
    /\ tx' = [tx EXCEPT ![t] = Idle]
    /\ UNCHANGED <<captured, rewarded, aged>>

(* TryMarkPaid matched no row: a concurrent settler (or a refund) came      *)
(* first.  The webhook is acknowledged, the manual placeholder voided.      *)
SettleLost(t) ==
    LET q == tx[t].pay IN
    /\ tx[t].pc = "read" /\ tx[t].op \in {"webhook", "verify", "manual"}
    /\ ~OrderLocked(tx[t].ord) /\ order[tx[t].ord] \notin Settleable
    /\ hook' = IF tx[t].op = "webhook" THEN [hook EXCEPT ![q] = "PROCESSED"] ELSE hook
    /\ pay' = IF tx[t].op = "manual" THEN [pay EXCEPT ![q] = "FAILED"] ELSE pay
    /\ tx' = [tx EXCEPT ![t] = Idle]
    /\ UNCHANGED <<order, captured, seat, enrolled, hold, access, rewarded, aged>>

-----------------------------------------------------------------------------
(* ExpireStalePendingEnrollments.                                           *)

NewSeats == {s \in Payers : /\ seat[s].status = "PENDING"
                            /\ ~seat[s].stale
                            /\ ~SeatLocked(s)}
StaleSeats == {s \in Payers : /\ seat[s].status = "PENDING"
                              /\ seat[s].stale
                              /\ ~SeatLocked(s)}

(* ListStalePending locks every stale PENDING enrollment that no other      *)
(* sweep has locked (FOR UPDATE SKIP LOCKED).                               *)
SweepList(t) ==
    /\ tx[t] = Idle /\ StaleSeats # {}
    /\ tx' = [tx EXCEPT ![t] = [Idle EXCEPT !.op = "sweep", !.pc = "locked",
                                            !.rows = StaleSeats]]
    /\ UNCHANGED <<settled, order, captured, hook, seat, enrolled, aged>>

(* CancelIfPending on the order of each row, waiting for a settler that has *)
(* the order row locked; what missed is skipped.                            *)
Listed(t)  == tx[t].rows
Expired(t) == {s \in tx[t].rows : order[seat[s].ord] = "PENDING"}
SweepCommit(t) ==
    LET expired == Expired(t) IN
    /\ tx[t].pc = "locked"
    /\ \A s \in expired : ~OrderLocked(seat[s].ord)
    /\ order' = [o \in Orders |-> IF \E s \in expired : seat[s].ord = o
                                  THEN "CANCELLED" ELSE order[o]]
    /\ seat' = [s \in Payers |-> IF s \in expired
                                 THEN [seat[s] EXCEPT !.status = "CANCELLED"]
                                 ELSE seat[s]]
    /\ enrolled' = enrolled - Cardinality(expired)
    /\ tx' = [tx EXCEPT ![t] = Idle]
    /\ UNCHANGED <<settled, captured, hook, aged>>

-----------------------------------------------------------------------------
(* A transaction dies: the connection or the process is lost, or Postgres   *)
(* picks it as the victim of a deadlock.  Nothing it wrote remains.         *)
Rollback(t) ==
    /\ tx[t] # Idle
    /\ tx' = [tx EXCEPT ![t] = Idle]
    /\ UNCHANGED <<settled, order, captured, hook, seat, enrolled, aged>>

(* A settler holds the order a sweep waits for and waits for the seat the   *)
(* sweep has locked.                                                        *)
Deadlocked(t) ==
    /\ tx[t].pc = "won" /\ NeedsSeat(t)
    /\ \E u \in Txs : /\ tx[u].pc = "locked"
                      /\ PayerOf[tx[t].ord] \in tx[u].rows
                      /\ seat[PayerOf[tx[t].ord]].ord = tx[t].ord

SettlementNext ==
    \/ \E o \in Orders : CreateCohortBooking(o) \/ CreateOtherOrder(o)
    \/ \E s \in Payers : Age(s)
    \/ \E q \in Payments : Capture(q) \/ WebhookBadSignature(q) \/ WebhookConsume(q)
    \/ \E t \in Txs, q \in Payments :
           \/ InitiateBegin(t, q) \/ WebhookBegin(t, q)
           \/ VerifyBegin(t, q)   \/ ManualBegin(t, q)
    \/ \E t \in Txs :
           \/ InitiateCommit(t) \/ VerifyReload(t)
           \/ TryMarkPaid(t)    \/ SettleCommit(t) \/ SettleLost(t)
           \/ SweepList(t)      \/ SweepCommit(t)
           \/ Rollback(t)

Next == SettlementNext

Spec == Init /\ [][Next]_vars

(* The gateway redelivers a success event until it is acknowledged, the     *)
(* sweep runs on every tick of the worker, and a request that is made again *)
(* and again is not rolled back every time.  Nobody has to book, to pay, to *)
(* press "confirm now" or to confirm by hand.                               *)
Fairness ==
    /\ \A q \in Payments : SF_vars(\E t \in Txs : WebhookBegin(t, q))
    /\ SF_vars(\E t \in Txs : SweepList(t))
    /\ \A t \in Txs :
           /\ SF_vars(TryMarkPaid(t) \/ SettleLost(t))
           /\ SF_vars(SettleCommit(t))
           /\ SF_vars(SweepCommit(t))
           /\ WF_vars(InitiateCommit(t) \/ VerifyReload(t))
           /\ WF_vars(Deadlocked(t) /\ Rollback(t))

FairSpec == Spec /\ Fairness

-----------------------------------------------------------------------------
(* Properties.                                                              *)

Succeeded(o) == {q \in Payments : OrderOf[q] = o /\ pay[q] = "SUCCESS"}

(* Webhooks, verifications and manual confirmations of an order settle it   *)
(* once between them: an unsettled order has no successful payment, no hold *)
(* and nothing activated; a settled one has one successful payment, and the *)
(* hold and the activation that belong to it once.                          *)
SettledExactlyOnce ==
    \A o \in Orders :
        /\ order[o] \in {"NONE", "PENDING", "CANCELLED"} =>
               Succeeded(o) = {} /\ hold[o] = "NONE" /\ access[o] = 0
        /\ order[o] = "PAID" =>
               /\ \E q \in Succeeded(o) : Succeeded(o) = {q}
               /\ hold[o] # "NONE" <=> o \in Tutored
               /\ access[o] = IF ItemOf[o] = "COHORT" THEN 0 ELSE 1

(* A gateway payment succeeds only for a capture of the recorded amount,    *)
(* however webhooks and verifications are interleaved and repeated.         *)
FundedByCapture ==
    \A q \in Payments :
        pay[q] = "SUCCESS" /\ ProviderOf[q] # "MANUAL" => captured[q] = "EXACT"

(* The payer of a PAID cohort order has the confirmed seat, whichever of    *)
(* the sweep, a new booking and the settlement ran when: "the webhook must  *)
(* win" (CancelIfPending).                                                  *)
PaidIsSeated ==
    \A o \in Orders : order[o] = "PAID" /\ ItemOf[o] = "COHORT" =>
                          seat[PayerOf[o]].status = "CONFIRMED"

(* A settled order is never taken back to PENDING or CANCELLED by a sweep   *)
(* or settled a second time after a refund.                                 *)
PaidStaysPaid ==
    [][\A o \in Orders :
          /\ order[o] = "PAID" => order'[o] \in {"PAID", "REFUNDED"}
          /\ order[o] = "REFUNDED" => order'[o] = "REFUNDED"]_vars

(* enrolled_count counts the seats that are reserved or taken.              *)
Seated == {s \in Payers : seat[s].status \notin {"NONE", "CANCELLED"}}
SeatsCounted == enrolled = Cardinality(Seated)

(* The cohort fills past its capacity only when money arrives late for a    *)
(* checkout whose seat had been given away, never by a booking.             *)
OversoldOnlyByRevival ==
    [][enrolled' > enrolled /\ enrolled' > Capacity =>
          \E o \in Orders : order[o] = "CANCELLED" /\ order'[o] = "PAID"]_vars

(* The sweep cancels checkouts older than its cutoff only.                  *)
(* It does not hold.                                                        *)
FreshCheckoutKept ==
    [][\A o \in Orders : order[o] = "PENDING" /\ order'[o] = "CANCELLED" =>
                             o \in aged]_vars

(* A referral is rewarded when the referred payer has paid for an order (or *)
(* the settlement that rewards it is still to commit).                      *)
(* It does not hold.                                                        *)
RewardNeedsPayment ==
    \A s \in rewarded :
        \/ \E o \in Orders : PayerOf[o] = s /\ order[o] \in {"PAID", "REFUNDED"}
        \/ \E t \in Txs : tx[t].pc = "won" /\ PayerOf[tx[t].ord] = s

(* Every confirmed student has a seat in the count: a late settlement takes *)
(* again the seat the sweep gave away.                                      *)
(* It does not hold.                                                        *)
ConfirmedSeatsCounted ==
    Cardinality({s \in Payers : seat[s].status = "CONFIRMED"}) <= enrolled

(* Money captured in full settles its order, also when the webhook comes    *)
(* after the sweep or its transaction is rolled back a few times.           *)
CaptureSettles ==
    \A q \in Payments :
        captured[q] = "EXACT" ~> order[OrderOf[q]] \in {"PAID", "REFUNDED"}

(* An abandoned checkout does not block its seat for ever.                  *)
StaleSeatResolved ==
    \A s \in Payers :
        seat[s].status = "PENDING" /\ seat[s].stale ~> seat[s].status # "PENDING"

-----------------------------------------------------------------------------
(* The inductive strengthening of the safety properties: what the requests  *)
(* in flight may rely on.                                                   *)

Settlers == {"webhook", "verify", "manual"}

(* A request that has a payment has its order, and a position of its kind.  *)
RequestsWellFormed ==
    \A t \in Txs :
        /\ tx[t].pc = "won" => tx[t].op \in Settlers
        /\ tx[t].op \in Settlers \union {"initiate"} =>
               tx[t].pay \in Payments /\ tx[t].ord = OrderOf[tx[t].pay]
        /\ tx[t].op = "initiate" => tx[t].pc = "asked"
        /\ tx[t].pc = "locked" => tx[t].op = "sweep"

(* The order row is locked by one settler, and stays settleable meanwhile.  *)
WinnerIsAlone ==
    \A t \in Txs : tx[t].pc = "won" =>
        /\ order[tx[t].ord] \in Settleable
        /\ \A u \in Txs : tx[u].pc = "won" /\ tx[u].ord = tx[t].ord => u = t

(* An attempt that is being inserted is visible to no other request.        *)
InsertsAreUnseen ==
    \A t \in Txs : tx[t].op \in {"initiate", "manual"} =>
        /\ pay[tx[t].pay] = "NONE"
        /\ \A u \in Txs : tx[u].pay = tx[t].pay => u = t

(* Webhooks, and verifications that have the gateway's answer, act on       *)
(* captured money, manual confirmations on manual payments.                 *)
SettlersAreFunded ==
    /\ \A t \in Txs :
           /\ tx[t].op \in {"webhook", "verify"} /\ tx[t].pc # "asked"
                  => captured[tx[t].pay] = "EXACT"
           /\ tx[t].op = "manual" => ProviderOf[tx[t].pay] = "MANUAL"
    /\ \A q \in Payments : captured[q] # "NO" => pay[q] # "NONE"

(* The rows a sweep has locked stay PENDING and are locked by it alone; a   *)
(* seat that a settler has seen CONFIRMED stays so.                         *)
RowsStayLocked ==
    \A t \in Txs :
        /\ tx[t].pc = "locked" => \A s \in tx[t].rows :
               /\ seat[s].status = "PENDING"
               /\ \A u \in Txs : tx[u].pc = "locked" /\ s \in tx[u].rows => u = t
        /\ tx[t].pc = "won" /\ ItemOf[tx[t].ord] = "COHORT" /\ tx[t].seen = "CONFIRMED"
               => seat[PayerOf[tx[t].ord]].status = "CONFIRMED"

(* What holds with refunds in the system as well (Escrow) ...               *)
Core ==
    /\ TypeOK
    /\ RequestsWellFormed
    /\ WinnerIsAlone
    /\ InsertsAreUnseen
    /\ SettlersAreFunded
    /\ SettledExactlyOnce
    /\ FundedByCapture

(* ... and what a refund ends: it leaves a payer who has paid twice without  *)
(* a confirmed seat.                                                        *)
IInv == Core /\ RowsStayLocked /\ PaidIsSeated

(* A checkout that is still open is the one its payer's seat was taken for,  *)
(* so a settler that has seen the seat given away settles an order that the *)
(* sweep has cancelled.                                                     *)
OpenCheckoutHasSeat ==
    /\ \A o \in Orders : order[o] = "PENDING" /\ ItemOf[o] = "COHORT" =>
           /\ seat[PayerOf[o]].ord = o
           /\ seat[PayerOf[o]].status \in {"PENDING", "CONFIRMED"}
    /\ \A t \in Txs : /\ tx[t].pc = "won" /\ ItemOf[tx[t].ord] = "COHORT"
                      /\ tx[t].seen = "CANCELLED"
                      => order[tx[t].ord] = "CANCELLED"

(* Nobody books the cohort again after losing a seat.                       *)
OneOrderEach ==
    \A o, p \in Orders : /\ ItemOf[o] = "COHORT" /\ ItemOf[p] = "COHORT"
                         /\ PayerOf[o] = PayerOf[p]
                         => o = p

(* Then a seat has the status of the one order it belongs to, and what a    *)
(* settler has seen of it is still so when it commits.                      *)
SeatStatusOf == [NONE |-> "NONE", PENDING |-> "PENDING", PAID |-> "CONFIRMED",
                 CANCELLED |-> "CANCELLED"]
SeatFollowsOrder ==
    /\ \A o \in Orders : ItemOf[o] = "COHORT" =>
           /\ order[o] \in DOMAIN SeatStatusOf
           /\ seat[PayerOf[o]].status = SeatStatusOf[order[o]]
           /\ order[o] # "NONE" => seat[PayerOf[o]].ord = o
    /\ \A s \in Payers : seat[s].status # "NONE" =>
           seat[s].ord \in Orders /\ ItemOf[seat[s].ord] = "COHORT" /\ PayerOf[seat[s].ord] = s
    /\ \A t \in Txs : tx[t].pc = "won" /\ ItemOf[tx[t].ord] = "COHORT" =>
           tx[t].seen = seat[PayerOf[tx[t].ord]].status
=============================================================================
