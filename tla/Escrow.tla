------------------------------- MODULE Escrow -------------------------------
(***************************************************************************)
(* What happens to the money of a settled order (internal/service/         *)
(* payment_service.go, from ReleaseEscrow on), together with the           *)
(* settlement that holds it: release to a tutor payout, refund of a hold,  *)
(* refund of an order.  The requests are entries of Settlement's tx and    *)
(* interleave with settlers and sweeps.                                    *)
(***************************************************************************)
EXTENDS Settlement

CONSTANT MaxRefunds  \* bound on the gateway refunds counted per payment

ASSUME MaxRefundsAssumption == MaxRefunds \in Nat \ {0}

VARIABLES
    refunded, \* at the gateway: refunds accepted for the reference
    credited, \* orders whose hold was credited to the payer's wallet
    payout    \* orders whose hold has a payout row

escrowVars == <<refunded, credited, payout>>
allVars == <<vars, escrowVars>>

EscrowTypeOK ==
    /\ TypeOK
    /\ refunded \in [Payments -> 0..MaxRefunds]
    /\ credited \subseteq Orders
    /\ payout \subseteq Orders

EscrowInit ==
    /\ Init
    /\ refunded = [q \in Payments |-> 0]
    /\ credited = {}
    /\ payout = {}

(* The payments a refund calls the gateway for: the successful attempts of  *)
(* a configured provider.  A manual payment has none.                       *)
Refundable(o) == {q \in GatewayPayments(o) : pay[q] = "SUCCESS"}

Start(t, op, o) ==
    tx' = [tx EXCEPT ![t] = [Idle EXCEPT !.op = op, !.pc = "asked", !.ord = o,
                                         !.seen = hold[o]]]

(* ReleaseIfHeld, the compare-and-set of releases and refunds.              *)
HeldWhenRead(o) == TRUE
StillHeld(o) == hold[o] = "HELD"

(* ReleaseEscrow, confirmed by the client or by ExpireStaleHolds: the hold  *)
(* is read HELD ...                                                         *)
ReleaseBegin(t, o) ==
    /\ tx[t] = Idle /\ hold[o] = "HELD"
    /\ Start(t, "release", o)
    /\ UNCHANGED <<settled, order, captured, hook, seat, enrolled, aged, escrowVars>>

(* ... and released, with its payout, if it still is.                       *)
ReleaseCommit(t) ==
    LET o == tx[t].ord IN
    /\ tx[t].op = "release"
    /\ IF StillHeld(o)
       THEN /\ hold' = [hold EXCEPT ![o] = "RELEASED"]
            /\ payout' = payout \union {o}
       ELSE UNCHANGED <<hold, payout>>
    /\ tx' = [tx EXCEPT ![t] = Idle]
    /\ UNCHANGED <<order, pay, captured, hook, seat, enrolled, access, rewarded,
                   aged, refunded, credited>>

(* RefundOrder: not refunded yet, and its hold, if any, not released.       *)
RefundOrderBegin(t, o) ==
    /\ tx[t] = Idle
    /\ order[o] \notin {"NONE", "REFUNDED"} /\ hold[o] # "RELEASED"
    /\ Start(t, "refundOrder", o)
    /\ UNCHANGED <<settled, order, captured, hook, seat, enrolled, aged, escrowVars>>

(* RefundEscrow: the hold is HELD.                                          *)
RefundEscrowBegin(t, o) ==
    /\ tx[t] = Idle /\ hold[o] = "HELD"
    /\ Start(t, "refundEscrow", o)
    /\ UNCHANGED <<settled, order, captured, hook, seat, enrolled, aged, escrowVars>>

(* Both then refund the successful payments at the gateway, before they     *)
(* write anything.  (A gateway that refuses ends the request: Rollback.)    *)
RefundGateway(t) ==
    LET S == Refundable(tx[t].ord) IN
    /\ tx[t].op \in {"refundOrder", "refundEscrow"} /\ tx[t].pc = "asked"
    /\ \A q \in S : refunded[q] < MaxRefunds
    /\ refunded' = [q \in Payments |-> IF q \in S THEN refunded[q] + 1 ELSE refunded[q]]
    /\ tx' = [tx EXCEPT ![t].pc = "gateway"]
    /\ UNCHANGED <<settled, order, captured, hook, seat, enrolled, aged, credited, payout>>

(* refundEscrowInUOW and the commit: the hold that was read HELD must still *)
(* be; the wallet is credited, order and enrollment become REFUNDED.  The   *)
(* seat stays counted.                                                      *)
RefundHoldCommit(t) ==
    LET o == tx[t].ord
        s == PayerOf[o] IN
    /\ tx[t].pc = "gateway" /\ tx[t].seen = "HELD" /\ StillHeld(o)
    /\ ~OrderLocked(o) /\ (ItemOf[o] = "COHORT" => ~SeatLocked(s))
    /\ hold' = [hold EXCEPT ![o] = "REFUNDED"]
    /\ credited' = credited \union {o}
    /\ order' = [order EXCEPT ![o] = "REFUNDED"]
    /\ seat' = IF ItemOf[o] = "COHORT" THEN [seat EXCEPT ![s].status = "REFUNDED"]
                                       ELSE seat
    /\ tx' = [tx EXCEPT ![t] = Idle]
    /\ UNCHANGED <<pay, captured, hook, enrolled, access, rewarded, aged,
                   refunded, payout>>

(* RefundOrder of an order that was read without a HELD hold: the status is *)
(* written whatever it is by now.                                           *)
RefundBareCommit(t) ==
    LET o == tx[t].ord IN
    /\ tx[t].pc = "gateway" /\ tx[t].seen # "HELD"
    /\ ~OrderLocked(o)
    /\ order' = [order EXCEPT ![o] = "REFUNDED"]
    /\ tx' = [tx EXCEPT ![t] = Idle]
    /\ UNCHANGED <<settled, captured, hook, seat, enrolled, aged, escrowVars>>

EscrowNext ==
    \/ SettlementNext /\ UNCHANGED escrowVars
    \/ \E t \in Txs, o \in Orders :
           ReleaseBegin(t, o) \/ RefundOrderBegin(t, o) \/ RefundEscrowBegin(t, o)
    \/ \E t \in Txs :
           \/ ReleaseCommit(t) \/ RefundGateway(t)
           \/ RefundHoldCommit(t) \/ RefundBareCommit(t)

EscrowSpec == EscrowInit /\ [][EscrowNext]_allVars

-----------------------------------------------------------------------------
(* Properties.                                                              *)

(* Where the money of an order is, read off the rows.                       *)
CustodyOf(o) ==
    CASE o \in payout        -> "tutor"
      [] o \in credited      -> "returned"
      [] hold[o] = "HELD"    -> "escrow"
      [] OTHER               -> "payer"
custodyOf == [o \in Orders |-> CustodyOf(o)]

C == INSTANCE Custody WITH custody <- custodyOf

(* Releases, refunds and settlements of an order in any order hold its      *)
(* money once and move it out once, to one side.                            *)
MoneyMovesOnce == C!CustodySpec

(* The hold, the payout and the wallet credit always tell the same story.   *)
BooksAgree ==
    \A o \in Orders :
        /\ o \in payout   <=> hold[o] = "RELEASED"
        /\ o \in credited <=> hold[o] = "REFUNDED"
        /\ o \in credited => order[o] = "REFUNDED"

(* A hold exists only for a settled order, and however late a refund comes  *)
(* to an unsettled one, no second settlement follows.                       *)
HoldIsFunded ==
    \A o \in Orders :
        /\ hold[o] # "NONE" => o \in Tutored /\ Succeeded(o) # {}
        /\ Cardinality(Succeeded(o)) <= 1
        /\ access[o] <= 1

(* The gateway is not asked to refund an order that is refunded already or  *)
(* whose hold was released for a tutor payout.                              *)
(* It does not hold.                                                        *)
NoRefundAfterRelease ==
    [][\A q \in Payments : refunded'[q] > refunded[q] =>
          /\ hold[OrderOf[q]] # "RELEASED"
          /\ order[OrderOf[q]] # "REFUNDED"]_allVars

(* The books say REFUNDED only if the gateway accepted the refund of what   *)
(* it had captured for the order.                                           *)
(* It does not hold.                                                        *)
RefundedByGateway ==
    \A q \in Payments :
        /\ order[OrderOf[q]] = "REFUNDED" /\ pay[q] = "SUCCESS"
        /\ ProviderOf[q] # "MANUAL"
        => refunded[q] > 0

-----------------------------------------------------------------------------
(* The inductive strengthening: a release or a refund in flight has its     *)
(* order, and no payment attempt of its own.                                *)
MoneyMovers == {"release", "refundOrder", "refundEscrow"}
RefundsWellFormed ==
    \A t \in Txs :
        /\ tx[t].op \in MoneyMovers => tx[t].ord \in Orders
        /\ tx[t].pc = "gateway" => tx[t].op \in MoneyMovers

EscrowInv ==
    /\ Core
    /\ EscrowTypeOK
    /\ RefundsWellFormed
    /\ BooksAgree
    /\ HoldIsFunded
=============================================================================
