------------------------------- MODULE Purchase -------------------------------
(***************************************************************************)
(* A parent buys lessons in the web client: the checkout of a cohort       *)
(* (CheckoutClient with its PaymentLinkCard) or the private booking form   *)
(* of a tutor, with the part of the server they talk to.  Settlement and   *)
(* Escrow have the server's side in full; here an order is settled in one  *)
(* step, and what matters is what the page sends, hears and shows.         *)
(* A request that the page has given up goes on at the server.             *)
(***************************************************************************)
EXTENDS Naturals, Sequences

CONSTANTS
    Learners,
    Slots,      \* bound: requests of the form on their way at once
    Polls,      \* bound: reads of the payment card on their way at once
    MaxOrders,  \* bound: orders made
    MaxVisits,  \* bound: times the page is opened
    MaxKeys,    \* bound: keys made
    MaxFaults,  \* bound: answers that do not arrive
    NoOne, NoOrder

ASSUME NilAssumption == NoOne \notin Learners /\ NoOrder \notin Nat
ASSUME BoundAssumption ==
    MaxOrders \in Nat /\ MaxFaults \in Nat /\ MaxVisits \in Nat \ {0} /\ MaxKeys \in Nat \ {0}

VARIABLES
    kind,    \* "cohort": one key for each opening of the page; "private": one for each press
    keys,    \* keys made so far; the last one is the page's
    visit,   \* times the page was opened
    step,    \* of the page
    told,    \* the message under the form
    learner, \* the one selected
    promo,   \* the coupon: one is being checked, one is applied
    call,    \* the form's requests
    order,   \* the orders, oldest first
    card,    \* the payment card
    read,    \* the card's requests
    faults

vars == <<kind, keys, visit, step, told, learner, promo, call, order, card, read, faults>>
server == <<order>>
form == <<told, learner, promo>>

Steps == {"form", "creating", "initiating", "link"}
Status == {"PENDING", "PAID", "CANCELLED"}
Orders == DOMAIN order
OrderIds == 1..MaxOrders

NoCall == [op |-> "none", key |-> 0, visit |-> 0, who |-> NoOne, coupon |-> FALSE, ord |-> NoOrder,
           stage |-> "sent", heard |-> FALSE]
NoRead == [op |-> "none", stage |-> "sent", got |-> "PENDING"]
NoCard == [ord |-> NoOrder, who |-> NoOne, coupon |-> FALSE, shown |-> "PENDING"]
NoPromo == [asked |-> FALSE, applied |-> FALSE]

CallRecords ==
    [op: {"none", "create", "pay"}, key: 0..MaxKeys, visit: 0..MaxVisits,
     who: Learners \union {NoOne}, coupon: BOOLEAN, ord: OrderIds \union {NoOrder},
     stage: {"sent", "new", "made", "replayed", "refused"}, heard: BOOLEAN]
OrderRecords ==
    [status: Status, key: 1..MaxKeys, visit: 1..MaxVisits, who: Learners, coupon: BOOLEAN,
     link: BOOLEAN, captured: BOOLEAN]
CardRecords ==
    [ord: OrderIds \union {NoOrder}, who: Learners \union {NoOne}, coupon: BOOLEAN, shown: Status]
ReadRecords == [op: {"none", "read"}, stage: {"sent", "read"}, got: Status]
Reads == Polls \union {"verify"}

PurchaseTypeOK ==
    /\ kind \in {"cohort", "private"} /\ keys \in 1..MaxKeys /\ visit \in 1..MaxVisits
    /\ step \in Steps /\ told \in {"nothing", "failed", "already paid"}
    /\ learner \in Learners \union {NoOne}
    /\ promo \in [asked: BOOLEAN, applied: BOOLEAN]
    /\ call \in [Slots -> CallRecords]
    /\ order \in Seq(OrderRecords) /\ Len(order) <= MaxOrders
    /\ card \in CardRecords
    /\ read \in [Reads -> ReadRecords]
    /\ faults \in 0..MaxFaults

NothingRead == [r \in Reads |-> NoRead]

Init ==
    /\ kind \in {"cohort", "private"}
    /\ keys = 1 /\ visit = 1
    /\ step = "form" /\ told = "nothing" /\ learner = NoOne /\ promo = NoPromo
    /\ call = [c \in Slots |-> NoCall]
    /\ order = <<>>
    /\ card = NoCard /\ read = NothingRead
    /\ faults = 0

-----------------------------------------------------------------------------
(* The form.  The checkout shows a skeleton instead while it works; the     *)
(* private form stays, its button dead.                                     *)

CheckoutForm == step = "form"
PrivateForm == kind = "private" /\ step # "link"
FormShown == CheckoutForm \/ PrivateForm

ChooseLearner(l) ==
    /\ FormShown
    /\ learner' = l
    /\ UNCHANGED <<kind, keys, visit, step, told, promo, call, server, card, read, faults>>

(* Typing takes the coupon off, but not the check that is under way.        *)
TypeCoupon ==
    /\ kind = "cohort" /\ FormShown /\ promo.applied
    /\ promo' = [promo EXCEPT !.applied = FALSE]
    /\ UNCHANGED <<kind, keys, visit, step, told, learner, call, server, card, read, faults>>

ApplyCoupon ==
    /\ kind = "cohort" /\ FormShown
    /\ ~promo.asked
    /\ promo' = [promo EXCEPT !.asked = TRUE]
    /\ UNCHANGED <<kind, keys, visit, step, told, learner, call, server, card, read, faults>>

(* The answer lands whatever the field says by now, also after the press.   *)
CouponAnswer(valid) ==
    /\ promo.asked
    /\ promo' = [promo EXCEPT !.asked = FALSE, !.applied = valid]
    /\ UNCHANGED <<kind, keys, visit, step, told, learner, call, server, card, read, faults>>

Free == {c \in Slots : call[c].op = "none"}
Sends(request) == \E c \in Free : call' = [call EXCEPT ![c] = request]

(* The key of a checkout is made once, when the page is opened; the private *)
(* form makes one for each press.                                           *)
KeyPerPress == keys + 1  \* mutant
NextKey == IF kind = "private" THEN keys + 1 ELSE keys

Submit ==
    /\ step = "form" /\ learner # NoOne
    /\ NextKey <= MaxKeys
    /\ keys' = NextKey
    /\ Sends([NoCall EXCEPT !.op = "create", !.key = NextKey, !.visit = visit, !.who = learner,
                            !.coupon = promo.applied, !.heard = TRUE])
    /\ step' = "creating" /\ told' = "nothing"
    /\ UNCHANGED <<kind, visit, learner, promo, server, card, read, faults>>

(* The page is opened anew.                                                 *)
Reopen ==
    /\ keys < MaxKeys /\ visit < MaxVisits
    /\ keys' = keys + 1 /\ visit' = visit + 1
    /\ step' = "form" /\ told' = "nothing" /\ learner' = NoOne /\ promo' = NoPromo
    /\ call' = [c \in Slots |-> [call[c] EXCEPT !.heard = FALSE]]
    /\ card' = NoCard /\ read' = NothingRead
    /\ UNCHANGED <<kind, server, faults>>

-----------------------------------------------------------------------------
(* POST /bookings.                                                          *)

OfKey(k) == {o \in Orders : order[o].key = k}

(* replay: an order with the key is answered as it is, for whom ever it was. *)
Replay(c) ==
    /\ call[c].op = "create" /\ call[c].stage = "sent"
    /\ LET same == OfKey(call[c].key) IN
       call' = IF same = {} THEN [call EXCEPT ![c].stage = "new"]
               ELSE [call EXCEPT ![c].stage = "replayed", ![c].ord = CHOOSE o \in same : TRUE]
    /\ UNCHANGED <<kind, keys, visit, step, form, server, card, read, faults>>

(* An enrollment that is not CANCELLED bars another booking of the learner.  *)
Enrolled(l) == kind = "cohort" /\ \E o \in Orders : order[o].who = l /\ order[o].status # "CANCELLED"

(* The transaction: the cohort row is locked, and the key is UNIQUE.         *)
Bookable(c) == ~Enrolled(call[c].who) /\ OfKey(call[c].key) = {}

CreateBooking(c) ==
    /\ call[c].op = "create" /\ call[c].stage = "new"
    /\ Bookable(c) /\ Len(order) < MaxOrders
    /\ order' = Append(order, [status |-> "PENDING", key |-> call[c].key, visit |-> call[c].visit, who |-> call[c].who,
                               coupon |-> call[c].coupon, link |-> FALSE, captured |-> FALSE])
    /\ call' = [call EXCEPT ![c].stage = "made", ![c].ord = Len(order) + 1]
    /\ UNCHANGED <<kind, keys, visit, step, form, card, read, faults>>

(* Full, closed, barred, a coupon used up, or any other error.               *)
RefuseBooking(c) ==
    /\ call[c].op = "create" /\ call[c].stage = "new"
    /\ call' = [call EXCEPT ![c].stage = "refused"]
    /\ UNCHANGED <<kind, keys, visit, step, form, server, card, read, faults>>

(* POST /payments/initiate: a new attempt, or the PENDING one again.         *)
InitiatePayment(c) ==
    LET o == call[c].ord IN
    /\ call[c].op = "pay" /\ call[c].stage = "sent"
    /\ order[o].status = "PENDING"
    /\ call' = [call EXCEPT ![c].stage = "made"]
    /\ UNCHANGED <<kind, keys, visit, step, form, server, card, read, faults>>

(* Not PENDING any more, or the gateway has made no link.                    *)
RefusePayment(c) ==
    /\ call[c].op = "pay" /\ call[c].stage = "sent"
    /\ call' = [call EXCEPT ![c].stage = "refused"]
    /\ UNCHANGED <<kind, keys, visit, step, form, server, card, read, faults>>

-----------------------------------------------------------------------------
(* The answers.                                                             *)

AlwaysRequired(c) == TRUE  \* mutant
PaymentRequired(c) == call[c].stage # "replayed"
Unheard(c) == [call EXCEPT ![c] = NoCall]

(* The booking, and then its payment.  The checkout takes a replay for an    *)
(* order that is paid.                                                      *)
Booked(c) ==
    /\ call[c].op = "create" /\ call[c].heard /\ call[c].stage \in {"made", "replayed"}
    /\ IF PaymentRequired(c) \/ kind = "private"
       THEN /\ step' = "initiating" /\ UNCHANGED told
            /\ call' = [call EXCEPT ![c] = [@ EXCEPT !.op = "pay", !.stage = "sent"]]
       ELSE step' = "form" /\ told' = "already paid" /\ call' = Unheard(c)
    /\ UNCHANGED <<kind, keys, visit, learner, promo, server, card, read, faults>>

(* The form is gone, and what it held with it.                              *)
Linked(c) ==
    /\ call[c].op = "pay" /\ call[c].heard /\ call[c].stage = "made"
    /\ step' = "link" /\ told' = "nothing" /\ learner' = NoOne /\ promo' = NoPromo
    /\ card' = [NoCard EXCEPT !.ord = call[c].ord, !.who = call[c].who, !.coupon = call[c].coupon]
    /\ order' = [order EXCEPT ![call[c].ord].link = TRUE]
    /\ call' = Unheard(c)
    /\ UNCHANGED <<kind, keys, visit, read, faults>>

Failed(c) ==
    /\ call[c].heard /\ call[c].stage = "refused"
    /\ step' = "form" /\ told' = "failed" /\ call' = Unheard(c)
    /\ UNCHANGED <<kind, keys, visit, learner, promo, server, card, read, faults>>

(* Twenty seconds, or a connection lost: the same error to the page.         *)
GiveUp(c) ==
    /\ call[c].heard /\ faults < MaxFaults
    /\ step' = "form" /\ told' = "failed" /\ faults' = faults + 1
    /\ call' = [call EXCEPT ![c].heard = FALSE]
    /\ UNCHANGED <<kind, keys, visit, learner, promo, server, card, read>>

(* A request nobody waits for is answered, or dropped as its client is gone. *)
Forget(c) ==
    /\ call[c].op # "none" /\ ~call[c].heard
    /\ call' = Unheard(c)
    /\ UNCHANGED <<kind, keys, visit, step, form, server, card, read, faults>>

-----------------------------------------------------------------------------
(* The gateway, the webhook and the sweep.                                  *)

(* A link that was shown can be paid ever after.                            *)
Capture(o) ==
    /\ order[o].link /\ ~order[o].captured
    /\ order' = [order EXCEPT ![o].captured = TRUE]
    /\ UNCHANGED <<kind, keys, visit, step, form, call, card, read, faults>>

Settles(o) == order[o].captured /\ order[o].status # "PAID"
Settled(o) == [order EXCEPT ![o].status = "PAID"]

(* A payment revives an order whose checkout had expired.                    *)
Webhook(o) ==
    /\ Settles(o)
    /\ order' = Settled(o)
    /\ UNCHANGED <<kind, keys, visit, step, form, call, card, read, faults>>

Expire(o) ==
    /\ kind = "cohort" /\ order[o].status = "PENDING"
    /\ order' = [order EXCEPT ![o].status = "CANCELLED"]
    /\ UNCHANGED <<kind, keys, visit, step, form, call, card, read, faults>>

-----------------------------------------------------------------------------
(* PaymentLinkCard, of a checkout.  A tick of the interval does not wait for *)
(* the read before it, so answers may land out of order; an answer that is   *)
(* not PENDING stops the ticks, one that is starts them again.               *)

CardShown == step = "link" /\ kind = "cohort"
Ticks == card.shown = "PENDING"

Tick(r) ==
    /\ CardShown /\ Ticks /\ read[r].op = "none"
    /\ read' = [read EXCEPT ![r].op = "read"]
    /\ UNCHANGED <<kind, keys, visit, step, form, call, server, card, faults>>

(* no-store: the answer is the server's, not one kept since the press.       *)
Kept(o) == "PENDING"  \* mutant
Current(o) == order[o].status

ReadOrder(r) ==
    /\ read[r].op = "read" /\ read[r].stage = "sent"
    /\ read' = [read EXCEPT ![r].stage = "read", ![r].got = Current(card.ord)]
    /\ UNCHANGED <<kind, keys, visit, step, form, call, server, card, faults>>

(* checkWithGateway, by the button or 6 s after the card has become PENDING; *)
(* one at a time.                                                           *)
CheckWithGateway ==
    /\ CardShown /\ card.shown # "PAID" /\ read["verify"].op = "none"
    /\ read' = [read EXCEPT !["verify"].op = "read"]
    /\ UNCHANGED <<kind, keys, visit, step, form, call, server, card, faults>>

(* VerifyOrder: a PENDING order that has been captured is settled.           *)
VerifyOrder ==
    LET o == card.ord
        settles == order[o].status = "PENDING" /\ order[o].captured IN
    /\ read["verify"].op = "read" /\ read["verify"].stage = "sent"
    /\ order' = IF settles THEN Settled(o) ELSE order
    /\ read' = [read EXCEPT !["verify"].stage = "read", !["verify"].got = order'[o].status]
    /\ UNCHANGED <<kind, keys, visit, step, form, call, card, faults>>

Land(r) ==
    /\ read[r].op = "read" /\ read[r].stage = "read"
    /\ card' = [card EXCEPT !.shown = read[r].got]
    /\ read' = [read EXCEPT ![r] = NoRead]
    /\ UNCHANGED <<kind, keys, visit, step, form, call, server, faults>>

ReadFails(r) ==
    /\ read[r].op = "read" /\ faults < MaxFaults
    /\ faults' = faults + 1
    /\ read' = [read EXCEPT ![r] = NoRead]
    /\ UNCHANGED <<kind, keys, visit, step, form, call, server, card>>

-----------------------------------------------------------------------------
Next ==
    \/ \E l \in Learners : ChooseLearner(l)
    \/ \E valid \in BOOLEAN : CouponAnswer(valid)
    \/ TypeCoupon \/ ApplyCoupon \/ Submit \/ Reopen
    \/ \E c \in Slots : \/ Replay(c) \/ CreateBooking(c) \/ RefuseBooking(c)
                        \/ InitiatePayment(c) \/ RefusePayment(c)
                        \/ Booked(c) \/ Linked(c) \/ Failed(c) \/ GiveUp(c) \/ Forget(c)
    \/ \E o \in Orders : Capture(o) \/ Webhook(o) \/ Expire(o)
    \/ \E r \in Polls : Tick(r) \/ ReadOrder(r)
    \/ CheckWithGateway \/ VerifyOrder
    \/ \E r \in Reads : Land(r) \/ ReadFails(r)

Spec == Init /\ [][Next]_vars

(* The interval ticks, reads are answered, and the answers land.             *)
Fairness == \A r \in Polls : WF_vars(Tick(r) \/ ReadOrder(r) \/ Land(r))
FairSpec == Spec /\ Fairness

-----------------------------------------------------------------------------
(* However often a checkout is sent, with answers lost, requests that go on  *)
(* behind its back and the learner changed in between, one opening of the    *)
(* page makes one order at most ("retrying never double-charges",            *)
(* CheckoutClient.tsx:291).                                                  *)
OneOrderPerVisit ==
    kind = "cohort" => \A o, p \in Orders : o # p => order[o].visit # order[p].visit

(* The card asks for the money of an order for the learner and with the      *)
(* coupon of the press that led to it, not of an earlier one.                *)
LinkMatchesPress ==
    step = "link" => /\ order[card.ord].who = card.who
                     /\ order[card.ord].coupon = card.coupon

(* A card that waits does not go on waiting for an order that is PAID,       *)
(* whatever older answers land after newer ones.                             *)
Waits == CardShown /\ card.shown = "PENDING" /\ order[card.ord].status = "PAID"
CardNoticesPayment == Waits ~> ~Waits

(* What the checkout says when a press is answered with a replay             *)
(* (CheckoutClient.tsx:113).  It does not hold.                              *)
SaysPaidWhenPaid ==
    told = "already paid" => \E o \in OfKey(keys) : order[o].status = "PAID"

-----------------------------------------------------------------------------
(* The inductive strengthening.                                             *)

(* The key of a checkout stands for the opening of the page it is made with, *)
(* and no two orders have a key in common.                                  *)
KeyIsVisit ==
    kind = "cohort" => keys = visit /\ \A o \in Orders : order[o].key = order[o].visit
OrdersOfKeysMade == \A o \in Orders : order[o].key \in 1..keys
OneOrderPerKey == \A o, p \in Orders : order[o].key = order[p].key => o = p

(* r is a request or the card.                                              *)
Matches(r) == r.ord \in Orders /\ order[r.ord].who = r.who /\ order[r.ord].coupon = r.coupon

(* A request has a key that was made, and a learner; once it is about an     *)
(* order, the order is its own.  One of the private form finds no order of  *)
(* its key, for each press has a new one.                                   *)
Fits(r) ==
    r.op # "none" =>
        /\ r.key \in 1..keys /\ r.visit \in 1..visit /\ r.who \in Learners
        /\ kind = "cohort" => r.key = r.visit
        /\ r.op = "pay" \/ r.stage = "made" => Matches(r)
        /\ kind = "private" /\ r.op = "create" =>
              /\ r.stage # "replayed"
              /\ r.stage \in {"sent", "new"} => OfKey(r.key) = {}

RequestsFit == \A c \in Slots : Fits(call[c])
PressesDiffer ==
    kind = "private" =>
        \A c, e \in Slots : /\ call[c].op = "create" /\ call[e].op = "create"
                            /\ call[c].key = call[e].key
                            => c = e

CardMatches ==
    /\ card.ord # NoOrder => Matches(card)
    /\ step = "link" => card.ord # NoOrder
    /\ \A r \in Reads : read[r].op = "read" => card.ord # NoOrder

PurchaseInv ==
    /\ PurchaseTypeOK
    /\ KeyIsVisit /\ OrdersOfKeysMade /\ OneOrderPerKey
    /\ RequestsFit /\ PressesDiffer
    /\ CardMatches
=============================================================================
