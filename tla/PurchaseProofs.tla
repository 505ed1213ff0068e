---------------------------- MODULE PurchaseProofs ----------------------------
(***************************************************************************)
(* A purchase in the web client, for any number of presses, lost answers,  *)
(* openings of the page and orders: one opening of a checkout makes one    *)
(* order at most, and the payment card asks for the money of the order     *)
(* that its press has led to.                                              *)
(***************************************************************************)
EXTENDS Purchase, TLAPS

-----------------------------------------------------------------------------
(* The orders are what they were, but for status, link and capture.         *)
OrdersKept ==
    /\ order' \in Seq(OrderRecords) /\ Len(order') <= MaxOrders /\ DOMAIN order' = DOMAIN order
    /\ \A o \in Orders : /\ order'[o].key = order[o].key /\ order'[o].visit = order[o].visit
                         /\ order'[o].who = order[o].who /\ order'[o].coupon = order[o].coupon

LEMMA Typed ==
    ASSUME PurchaseInv
    PROVE  /\ kind \in {"cohort", "private"} /\ keys \in 1..MaxKeys /\ visit \in 1..MaxVisits
           /\ call \in [Slots -> CallRecords] /\ order \in Seq(OrderRecords)
           /\ Len(order) \in Nat /\ Len(order) <= MaxOrders /\ Orders = 1..Len(order)
           /\ \A o \in Orders : order[o] \in OrderRecords
           /\ card \in CardRecords /\ read \in [Reads -> ReadRecords] /\ faults \in 0..MaxFaults
           /\ step \in Steps /\ told \in {"nothing", "failed", "already paid"}
           /\ learner \in Learners \union {NoOne}
           /\ promo \in [asked: BOOLEAN, applied: BOOLEAN]
           /\ \A c \in Slots : Fits(call[c])
           /\ CardMatches
<1>1. order \in Seq(OrderRecords) /\ Len(order) <= MaxOrders
  BY DEF PurchaseInv, PurchaseTypeOK
<1>2. Len(order) \in Nat /\ Orders = 1..Len(order) /\ \A o \in Orders : order[o] \in OrderRecords
  BY <1>1 DEF Orders
<1> QED
  BY <1>1, <1>2 DEF PurchaseInv, PurchaseTypeOK, RequestsFit

LEMMA SameOrders == ASSUME PurchaseInv, order' = order PROVE OrdersKept
  BY Typed DEF OrdersKept

LEMMA OneOrderChanged ==
    ASSUME PurchaseInv, NEW o \in Orders, NEW r \in OrderRecords,
           r.key = order[o].key, r.visit = order[o].visit, r.who = order[o].who,
           r.coupon = order[o].coupon, order' = [order EXCEPT ![o] = r]
    PROVE  OrdersKept /\ order'[o] = r
<1>1. /\ order \in Seq(OrderRecords) /\ Len(order) <= MaxOrders /\ Len(order) \in Nat
      /\ Orders = 1..Len(order) /\ \A p \in Orders : order[p] \in OrderRecords
  BY Typed
<1>2. /\ DOMAIN order' = DOMAIN order
      /\ \A p \in Orders : order'[p] = IF p = o THEN r ELSE order[p]
  BY <1>1 DEF Orders
<1>3. order' \in Seq(OrderRecords) /\ Len(order') = Len(order)
  BY <1>1
<1> QED
  BY <1>1, <1>2, <1>3 DEF OrdersKept

(* What is said of orders, requests and the card stays true.                *)
LEMMA KeptFacts ==
    ASSUME OrdersKept
    PROVE  /\ Orders' = Orders
           /\ \A r : Matches(r)' <=> Matches(r)
           /\ \A k : OfKey(k)' = OfKey(k)
<1>1. Orders' = Orders
  BY DEF OrdersKept, Orders
<1>2. \A r : Matches(r)' <=> Matches(r)
  BY <1>1 DEF OrdersKept, Matches
<1>3. \A k : OfKey(k)' = OfKey(k)
  BY <1>1 DEF OrdersKept, OfKey
<1> QED
  BY <1>1, <1>2, <1>3

LEMMA FitsStays ==
    ASSUME OrdersKept, kind' = kind, keys' = keys, visit' = visit, NEW r
    PROVE  Fits(r)' <=> Fits(r)
  BY KeptFacts DEF Fits

(* The form, the requests, the card and its reads move; no order, key or    *)
(* opening of the page is new.                                              *)
LEMMA PageMoves ==
    ASSUME PurchaseInv, kind' = kind, keys' = keys, visit' = visit, OrdersKept,
           step' \in Steps, told' \in {"nothing", "failed", "already paid"},
           learner' \in Learners \union {NoOne},
           promo' \in [asked: BOOLEAN, applied: BOOLEAN],
           card' \in CardRecords, read' \in [Reads -> ReadRecords], faults' \in 0..MaxFaults,
           CardMatches',
           call' \in [Slots -> CallRecords],
           \A c \in Slots :
              \/ call'[c] = call[c]
              \/ /\ Fits(call'[c])
                 /\ call'[c].op = "create" =>
                        call[c].op = "create" /\ call'[c].key = call[c].key
    PROVE  PurchaseInv'
<1>1. PurchaseTypeOK'
  BY DEF PurchaseInv, PurchaseTypeOK, OrdersKept
<1>2. KeyIsVisit' /\ OrdersOfKeysMade' /\ OneOrderPerKey'
  <2>1. Orders' = Orders /\ \A o \in Orders : /\ order'[o].key = order[o].key
                                              /\ order'[o].visit = order[o].visit
    BY KeptFacts DEF OrdersKept
  <2>2. KeyIsVisit'
    BY <2>1 DEF PurchaseInv, KeyIsVisit
  <2>3. OrdersOfKeysMade'
    BY <2>1 DEF PurchaseInv, OrdersOfKeysMade
  <2>4. OneOrderPerKey'
    <3> SUFFICES ASSUME NEW o \in Orders, NEW p \in Orders, order'[o].key = order'[p].key
                 PROVE  o = p
      BY <2>1 DEF OneOrderPerKey
    <3>1. order[o].key = order[p].key
      BY <2>1
    <3> QED BY <3>1 DEF PurchaseInv, OneOrderPerKey
  <2> QED BY <2>2, <2>3, <2>4
<1>3. RequestsFit'
  BY FitsStays, Typed DEF RequestsFit
<1>4. PressesDiffer'
  BY DEF PurchaseInv, PressesDiffer
<1> QED
  BY <1>1, <1>2, <1>3, <1>4 DEF PurchaseInv

(* The card stays, and nothing is read without one.                         *)
LEMMA CardStays ==
    ASSUME PurchaseInv, OrdersKept, card'.ord = card.ord, card'.who = card.who,
           card'.coupon = card.coupon,
           step' = "link" => card.ord # NoOrder,
           \A r \in Reads : read'[r].op = "read" => read[r].op = "read" \/ card.ord # NoOrder
    PROVE  CardMatches'
<1>1. CardMatches
  BY Typed
<1>2. card'.ord # NoOrder => Matches(card)'
  BY <1>1, KeptFacts DEF CardMatches, Matches
<1> QED
  BY <1>1, <1>2 DEF CardMatches

-----------------------------------------------------------------------------
(* The form.                                                                *)

(* Only the form moves.                                                     *)
LEMMA FormMoves ==
    ASSUME PurchaseInv, UNCHANGED <<kind, keys, visit, step, told, call, order, card, read, faults>>,
           learner' \in Learners \union {NoOne},
           promo' \in [asked: BOOLEAN, applied: BOOLEAN]
    PROVE  PurchaseInv'
<1>1. OrdersKept
  BY SameOrders
<1>2. CardMatches'
  BY <1>1, Typed, CardStays DEF CardMatches
<1> QED
  BY <1>1, <1>2, Typed, PageMoves

LEMMA FormKeeps ==
    ASSUME PurchaseInv, \/ \E l \in Learners : ChooseLearner(l)
                        \/ \E valid \in BOOLEAN : CouponAnswer(valid)
                        \/ TypeCoupon \/ ApplyCoupon
    PROVE  PurchaseInv'
<1>1. promo \in [asked: BOOLEAN, applied: BOOLEAN] /\ learner \in Learners \union {NoOne}
  BY Typed
<1>2. UNCHANGED <<kind, keys, visit, step, told, call, order, card, read, faults>>
  BY DEF ChooseLearner, CouponAnswer, TypeCoupon, ApplyCoupon, server
<1>3. learner' \in Learners \union {NoOne}
  BY <1>1 DEF ChooseLearner, CouponAnswer, TypeCoupon, ApplyCoupon
<1>4. promo' \in [asked: BOOLEAN, applied: BOOLEAN]
  BY <1>1 DEF ChooseLearner, CouponAnswer, TypeCoupon, ApplyCoupon
<1> QED
  BY <1>2, <1>3, <1>4, FormMoves

-----------------------------------------------------------------------------
(* Requests.                                                                *)

(* One request moves, with what the page shows of it; the card may stay.    *)
LEMMA RequestMoves ==
    ASSUME PurchaseInv, UNCHANGED <<kind, keys, visit, learner, promo, order, card, read>>,
           NEW c \in Slots, NEW r \in CallRecords, call' = [call EXCEPT ![c] = r], Fits(r),
           r.op = "create" => call[c].op = "create" /\ r.key = call[c].key,
           step' \in Steps, step' = step \/ step' # "link",
           told' \in {"nothing", "failed", "already paid"}, faults' \in 0..MaxFaults
    PROVE  PurchaseInv'
<1>1. OrdersKept
  BY SameOrders
<1>2. CardMatches'
  BY <1>1, Typed, CardStays DEF CardMatches
<1>3. call' \in [Slots -> CallRecords] /\ \A e \in Slots : call'[e] = IF e = c THEN r ELSE call[e]
  BY Typed
<1>4. \A e \in Slots :
          \/ call'[e] = call[e]
          \/ /\ Fits(call'[e])
             /\ call'[e].op = "create" => call[e].op = "create" /\ call'[e].key = call[e].key
  BY <1>3
<1> QED
  BY <1>1, <1>2, <1>3, <1>4, Typed, PageMoves

LEMMA NoCallFits == NoCall \in CallRecords /\ Fits(NoCall) /\ NoCall.op = "none"
<1>1. 0 \in 0..MaxKeys /\ 0 \in 0..MaxVisits
  BY BoundAssumption
<1>2. NoCall \in CallRecords
  BY <1>1 DEF NoCall, CallRecords
<1> QED
  BY <1>2 DEF NoCall, Fits

(* A request that goes on to another stage, its order found.                *)
LEMMA StageTyped ==
    ASSUME PurchaseInv, NEW c \in Slots,
           NEW stage \in {"new", "made", "replayed", "refused"},
           NEW o \in OrderIds \union {NoOrder}
    PROVE  \E r \in CallRecords :
              /\ r = [call[c] EXCEPT !.stage = stage, !.ord = o]
              /\ r.stage = stage /\ r.ord = o /\ r.op = call[c].op /\ r.key = call[c].key
              /\ r.visit = call[c].visit /\ r.who = call[c].who /\ r.coupon = call[c].coupon
              /\ r.heard = call[c].heard
<1>1. call[c] \in CallRecords
  BY Typed
<1>2. [call[c] EXCEPT !.stage = stage, !.ord = o] \in CallRecords
  BY <1>1 DEF CallRecords
<1> QED
  BY <1>1, <1>2 DEF CallRecords

LEMMA StageOnlyTyped ==
    ASSUME PurchaseInv, NEW c \in Slots, NEW stage \in {"new", "made", "replayed", "refused"}
    PROVE  \E r \in CallRecords :
              /\ r = [call[c] EXCEPT !.stage = stage]
              /\ r.stage = stage /\ r.ord = call[c].ord /\ r.op = call[c].op
              /\ r.key = call[c].key /\ r.visit = call[c].visit
              /\ r.who = call[c].who /\ r.coupon = call[c].coupon /\ r.heard = call[c].heard
<1>1. call[c] \in CallRecords
  BY Typed
<1>2. [call[c] EXCEPT !.stage = stage] \in CallRecords
  BY <1>1 DEF CallRecords
<1> QED
  BY <1>1, <1>2 DEF CallRecords

LEMMA ReplayKeeps == ASSUME PurchaseInv, NEW c \in Slots, Replay(c) PROVE PurchaseInv'
<1>1. /\ call[c].op = "create" /\ call[c].stage = "sent" /\ Fits(call[c])
      /\ UNCHANGED <<kind, keys, visit, step, told, learner, promo, order, card, read, faults>>
  BY Typed DEF Replay, form, server
<1>2. CASE OfKey(call[c].key) = {}
  <2>1. PICK r \in CallRecords :
            /\ r = [call[c] EXCEPT !.stage = "new"]
            /\ r.stage = "new" /\ r.ord = call[c].ord /\ r.op = call[c].op
            /\ r.key = call[c].key /\ r.visit = call[c].visit
            /\ r.who = call[c].who /\ r.coupon = call[c].coupon /\ r.heard = call[c].heard
    BY StageOnlyTyped
  <2>2. call' = [call EXCEPT ![c] = r]
    BY <1>2, <2>1, Typed DEF Replay
  <2>3. Fits(r)
    BY <1>1, <1>2, <2>1 DEF Fits
  <2> QED BY <1>1, <2>1, <2>2, <2>3, Typed, RequestMoves
<1>3. CASE OfKey(call[c].key) # {}
  <2>1. PICK o \in OfKey(call[c].key) :
            call' = [call EXCEPT ![c].stage = "replayed", ![c].ord = o]
    BY <1>3 DEF Replay
  <2>2. o \in OrderIds
    <3>1. o \in Orders
      BY DEF OfKey
    <3>2. o \in 1..Len(order) /\ Len(order) \in Nat /\ Len(order) <= MaxOrders
      BY <3>1, Typed
    <3> QED BY <3>2, BoundAssumption DEF OrderIds
  <2>3. PICK r \in CallRecords :
            /\ r = [call[c] EXCEPT !.stage = "replayed", !.ord = o]
            /\ r.stage = "replayed" /\ r.ord = o /\ r.op = call[c].op /\ r.key = call[c].key
            /\ r.visit = call[c].visit /\ r.who = call[c].who /\ r.coupon = call[c].coupon
            /\ r.heard = call[c].heard
    <3>1. \A x \in OrderIds \union {NoOrder} : \E r \in CallRecords :
              /\ r = [call[c] EXCEPT !.stage = "replayed", !.ord = x]
              /\ r.stage = "replayed" /\ r.ord = x /\ r.op = call[c].op /\ r.key = call[c].key
              /\ r.visit = call[c].visit /\ r.who = call[c].who /\ r.coupon = call[c].coupon
              /\ r.heard = call[c].heard
      BY StageTyped
    <3> QED BY <2>2, <3>1
  <2>4. call' = [call EXCEPT ![c] = r]
    BY <2>1, <2>3, Typed
  <2>5. kind # "private"
    BY <1>1, <1>3 DEF Fits
  <2>6. Fits(r)
    BY <1>1, <2>3, <2>5 DEF Fits
  <2> QED BY <1>1, <2>3, <2>4, <2>6, Typed, RequestMoves
<1> QED
  BY <1>2, <1>3

LEMMA RefuseKeeps ==
    ASSUME PurchaseInv, NEW c \in Slots, RefuseBooking(c) \/ RefusePayment(c)
    PROVE  PurchaseInv'
<1>1. /\ Fits(call[c]) /\ call' = [call EXCEPT ![c].stage = "refused"]
      /\ UNCHANGED <<kind, keys, visit, step, told, learner, promo, order, card, read, faults>>
  BY Typed DEF RefuseBooking, RefusePayment, form, server
<1>2. PICK r \in CallRecords :
          /\ r = [call[c] EXCEPT !.stage = "refused"]
          /\ r.stage = "refused" /\ r.ord = call[c].ord /\ r.op = call[c].op
          /\ r.key = call[c].key /\ r.visit = call[c].visit
          /\ r.who = call[c].who /\ r.coupon = call[c].coupon /\ r.heard = call[c].heard
  BY StageOnlyTyped
<1>3. call' = [call EXCEPT ![c] = r]
  BY <1>1, <1>2, Typed
<1>4. Fits(r)
  BY <1>1, <1>2 DEF Fits, Matches
<1> QED
  BY <1>1, <1>2, <1>3, <1>4, Typed, RequestMoves

LEMMA InitiateKeeps == ASSUME PurchaseInv, NEW c \in Slots, InitiatePayment(c) PROVE PurchaseInv'
<1>1. /\ Fits(call[c]) /\ call[c].op = "pay" /\ call' = [call EXCEPT ![c].stage = "made"]
      /\ UNCHANGED <<kind, keys, visit, step, told, learner, promo, order, card, read, faults>>
  BY Typed DEF InitiatePayment, form, server
<1>2. PICK r \in CallRecords :
          /\ r = [call[c] EXCEPT !.stage = "made"]
          /\ r.stage = "made" /\ r.ord = call[c].ord /\ r.op = call[c].op
          /\ r.key = call[c].key /\ r.visit = call[c].visit
          /\ r.who = call[c].who /\ r.coupon = call[c].coupon /\ r.heard = call[c].heard
  BY StageOnlyTyped
<1>3. call' = [call EXCEPT ![c] = r]
  BY <1>1, <1>2, Typed
<1>4. Fits(r)
  BY <1>1, <1>2 DEF Fits, Matches
<1> QED
  BY <1>1, <1>2, <1>3, <1>4, Typed, RequestMoves

LEMMA BookedKeeps == ASSUME PurchaseInv, NEW c \in Slots, Booked(c) PROVE PurchaseInv'
<1>1. /\ Fits(call[c]) /\ call[c].op = "create" /\ call[c].stage \in {"made", "replayed"}
      /\ call[c] \in CallRecords
      /\ UNCHANGED <<kind, keys, visit, learner, promo, order, card, read, faults>>
  BY Typed DEF Booked, server
<1>2. CASE PaymentRequired(c) \/ kind = "private"
  <2>1. /\ step' = "initiating" /\ told' = told
        /\ call' = [call EXCEPT ![c] = [call[c] EXCEPT !.op = "pay", !.stage = "sent"]]
    BY <1>2, Typed DEF Booked
  <2>2. PICK r \in CallRecords :
            /\ r = [call[c] EXCEPT !.op = "pay", !.stage = "sent"]
            /\ r.stage = "sent" /\ r.ord = call[c].ord /\ r.op = "pay"
            /\ r.key = call[c].key /\ r.visit = call[c].visit
            /\ r.who = call[c].who /\ r.coupon = call[c].coupon
    <3>1. [call[c] EXCEPT !.op = "pay", !.stage = "sent"] \in CallRecords
      BY <1>1 DEF CallRecords
    <3> QED BY <1>1, <3>1 DEF CallRecords
  <2>3. call[c].stage = "made"
    BY <1>1, <1>2 DEF Fits, PaymentRequired
  <2>4. Fits(r)
    BY <1>1, <2>2, <2>3 DEF Fits, Matches
  <2> QED BY <1>1, <2>1, <2>2, <2>4, Typed, RequestMoves DEF Steps
<1>3. CASE ~(PaymentRequired(c) \/ kind = "private")
  <2>1. step' = "form" /\ told' = "already paid" /\ call' = [call EXCEPT ![c] = NoCall]
    BY <1>3 DEF Booked, Unheard
  <2> QED BY <1>1, <2>1, NoCallFits, Typed, RequestMoves DEF Steps
<1> QED
  BY <1>2, <1>3

LEMMA EndsKeep ==
    ASSUME PurchaseInv, NEW c \in Slots, Failed(c) \/ Forget(c)
    PROVE  PurchaseInv'
<1>1. /\ UNCHANGED <<kind, keys, visit, learner, promo, order, card, read, faults>>
      /\ call' = [call EXCEPT ![c] = NoCall]
      /\ step' \in {step, "form"} /\ told' \in {told, "failed"}
  BY DEF Failed, Forget, Unheard, form, server
<1>2. step' \in Steps /\ (step' = step \/ step' # "link")
  BY <1>1, Typed DEF Steps
<1> QED
  BY <1>1, <1>2, NoCallFits, Typed, RequestMoves

LEMMA GiveUpKeeps == ASSUME PurchaseInv, NEW c \in Slots, GiveUp(c) PROVE PurchaseInv'
<1>1. /\ UNCHANGED <<kind, keys, visit, learner, promo, order, card, read>>
      /\ step' = "form" /\ told' = "failed" /\ call' = [call EXCEPT ![c].heard = FALSE]
      /\ faults < MaxFaults /\ faults' = faults + 1
  BY DEF GiveUp, server
<1>2. faults' \in 0..MaxFaults /\ call[c] \in CallRecords /\ Fits(call[c])
  <2>1. faults \in 0..MaxFaults /\ call[c] \in CallRecords /\ Fits(call[c])
    BY Typed
  <2> QED BY <1>1, <2>1, BoundAssumption
<1>3. PICK r \in CallRecords :
          /\ call' = [call EXCEPT ![c] = r]
          /\ r.stage = call[c].stage /\ r.ord = call[c].ord /\ r.op = call[c].op
          /\ r.key = call[c].key /\ r.visit = call[c].visit
          /\ r.who = call[c].who /\ r.coupon = call[c].coupon
  <2>1. [call[c] EXCEPT !.heard = FALSE] \in CallRecords
    BY <1>2 DEF CallRecords
  <2>2. call' = [call EXCEPT ![c] = [call[c] EXCEPT !.heard = FALSE]]
    BY <1>1, Typed
  <2> QED BY <1>2, <2>1, <2>2 DEF CallRecords
<1>4. Fits(r)
  BY <1>2, <1>3 DEF Fits, Matches
<1> QED
  BY <1>1, <1>2, <1>3, <1>4, Typed, RequestMoves DEF Steps

-----------------------------------------------------------------------------
(* Orders: one is made, one is linked, paid or expired.                     *)

LEMMA CreateKeeps == ASSUME PurchaseInv, NEW c \in Slots, CreateBooking(c) PROVE PurchaseInv'
<1>1. /\ call[c].op = "create" /\ call[c].stage = "new" /\ call[c] \in CallRecords
      /\ Fits(call[c]) /\ OfKey(call[c].key) = {} /\ Len(order) < MaxOrders
      /\ UNCHANGED <<kind, keys, visit, step, told, learner, promo, card, read, faults>>
  BY Typed DEF CreateBooking, Bookable, form
<1>2. /\ order \in Seq(OrderRecords) /\ Len(order) \in Nat /\ Orders = 1..Len(order)
      /\ keys \in 1..MaxKeys /\ visit \in 1..MaxVisits
  BY Typed
<1>3. PICK n \in OrderRecords :
          /\ order' = Append(order, n)
          /\ n.key = call[c].key /\ n.visit = call[c].visit /\ n.who = call[c].who
          /\ n.coupon = call[c].coupon
  <2> DEFINE n == [status |-> "PENDING", key |-> call[c].key, visit |-> call[c].visit,
                   who |-> call[c].who, coupon |-> call[c].coupon,
                   link |-> FALSE, captured |-> FALSE]
  <2>1. call[c].key \in 1..MaxKeys /\ call[c].visit \in 1..MaxVisits /\ call[c].who \in Learners
    BY <1>1, <1>2, BoundAssumption DEF Fits
  <2>2. n \in OrderRecords
    BY <1>1, <2>1 DEF OrderRecords, Status, CallRecords
  <2>3. order' = Append(order, n)
    BY DEF CreateBooking
  <2> QED BY <2>2, <2>3
<1>4. PICK o \in Nat : o = Len(order) + 1 /\ o \in OrderIds
  BY <1>1, <1>2, BoundAssumption DEF OrderIds
<1>5. /\ order' \in Seq(OrderRecords) /\ Len(order') = o /\ Orders' = Orders \union {o}
      /\ order'[o] = n /\ o \notin Orders /\ \A p \in Orders : order'[p] = order[p]
  <2>1. order' \in Seq(OrderRecords) /\ Len(order') = o
    BY <1>2, <1>3, <1>4
  <2>2. order'[o] = n /\ \A p \in 1..Len(order) : order'[p] = order[p]
    BY <1>2, <1>3, <1>4
  <2>3. Orders' = 1..o
    BY <2>1 DEF Orders
  <2> QED BY <1>2, <1>4, <2>1, <2>2, <2>3
<1>6. PICK r \in CallRecords :
          /\ call' = [call EXCEPT ![c] = r]
          /\ r.stage = "made" /\ r.ord = o /\ r.op = "create" /\ r.key = call[c].key
          /\ r.visit = call[c].visit /\ r.who = call[c].who /\ r.coupon = call[c].coupon
  <2>1. PICK x \in OrderIds \union {NoOrder} : x = o
    BY <1>4
  <2>2. PICK r \in CallRecords :
            /\ r = [call[c] EXCEPT !.stage = "made", !.ord = x]
            /\ r.stage = "made" /\ r.ord = x /\ r.op = call[c].op /\ r.key = call[c].key
            /\ r.visit = call[c].visit /\ r.who = call[c].who /\ r.coupon = call[c].coupon
    <3>1. [call[c] EXCEPT !.stage = "made", !.ord = x] \in CallRecords
      BY <1>1 DEF CallRecords
    <3> QED BY <1>1, <3>1 DEF CallRecords
  <2>3. call' = [call EXCEPT ![c] = r]
    BY <1>4, <2>1, <2>2, Typed DEF CreateBooking
  <2> QED BY <1>1, <2>1, <2>2, <2>3
<1>7. call' \in [Slots -> CallRecords] /\ \A e \in Slots : call'[e] = IF e = c THEN r ELSE call[e]
  BY <1>6, Typed
<1>8. \A x : Matches(x) => Matches(x)'
  BY <1>5 DEF Matches
<1>9. \A k : k # call[c].key => OfKey(k)' = OfKey(k)
  BY <1>3, <1>5 DEF OfKey
<1>10. PurchaseTypeOK'
  <2>1. Len(order') <= MaxOrders
    BY <1>4, <1>5, BoundAssumption DEF OrderIds
  <2> QED BY <1>1, <1>5, <1>7, <2>1 DEF PurchaseInv, PurchaseTypeOK
<1>11. KeyIsVisit'
  BY <1>1, <1>3, <1>5 DEF PurchaseInv, KeyIsVisit, Fits
<1>12. OrdersOfKeysMade'
  BY <1>1, <1>3, <1>5 DEF PurchaseInv, OrdersOfKeysMade, Fits
<1>13. OneOrderPerKey'
  <2>1. \A p \in Orders : order[p].key # call[c].key
    BY <1>1 DEF OfKey
  <2> SUFFICES ASSUME NEW p \in Orders', NEW q \in Orders', order'[p].key = order'[q].key
               PROVE  p = q
    BY DEF OneOrderPerKey
  <2>2. /\ OneOrderPerKey /\ o \notin Orders /\ Orders' = Orders \union {o}
        /\ order'[o].key = call[c].key /\ \A x \in Orders : order'[x] = order[x]
    BY <1>3, <1>5 DEF PurchaseInv
  <2>3. CASE p = o \/ q = o BY <2>1, <2>2, <2>3
  <2>4. CASE p \in Orders /\ q \in Orders BY <2>2, <2>4 DEF OneOrderPerKey
  <2> QED BY <2>2, <2>3, <2>4
<1>14. RequestsFit'
  <2> SUFFICES ASSUME NEW e \in Slots, NEW x, x = call'[e] PROVE Fits(x)'
    BY DEF RequestsFit
  <2>1. CASE e = c
    <3>1. x = r
      BY <1>7, <2>1
    <3>2. Matches(r)'
      BY <1>3, <1>5, <1>6 DEF Matches
    <3>3. Fits(r)'
      BY <1>1, <1>6, <3>2 DEF Fits
    <3> QED BY <3>1, <3>3
  <2>2. CASE e # c
    <3>1. x = call[e] /\ Fits(x)
      BY <1>7, <2>2, Typed
    <3>2. kind = "private" /\ x.op = "create" => x.key # call[c].key
      BY <1>1, <2>2, <3>1 DEF PurchaseInv, PressesDiffer
    <3> QED BY <1>1, <1>8, <1>9, <3>1, <3>2 DEF Fits
  <2> QED BY <2>1, <2>2
<1>15. PressesDiffer'
  BY <1>1, <1>6, <1>7 DEF PurchaseInv, PressesDiffer
<1>16. CardMatches'
  BY <1>1, <1>8, Typed DEF CardMatches
<1> QED
  BY <1>10, <1>11, <1>12, <1>13, <1>14, <1>15, <1>16 DEF PurchaseInv

(* A change of status, link or capture.                                     *)
LEMMA StatusSet ==
    ASSUME PurchaseInv, NEW o \in Orders, NEW s \in Status, order' = [order EXCEPT ![o].status = s]
    PROVE  OrdersKept /\ order'[o].status = s
<1>1. order[o] \in OrderRecords
  BY Typed
<1>2. PICK r \in OrderRecords :
          /\ order' = [order EXCEPT ![o] = r] /\ r.key = order[o].key
          /\ r.visit = order[o].visit /\ r.who = order[o].who /\ r.coupon = order[o].coupon
          /\ r.status = s
  <2>1. [order[o] EXCEPT !.status = s] \in OrderRecords
    BY <1>1 DEF OrderRecords
  <2>2. order' = [order EXCEPT ![o] = [order[o] EXCEPT !.status = s]]
    BY Typed
  <2> QED BY <1>1, <2>1, <2>2 DEF OrderRecords
<1> QED
  BY <1>2, OneOrderChanged

LEMMA FlagSet ==
    ASSUME PurchaseInv, NEW o \in Orders,
           \/ order' = [order EXCEPT ![o].captured = TRUE]
           \/ order' = [order EXCEPT ![o].link = TRUE]
    PROVE  OrdersKept
<1>1. order[o] \in OrderRecords
  BY Typed
<1>2. PICK r \in OrderRecords :
          /\ order' = [order EXCEPT ![o] = r] /\ r.key = order[o].key
          /\ r.visit = order[o].visit /\ r.who = order[o].who /\ r.coupon = order[o].coupon
  <2>1. CASE order' = [order EXCEPT ![o].captured = TRUE]
    <3>1. [order[o] EXCEPT !.captured = TRUE] \in OrderRecords
      BY <1>1 DEF OrderRecords
    <3>2. order' = [order EXCEPT ![o] = [order[o] EXCEPT !.captured = TRUE]]
      BY <2>1, Typed
    <3> QED BY <1>1, <3>1, <3>2 DEF OrderRecords
  <2>2. CASE order' = [order EXCEPT ![o].link = TRUE]
    <3>1. [order[o] EXCEPT !.link = TRUE] \in OrderRecords
      BY <1>1 DEF OrderRecords
    <3>2. order' = [order EXCEPT ![o] = [order[o] EXCEPT !.link = TRUE]]
      BY <2>2, Typed
    <3> QED BY <1>1, <3>1, <3>2 DEF OrderRecords
  <2> QED BY <2>1, <2>2
<1> QED
  BY <1>2, OneOrderChanged

(* Only the orders, the card and its reads move.                            *)
LEMMA CardMoves ==
    ASSUME PurchaseInv, UNCHANGED <<kind, keys, visit, step, told, learner, promo, call>>,
           OrdersKept, card' \in CardRecords, read' \in [Reads -> ReadRecords],
           faults' \in 0..MaxFaults,
           card'.ord = card.ord, card'.who = card.who, card'.coupon = card.coupon,
           \A r \in Reads : read'[r].op = "read" => read[r].op = "read" \/ card.ord # NoOrder
    PROVE  PurchaseInv'
<1>1. CardMatches'
  BY Typed, CardStays DEF CardMatches
<1> QED
  BY <1>1, Typed, PageMoves

LEMMA OrderKeeps ==
    ASSUME PurchaseInv, NEW o \in Orders, Capture(o) \/ Webhook(o) \/ Expire(o)
    PROVE  PurchaseInv'
<1>1. UNCHANGED <<kind, keys, visit, step, told, learner, promo, call, card, read, faults>>
  BY DEF Capture, Webhook, Expire, form
<1>2. \/ order' = [order EXCEPT ![o].captured = TRUE]
      \/ \E s \in Status : order' = [order EXCEPT ![o].status = s]
  BY DEF Capture, Webhook, Expire, Settled, Status
<1>3. OrdersKept
  BY <1>2, StatusSet, FlagSet
<1> QED
  BY <1>1, <1>3, Typed, CardMoves

LEMMA LinkedKeeps == ASSUME PurchaseInv, NEW c \in Slots, Linked(c) PROVE PurchaseInv'
<1>1. /\ call[c].op = "pay" /\ Fits(call[c]) /\ call[c] \in CallRecords
      /\ step' = "link" /\ told' = "nothing" /\ learner' = NoOne /\ promo' = NoPromo
      /\ card' = [NoCard EXCEPT !.ord = call[c].ord, !.who = call[c].who, !.coupon = call[c].coupon]
      /\ order' = [order EXCEPT ![call[c].ord].link = TRUE]
      /\ call' = [call EXCEPT ![c] = NoCall]
      /\ UNCHANGED <<kind, keys, visit, read, faults>>
  BY Typed DEF Linked, Unheard
<1>2. PICK o \in Orders : /\ o = call[c].ord /\ order[o].who = call[c].who
                          /\ order[o].coupon = call[c].coupon
  BY <1>1 DEF Fits, Matches
<1>3. OrdersKept
  BY <1>1, <1>2, FlagSet
<1>4. o # NoOrder /\ o \in OrderIds
  <2>1. o \in 1..Len(order) /\ Len(order) \in Nat /\ Len(order) <= MaxOrders
    BY Typed
  <2> QED BY <2>1, NilAssumption, BoundAssumption DEF OrderIds
<1>5. /\ card' \in CardRecords /\ card'.ord = o /\ card'.who = call[c].who
      /\ card'.coupon = call[c].coupon
  BY <1>1, <1>2, <1>4 DEF NoCard, CardRecords, CallRecords, Status
<1>6. CardMatches'
  BY <1>2, <1>3, <1>4, <1>5 DEF CardMatches, Matches, OrdersKept, Orders
<1>7. /\ call' \in [Slots -> CallRecords]
      /\ \A e \in Slots : call'[e] = IF e = c THEN NoCall ELSE call[e]
  BY <1>1, NoCallFits, Typed
<1>8. \A e \in Slots :
          \/ call'[e] = call[e]
          \/ /\ Fits(call'[e])
             /\ call'[e].op = "create" => call[e].op = "create" /\ call'[e].key = call[e].key
  <2>1. Fits(NoCall) /\ NoCall.op # "create"
    BY NoCallFits
  <2> QED BY <1>7, <2>1
<1>9. /\ step' \in Steps /\ told' \in {"nothing", "failed", "already paid"}
      /\ learner' \in Learners \union {NoOne} /\ promo' \in [asked: BOOLEAN, applied: BOOLEAN]
  BY <1>1 DEF Steps, NoPromo
<1> QED
  BY <1>1, <1>3, <1>5, <1>6, <1>7, <1>8, <1>9, Typed, PageMoves

-----------------------------------------------------------------------------
(* The payment card.                                                        *)

LEMMA ReadMoves ==
    ASSUME PurchaseInv, UNCHANGED <<kind, keys, visit, step, told, learner, promo, call, card>>,
           OrdersKept, faults' \in 0..MaxFaults, NEW r \in Reads, NEW n \in ReadRecords,
           read' = [read EXCEPT ![r] = n],
           n.op = "read" => read[r].op = "read" \/ card.ord # NoOrder
    PROVE  PurchaseInv'
<1>1. /\ read' \in [Reads -> ReadRecords]
      /\ \A e \in Reads : read'[e] = IF e = r THEN n ELSE read[e]
  BY Typed
<1>2. \A e \in Reads : read'[e].op = "read" => read[e].op = "read" \/ card.ord # NoOrder
  BY <1>1
<1> QED
  BY <1>1, <1>2, Typed, CardMoves

LEMMA NoReadTyped == NoRead \in ReadRecords /\ NoRead.op = "none"
  BY DEF NoRead, ReadRecords, Status

LEMMA AskKeeps ==
    ASSUME PurchaseInv, CheckWithGateway \/ \E r \in Polls : Tick(r)
    PROVE  PurchaseInv'
<1>1. PICK r \in Reads : read' = [read EXCEPT ![r].op = "read"]
  BY DEF CheckWithGateway, Tick, Reads
<1>2. /\ UNCHANGED <<kind, keys, visit, step, told, learner, promo, call, card, order, faults>>
      /\ step = "link"
  BY DEF CheckWithGateway, Tick, CardShown, form, server
<1>3. card.ord # NoOrder
  BY <1>2, Typed DEF CardMatches
<1>4. read[r] \in ReadRecords
  BY Typed
<1>5. PICK n \in ReadRecords : read' = [read EXCEPT ![r] = n]
  <2>1. [read[r] EXCEPT !.op = "read"] \in ReadRecords
    BY <1>4 DEF ReadRecords
  <2>2. read' = [read EXCEPT ![r] = [read[r] EXCEPT !.op = "read"]]
    BY <1>1, Typed
  <2> QED BY <2>1, <2>2
<1> QED
  BY <1>2, <1>3, <1>5, SameOrders, Typed, ReadMoves

(* A read that is answered with the status of the card's order.             *)
LEMMA AnsweredKeeps ==
    ASSUME PurchaseInv, UNCHANGED <<kind, keys, visit, step, told, learner, promo, call, card, faults>>,
           OrdersKept, NEW r \in Reads, NEW s \in Status, read[r].op = "read",
           read' = [read EXCEPT ![r].stage = "read", ![r].got = s]
    PROVE  PurchaseInv'
<1>1. read[r] \in ReadRecords
  BY Typed
<1>2. PICK n \in ReadRecords : read' = [read EXCEPT ![r] = n]
  <2>1. [read[r] EXCEPT !.stage = "read", !.got = s] \in ReadRecords
    BY <1>1 DEF ReadRecords
  <2>2. read' = [read EXCEPT ![r] = [read[r] EXCEPT !.stage = "read", !.got = s]]
    BY Typed
  <2> QED BY <2>1, <2>2
<1> QED
  BY <1>2, Typed, ReadMoves

LEMMA CardHasOrder ==
    ASSUME PurchaseInv, NEW r \in Reads, read[r].op = "read"
    PROVE  card.ord \in Orders /\ order[card.ord].status \in Status
<1>1. card.ord \in Orders
  BY Typed DEF CardMatches, Matches
<1> QED
  BY <1>1, Typed DEF OrderRecords

LEMMA ReadOrderKeeps == ASSUME PurchaseInv, NEW r \in Polls, ReadOrder(r) PROVE PurchaseInv'
<1>1. /\ UNCHANGED <<kind, keys, visit, step, told, learner, promo, call, card, order, faults>>
      /\ r \in Reads /\ read[r].op = "read"
      /\ read' = [read EXCEPT ![r].stage = "read", ![r].got = order[card.ord].status]
  BY DEF ReadOrder, form, server, Current, Reads
<1>2. order[card.ord].status \in Status
  BY <1>1, CardHasOrder
<1> QED
  BY <1>1, <1>2, SameOrders, AnsweredKeeps

LEMMA VerifyKeeps == ASSUME PurchaseInv, VerifyOrder PROVE PurchaseInv'
<1>1. /\ UNCHANGED <<kind, keys, visit, step, told, learner, promo, call, card, faults>>
      /\ "verify" \in Reads /\ read["verify"].op = "read"
      /\ read' = [read EXCEPT !["verify"].stage = "read", !["verify"].got = order'[card.ord].status]
  BY DEF VerifyOrder, form, Reads
<1>2. PICK o \in Orders : o = card.ord /\ order[o].status \in Status
  BY <1>1, CardHasOrder
<1>3. order' = order \/ order' = [order EXCEPT ![o].status = "PAID"]
  BY <1>2 DEF VerifyOrder, Settled
<1>4. OrdersKept /\ order'[o].status \in Status
  <2>1. CASE order' = order
    BY <1>2, <2>1, SameOrders
  <2>2. CASE order' = [order EXCEPT ![o].status = "PAID"]
    BY <2>2, StatusSet DEF Status
  <2> QED BY <1>3, <2>1, <2>2
<1>5. PICK s \in Status : s = order'[card.ord].status
  BY <1>2, <1>4
<1> QED
  BY <1>1, <1>4, <1>5, AnsweredKeeps

LEMMA LandKeeps ==
    ASSUME PurchaseInv, NEW r \in Reads, Land(r) \/ ReadFails(r)
    PROVE  PurchaseInv'
<1>1. /\ UNCHANGED <<kind, keys, visit, step, told, learner, promo, call, order>>
      /\ read' = [read EXCEPT ![r] = NoRead]
      /\ \/ faults' = faults /\ card' = [card EXCEPT !.shown = read[r].got]
         \/ faults < MaxFaults /\ faults' = faults + 1 /\ card' = card
  BY DEF Land, ReadFails, form, server
<1>2. faults \in 0..MaxFaults /\ card \in CardRecords /\ read[r] \in ReadRecords
  BY Typed
<1>3. faults' \in 0..MaxFaults
  BY <1>1, <1>2, BoundAssumption
<1>4. /\ card' \in CardRecords /\ card'.ord = card.ord /\ card'.who = card.who
      /\ card'.coupon = card.coupon
  <2>1. CASE card' = card
    BY <1>2, <2>1
  <2>2. CASE card' = [card EXCEPT !.shown = read[r].got]
    BY <1>2, <2>2 DEF CardRecords, ReadRecords
  <2> QED BY <1>1, <2>1, <2>2
<1>5. /\ read' \in [Reads -> ReadRecords]
      /\ \A e \in Reads : read'[e].op = "read" => read[e].op = "read"
  BY <1>1, NoReadTyped, Typed
<1> QED
  BY <1>1, <1>3, <1>4, <1>5, SameOrders, CardMoves

-----------------------------------------------------------------------------
(* New keys: a press, and the page opened anew.                             *)

(* What was made with an earlier key still fits.                            *)
LEMMA LaterKeys ==
    ASSUME PurchaseInv, kind' = kind, order' = order, keys' \in Nat, visit' \in Nat,
           keys <= keys', visit <= visit'
    PROVE  /\ \A r : Fits(r) => Fits(r)'
           /\ OrdersOfKeysMade' /\ OneOrderPerKey'
<1>1. keys \in Nat /\ visit \in Nat /\ OrdersKept
  <2>1. keys \in 1..MaxKeys /\ visit \in 1..MaxVisits /\ OrdersKept
    BY Typed, SameOrders
  <2> QED BY <2>1, BoundAssumption
<1>2. \A r : Matches(r)' <=> Matches(r)
  BY <1>1, KeptFacts
<1>3. \A k : OfKey(k)' = OfKey(k)
  BY <1>1, KeptFacts
<1>4. \A r : Fits(r) => Fits(r)'
  BY <1>1, <1>2, <1>3 DEF Fits
<1>5. Orders' = Orders
  BY <1>1, KeptFacts
<1>6. OrdersOfKeysMade' /\ OneOrderPerKey'
  BY <1>1, <1>5 DEF PurchaseInv, OrdersOfKeysMade, OneOrderPerKey
<1> QED
  BY <1>4, <1>6

LEMMA SubmitKeeps == ASSUME PurchaseInv, Submit PROVE PurchaseInv'
<1>1. /\ UNCHANGED <<kind, visit, learner, promo, order, card, read, faults>>
      /\ step = "form" /\ step' = "creating" /\ told' = "nothing" /\ learner # NoOne
      /\ keys' = NextKey /\ NextKey <= MaxKeys
  BY DEF Submit, server
<1>2. /\ keys \in 1..MaxKeys /\ visit \in 1..MaxVisits /\ learner \in Learners
      /\ promo.applied \in BOOLEAN /\ kind \in {"cohort", "private"}
  BY <1>1, Typed
<1>3. /\ keys' \in 1..MaxKeys /\ keys <= keys'
      /\ kind = "cohort" => keys' = keys
      /\ kind = "private" => keys' = keys + 1
  BY <1>1, <1>2, BoundAssumption DEF NextKey
<1>4. PICK c \in Slots, r \in CallRecords :
          /\ call' = [call EXCEPT ![c] = r]
          /\ r.op = "create" /\ r.key = keys' /\ r.visit = visit /\ r.who = learner
          /\ r.stage = "sent"
  <2> DEFINE q == [NoCall EXCEPT !.op = "create", !.key = NextKey, !.visit = visit,
                                 !.who = learner, !.coupon = promo.applied, !.heard = TRUE]
  <2>1. q \in CallRecords
    <3>1. NextKey \in 0..MaxKeys /\ visit \in 0..MaxVisits
      BY <1>1, <1>2, <1>3, BoundAssumption
    <3>2. NoCall \in CallRecords
      BY NoCallFits
    <3> QED BY <1>2, <3>1, <3>2 DEF CallRecords
  <2>2. /\ q.op = "create" /\ q.key = keys' /\ q.visit = visit /\ q.who = learner
        /\ q.stage = "sent"
    BY <1>1 DEF NoCall
  <2>3. PICK c \in Slots : call' = [call EXCEPT ![c] = q]
    BY DEF Submit, Sends, Free
  <2> HIDE DEF q
  <2> QED BY <2>1, <2>2, <2>3
<1>5. call' \in [Slots -> CallRecords] /\ \A e \in Slots : call'[e] = IF e = c THEN r ELSE call[e]
  BY <1>4, Typed
<1>6. PurchaseTypeOK'
  BY <1>1, <1>2, <1>3, <1>5 DEF PurchaseInv, PurchaseTypeOK, Steps
<1>7. /\ \A x : Fits(x) => Fits(x)'
      /\ OrdersOfKeysMade' /\ OneOrderPerKey'
  BY <1>1, <1>2, <1>3, LaterKeys
<1>8. KeyIsVisit'
  BY <1>1, <1>3 DEF PurchaseInv, KeyIsVisit, Orders
<1>9. Fits(r)'
  <2>1. kind = "cohort" => r.key = visit
    BY <1>3, <1>4 DEF PurchaseInv, KeyIsVisit
  <2>2. kind = "private" => OfKey(r.key) = {}
    BY <1>2, <1>3, <1>4 DEF PurchaseInv, OrdersOfKeysMade, OfKey
  <2>3. OfKey(r.key)' = OfKey(r.key)
    BY <1>1 DEF OfKey, Orders
  <2> QED BY <1>1, <1>2, <1>3, <1>4, <2>1, <2>2, <2>3 DEF Fits
<1>10. RequestsFit'
  <2> SUFFICES ASSUME NEW e \in Slots, NEW x, x = call'[e] PROVE Fits(x)'
    BY DEF RequestsFit
  <2> QED BY <1>5, <1>7, <1>9, Typed
<1>11. PressesDiffer'
  <2> SUFFICES ASSUME kind = "private" PROVE PressesDiffer'
    BY <1>1 DEF PressesDiffer
  <2>1. \A e \in Slots : call[e].op = "create" => call[e].key \in 1..keys
    BY Typed DEF Fits
  <2>2. r.key \notin 1..keys
    BY <1>2, <1>3, <1>4
  <2> QED BY <1>1, <1>5, <2>1, <2>2 DEF PurchaseInv, PressesDiffer
<1>12. CardMatches'
  BY <1>1, SameOrders, Typed, CardStays DEF CardMatches
<1> QED
  BY <1>6, <1>7, <1>8, <1>10, <1>11, <1>12 DEF PurchaseInv

LEMMA NothingReadTyped ==
    /\ NothingRead \in [Reads -> ReadRecords]
    /\ \A r \in Reads : NothingRead[r].op = "none"
  BY NoReadTyped DEF NothingRead

LEMMA NoCardTyped == NoCard \in CardRecords /\ NoCard.ord = NoOrder
  BY DEF NoCard, CardRecords, Status

LEMMA ReopenKeeps == ASSUME PurchaseInv, Reopen PROVE PurchaseInv'
<1>1. /\ UNCHANGED <<kind, order, faults>>
      /\ keys < MaxKeys /\ visit < MaxVisits /\ keys' = keys + 1 /\ visit' = visit + 1
      /\ step' = "form" /\ told' = "nothing" /\ learner' = NoOne /\ promo' = NoPromo
      /\ call' = [c \in Slots |-> [call[c] EXCEPT !.heard = FALSE]]
      /\ card' = NoCard /\ read' = NothingRead
  BY DEF Reopen, server
<1>2. keys \in 1..MaxKeys /\ visit \in 1..MaxVisits
  BY Typed
<1>3. keys' \in 1..MaxKeys /\ visit' \in 1..MaxVisits
  BY <1>1, <1>2, BoundAssumption
<1>4. \A c \in Slots : /\ call'[c] \in CallRecords
                       /\ call'[c].op = call[c].op /\ call'[c].key = call[c].key
                       /\ call'[c].visit = call[c].visit /\ call'[c].who = call[c].who
                       /\ call'[c].coupon = call[c].coupon /\ call'[c].ord = call[c].ord
                       /\ call'[c].stage = call[c].stage
  <2> SUFFICES ASSUME NEW c \in Slots
               PROVE  /\ call'[c] \in CallRecords
                      /\ call'[c].op = call[c].op /\ call'[c].key = call[c].key
                      /\ call'[c].visit = call[c].visit /\ call'[c].who = call[c].who
                      /\ call'[c].coupon = call[c].coupon /\ call'[c].ord = call[c].ord
                      /\ call'[c].stage = call[c].stage
    OBVIOUS
  <2>1. call[c] \in CallRecords /\ call'[c] = [call[c] EXCEPT !.heard = FALSE]
    BY <1>1, Typed
  <2> QED BY <2>1 DEF CallRecords
<1>5. call' \in [Slots -> CallRecords]
  BY <1>1, <1>4
<1>6. PurchaseTypeOK'
  BY <1>1, <1>3, <1>5, NothingReadTyped, NoCardTyped
     DEF PurchaseInv, PurchaseTypeOK, Steps, NoPromo
<1>7. /\ \A x : Fits(x) => Fits(x)'
      /\ OrdersOfKeysMade' /\ OneOrderPerKey'
  BY <1>1, <1>2, LaterKeys
<1>8. KeyIsVisit'
  BY <1>1 DEF PurchaseInv, KeyIsVisit, Orders
<1>9. RequestsFit'
  <2> SUFFICES ASSUME NEW c \in Slots, NEW x, x = call'[c] PROVE Fits(x)'
    BY DEF RequestsFit
  <2>1. Fits(x)
    <3>1. Fits(call[c])
      BY Typed
    <3> QED BY <1>4, <3>1 DEF Fits, Matches
  <2> QED BY <1>7, <2>1
<1>10. PressesDiffer'
  BY <1>1, <1>4 DEF PurchaseInv, PressesDiffer
<1>11. CardMatches'
  BY <1>1, NothingReadTyped, NoCardTyped DEF CardMatches
<1> QED
  BY <1>6, <1>7, <1>8, <1>9, <1>10, <1>11 DEF PurchaseInv

-----------------------------------------------------------------------------
(* The invariant.                                                           *)

LEMMA InitHolds == ASSUME Init PROVE PurchaseInv
<1>1. /\ kind \in {"cohort", "private"} /\ keys = 1 /\ visit = 1
      /\ step = "form" /\ told = "nothing" /\ learner = NoOne /\ promo = NoPromo
      /\ call = [c \in Slots |-> NoCall] /\ order = <<>> /\ card = NoCard /\ read = NothingRead
      /\ faults = 0
  BY DEF Init
<1>2. /\ order \in Seq(OrderRecords) /\ Len(order) = 0 /\ Orders = {}
  BY <1>1 DEF Orders
<1>3. 1 \in 1..MaxKeys /\ 1 \in 1..MaxVisits /\ 0 <= MaxOrders /\ 0 \in 0..MaxFaults
  BY BoundAssumption
<1>4. PurchaseTypeOK
  BY <1>1, <1>2, <1>3, NoCallFits, NothingReadTyped, NoCardTyped DEF PurchaseTypeOK, Steps, NoPromo
<1>5. KeyIsVisit /\ OrdersOfKeysMade /\ OneOrderPerKey
  BY <1>1, <1>2 DEF KeyIsVisit, OrdersOfKeysMade, OneOrderPerKey
<1>6. \A c \in Slots : call[c] = NoCall /\ Fits(call[c]) /\ call[c].op = "none"
  BY <1>1, NoCallFits
<1>7. RequestsFit /\ PressesDiffer
  BY <1>6 DEF RequestsFit, PressesDiffer
<1>8. CardMatches
  BY <1>1, NothingReadTyped, NoCardTyped DEF CardMatches
<1> QED
  BY <1>4, <1>5, <1>7, <1>8 DEF PurchaseInv

LEMMA StutterKeeps == ASSUME PurchaseInv, UNCHANGED vars PROVE PurchaseInv'
  BY SameOrders, Typed, CardMoves DEF vars

LEMMA StepKeeps == ASSUME PurchaseInv, [Next]_vars PROVE PurchaseInv'
<1>1. ASSUME NEW c \in Slots,
             \/ Replay(c) \/ CreateBooking(c) \/ RefuseBooking(c)
             \/ InitiatePayment(c) \/ RefusePayment(c)
      PROVE  PurchaseInv'
  BY <1>1, ReplayKeeps, CreateKeeps, RefuseKeeps, InitiateKeeps
<1>2. ASSUME NEW c \in Slots, Booked(c) \/ Linked(c) \/ Failed(c) \/ GiveUp(c) \/ Forget(c)
      PROVE  PurchaseInv'
  BY <1>2, BookedKeeps, LinkedKeeps, EndsKeep, GiveUpKeeps
<1>3. ASSUME NEW o \in Orders, Capture(o) \/ Webhook(o) \/ Expire(o) PROVE PurchaseInv'
  BY <1>3, OrderKeeps
<1>4. ASSUME CheckWithGateway \/ VerifyOrder \/ \E r \in Polls : Tick(r) \/ ReadOrder(r)
      PROVE  PurchaseInv'
  BY <1>4, AskKeeps, VerifyKeeps, ReadOrderKeeps
<1>5. ASSUME NEW r \in Reads, Land(r) \/ ReadFails(r) PROVE PurchaseInv'
  BY <1>5, LandKeeps
<1>6. ASSUME \/ \E l \in Learners : ChooseLearner(l)
             \/ \E valid \in BOOLEAN : CouponAnswer(valid)
             \/ TypeCoupon \/ ApplyCoupon \/ Submit \/ Reopen
      PROVE  PurchaseInv'
  BY <1>6, FormKeeps, SubmitKeeps, ReopenKeeps
<1>7. CASE UNCHANGED vars
  BY <1>7, StutterKeeps
<1> QED
  BY <1>1, <1>2, <1>3, <1>4, <1>5, <1>6, <1>7 DEF Next

(* Whatever is pressed, lost, answered late or paid, every request fits the *)
(* orders and the card has the one its press has led to.                    *)
THEOREM PurchaseInvariant == Spec => []PurchaseInv
<1>1. Init => PurchaseInv
  BY InitHolds
<1>2. PurchaseInv /\ [Next]_vars => PurchaseInv'
  BY StepKeeps
<1> QED
  BY <1>1, <1>2, PTL DEF Spec

(* The state of the page, of its requests and of the orders is well-formed. *)
THEOREM PurchaseTyped == Spec => []PurchaseTypeOK
<1>1. PurchaseInv => PurchaseTypeOK
  BY DEF PurchaseInv
<1> QED
  BY <1>1, PurchaseInvariant, PTL

(* One opening of a checkout makes one order at most ("retrying never       *)
(* double-charges"): its orders would have the same key, and keys differ.   *)
THEOREM OneOrderEachVisit == Spec => []OneOrderPerVisit
<1>1. PurchaseInv => OneOrderPerVisit
  BY DEF PurchaseInv, KeyIsVisit, OneOrderPerKey, OneOrderPerVisit
<1> QED
  BY <1>1, PurchaseInvariant, PTL

(* The card asks for the money of the order its press has led to, for the   *)
(* learner and with the coupon of that press.                               *)
THEOREM LinkIsOfPress == Spec => []LinkMatchesPress
<1>1. PurchaseInv => LinkMatchesPress
  BY DEF PurchaseInv, CardMatches, Matches, LinkMatchesPress
<1> QED
  BY <1>1, PurchaseInvariant, PTL
=============================================================================
