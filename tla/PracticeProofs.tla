---------------------------- MODULE PracticeProofs ---------------------------
(***************************************************************************)
(* Practice.  A timed sitting (Sitting), for any number of tabs, phones,   *)
(* requests, faults and attempts: no start opens a second sitting, none    *)
(* closes one with time left, a player's latch is up exactly while it must *)
(* be, and the phone shows what it has submitted.  The invariant ties      *)
(* every request to what its device waits for and to the attempts it may   *)
(* touch.                                                                  *)
(*                                                                         *)
(* A sitting drawn from the practice bank (Bank), for every limit, pace    *)
(* and grace: its clock is ahead of the server's by a rounding at most, so *)
(* no paper is sent before its time; one grading is awaited at a time;     *)
(* what the student submits is what is on screen.                          *)
(***************************************************************************)
EXTENDS Sitting, Bank, TLAPS


-----------------------------------------------------------------------------
(* Records.                                                                 *)

LEMMA FreeCallTyped == FreeCall \in CallRecords
  BY SittingAssumption DEF FreeCall, CallRecords, Sheets, BlankSheet

LEMMA BlankSheetTyped == BlankSheet \in Sheets
  BY DEF BlankSheet, Sheets

LEMMA RequestTyped ==
    ASSUME NEW d \in Devices, NEW kind \in {"start", "submit", "review"},
           NEW a \in 0..MaxAttempts, NEW sheet \in Sheets
    PROVE  /\ Request(d, kind, a, sheet) \in CallRecords
           /\ Request(d, kind, a, sheet).kind = kind
           /\ Request(d, kind, a, sheet).stage = "sent"
           /\ Request(d, kind, a, sheet).dev = d
           /\ Request(d, kind, a, sheet).att = a
           /\ Request(d, kind, a, sheet).sheet = sheet
<1>1. PICK f \in CallRecords : f = FreeCall
  BY FreeCallTyped
<1>2. Request(d, kind, a, sheet) =
          [f EXCEPT !.kind = kind, !.stage = "sent", !.dev = d, !.att = a, !.sheet = sheet]
  BY <1>1 DEF Request
<1> QED
  BY <1>2 DEF CallRecords

LEMMA FreshTyped ==
    ASSUME NEW d \in Devices
    PROVE  /\ Fresh(d) \in PlayerRecords
           /\ Fresh(d).phase \in {"brief", "loading"}
           /\ Fresh(d).mine = 0 /\ ~Fresh(d).latch
           /\ d \in Web => Fresh(d).phase = "brief"
  BY SittingAssumption, BlankSheetTyped DEF Fresh, PlayerRecords

LEMMA DevicesAreTwoKinds ==
    /\ NoDev \notin Devices
    /\ \A d \in Devices : d \in Web <=> d \notin Phones
    /\ Web \subseteq Devices /\ Phones \subseteq Devices
  BY SittingAssumption DEF Devices

(* An answer, or a call that nobody waits for any more, is well-formed.     *)
LEMMA ReplyConsistent ==
    ASSUME SittingInv, NEW c \in Calls, NEW stage \in {"ok", "failed"},
           NEW a \in 0..MaxAttempts, NEW A,
           call[c].kind # "none", stage = "ok" => Opened(A, a),
           call[c].kind \in {"submit", "review"} => Opened(A, a)
    PROVE  /\ Reply(c, stage, a) \in CallRecords
           /\ Consistent(A, Reply(c, stage, a))
           /\ Reply(c, stage, a).stage \in {"none", stage}
           /\ \/ /\ Reply(c, stage, a).dev = call[c].dev
                 /\ Reply(c, stage, a).kind = call[c].kind
              \/ Reply(c, stage, a) = FreeCall /\ call[c].dev = NoDev
<1>1. call[c] \in CallRecords /\ Consistent(att, call[c])
  BY DEF SittingInv, SittingTypeOK, CallsConsistent
<1>2. CASE call[c].dev = NoDev
  BY <1>2, FreeCallTyped, DevicesAreTwoKinds DEF Reply, FreeCall, Consistent
<1>3. CASE call[c].dev # NoDev
  <2> DEFINE r == [call[c] EXCEPT !.stage = stage, !.att = a, !.sheet = BlankSheet]
  <2>1. Reply(c, stage, a) = r
    BY <1>3 DEF Reply
  <2>2. /\ r \in CallRecords /\ r.stage = stage /\ r.att = a /\ r.dev = call[c].dev
        /\ r.kind = call[c].kind
    BY <1>1, BlankSheetTyped DEF CallRecords
  <2> HIDE DEF r
  <2>3. Consistent(A, r)
    BY <1>1, <1>3, <2>2 DEF Consistent
  <2> QED BY <2>1, <2>2, <2>3
<1> QED
  BY <1>2, <1>3

LEMMA DetachedConsistent ==
    ASSUME SittingInv, NEW c \in Calls
    PROVE  /\ Detached(c) \in CallRecords /\ Consistent(att, Detached(c))
           /\ Detached(c).dev = NoDev
<1>1. call[c] \in CallRecords /\ Consistent(att, call[c])
  BY DEF SittingInv, SittingTypeOK, CallsConsistent
<1>2. CASE Detached(c) = FreeCall
  BY <1>2, FreeCallTyped, DevicesAreTwoKinds DEF FreeCall, Consistent
<1>3. CASE Detached(c) # FreeCall
  <2> DEFINE r == [call[c] EXCEPT !.dev = NoDev]
  <2>1. Detached(c) = r /\ call[c].kind # "review" /\ call[c].stage \notin {"ok", "failed"}
    BY <1>3 DEF Detached
  <2>2. /\ r \in CallRecords /\ r.stage = call[c].stage /\ r.att = call[c].att
        /\ r.dev = NoDev /\ r.kind = call[c].kind
    BY <1>1 DEF CallRecords
  <2> HIDE DEF r
  <2>3. Consistent(att, r)
    BY <1>1, <2>1, <2>2, DevicesAreTwoKinds DEF Consistent
  <2> QED BY <2>1, <2>2, <2>3
<1> QED
  BY <1>2, <1>3

(* What is said of a call survives when attempts are opened, marked and run *)
(* out of time.                                                             *)
Grown == \A a \in Attempts : /\ att[a].st # "none" => att'[a].st # "none"
                             /\ att[a].due => att'[a].due

LEMMA GrownKeeps ==
    ASSUME Grown, NEW r
    PROVE  Consistent(att, r) => Consistent(att', r)
  BY DEF Grown, Consistent, Opened

-----------------------------------------------------------------------------
(* A handler takes a step: its call stays with its device, or nobody waits  *)
(* for it.                                                                  *)
LEMMA CallMoves ==
    ASSUME SittingInv, NEW c \in Calls, NEW r \in CallRecords,
           call' = [call EXCEPT ![c] = r], dev' = dev, faults' \in 0..MaxFaults,
           att' \in [Attempts -> AttemptRecords], Grown, NoSecondSitting',
           Consistent(att', r),
           \/ r.dev = call[c].dev /\ r.kind = call[c].kind
           \/ r.dev = NoDev /\ call[c].dev = NoDev,
           r.stage \in {"sent", "write"} /\ r.kind = "submit" =>
               r.sheet = call[c].sheet /\ call[c].stage \in {"sent", "write"}
    PROVE  SittingInv'
<1>1. /\ call \in [Calls -> CallRecords] /\ dev \in [Devices -> PlayerRecords]
      /\ CallsConsistent /\ PlayersHold /\ OneAwaited /\ AwaitedInPhase
      /\ LatchMatchesFlight /\ PhoneShowsWhatItSent /\ faults \in 0..MaxFaults
  BY DEF SittingInv, SittingTypeOK
<1>2. call'[c] = r /\ \A e \in Calls : e # c => call'[e] = call[e]
  BY <1>1
<1>3. SittingTypeOK'
  BY <1>1 DEF SittingTypeOK
<1>4. CallsConsistent' /\ PlayersHold'
  BY <1>1, <1>2, GrownKeeps DEF CallsConsistent, PlayersHold, Grown, Opened
<1>5. \A e \in Calls : \/ call'[e].dev = call[e].dev /\ call'[e].kind = call[e].kind
                       \/ call'[e].dev = NoDev /\ call[e].dev = NoDev
  BY <1>2 DEF FreeCall
<1>6. OneAwaited' /\ AwaitedInPhase'
  <2>1. \A e \in Calls : Exclusive(call'[e]) =>
            /\ Exclusive(call[e]) /\ call'[e].dev = call[e].dev /\ call'[e].kind = call[e].kind
    BY <1>5, DevicesAreTwoKinds DEF Exclusive
  <2>2. OneAwaited'
    BY <1>1, <2>1 DEF OneAwaited
  <2>3. AwaitedInPhase'
    BY <1>1, <2>1 DEF AwaitedInPhase
  <2> QED BY <2>2, <2>3
<1>7. LatchMatchesFlight'
  <2>1. \A d \in Devices : Submitting(d)' <=> Submitting(d)
    BY <1>5, DevicesAreTwoKinds DEF Submitting, Awaits
  <2> QED BY <1>1, <2>1 DEF LatchMatchesFlight
<1>8. PhoneShowsWhatItSent'
  BY <1>1, <1>2, DevicesAreTwoKinds DEF PhoneShowsWhatItSent, FreeCall
<1> QED
  BY <1>3, <1>4, <1>6, <1>7, <1>8 DEF SittingInv

-----------------------------------------------------------------------------
(* What the parts of the invariant say of one device.                       *)
Of(r, d) == r.dev = d /\ Exclusive(r)
Submits(r, d) == r.dev = d /\ r.kind \in {"submit", "review"}
Carries(r, sheet) ==
    r.kind = "submit" /\ r.stage \in {"sent", "write"} => r.sheet = sheet

(* One device moves, with the calls that are its own or nobody's.           *)
LEMMA DeviceMoves ==
    ASSUME SittingInv, NEW d \in Devices, NEW p \in PlayerRecords,
           dev' = [dev EXCEPT ![d] = p], att' = att, faults' \in 0..MaxFaults,
           call' \in [Calls -> CallRecords],
           \A c \in Calls : Consistent(att, call'[c]),
           \A c \in Calls : call'[c] = call[c]
                              \/ (call[c].dev \in {d, NoDev} /\ call'[c].dev \in {d, NoDev}),
           p.mine # 0 => Opened(att, p.mine),
           \A c, e \in Calls : Of(call'[c], d) /\ Of(call'[e], d) => c = e,
           \A c \in Calls : Of(call'[c], d) =>
               p.phase = IF call'[c].kind = "start" THEN "brief" ELSE "running",
           p.latch <=> (\E c \in Calls : Submits(call'[c], d)) \/ p.phase = "result",
           d \in Phones => \A c \in Calls : call'[c].dev = d => Carries(call'[c], p.sheet)
    PROVE  SittingInv'
<1>1. /\ call \in [Calls -> CallRecords] /\ dev \in [Devices -> PlayerRecords]
      /\ CallsConsistent /\ PlayersHold /\ OneAwaited /\ AwaitedInPhase
      /\ LatchMatchesFlight /\ PhoneShowsWhatItSent /\ NoSecondSitting
      /\ att \in [Attempts -> AttemptRecords]
  BY DEF SittingInv, SittingTypeOK
<1>2. dev'[d] = p /\ \A e \in Devices : e # d => dev'[e] = dev[e]
  BY <1>1
<1>3. SittingTypeOK'
  BY <1>1 DEF SittingTypeOK
<1>4. CallsConsistent' /\ PlayersHold' /\ NoSecondSitting'
  <2>1. CallsConsistent'
    BY DEF CallsConsistent
  <2>2. PlayersHold'
    BY <1>1, <1>2 DEF PlayersHold
  <2>3. NoSecondSitting'
    BY <1>1 DEF NoSecondSitting
  <2> QED BY <2>1, <2>2, <2>3
<1>5. \A c \in Calls, e \in Devices :
          e # d /\ (call'[c].dev = e \/ call[c].dev = e) => call'[c] = call[c]
  BY DevicesAreTwoKinds
<1>6. \A c \in Calls : Exclusive(call'[c]) => call'[c].dev \in Devices
  BY DevicesAreTwoKinds DEF Exclusive
<1>7. OneAwaited'
  BY <1>1, <1>5, <1>6 DEF OneAwaited, Of
<1>8. AwaitedInPhase'
  BY <1>1, <1>2, <1>5, <1>6 DEF AwaitedInPhase, Of
<1>9. LatchMatchesFlight'
  <2>1. \A e \in Devices : e # d => (Submitting(e)' <=> Submitting(e))
    BY <1>5 DEF Submitting, Awaits
  <2>2. Submitting(d)' <=> \E c \in Calls : Submits(call'[c], d)
    BY DEF Submitting, Awaits, Submits
  <2> QED BY <1>1, <1>2, <2>1, <2>2 DEF LatchMatchesFlight
<1>10. PhoneShowsWhatItSent'
  BY <1>1, <1>2, <1>5, DevicesAreTwoKinds DEF PhoneShowsWhatItSent, Carries
<1> QED
  BY <1>3, <1>4, <1>7, <1>8, <1>9, <1>10 DEF SittingInv

(* What is known of the calls a device awaits.                              *)
LEMMA Awaited ==
    ASSUME SittingInv, NEW d \in Devices
    PROVE  /\ \A c, e \in Calls : Of(call[c], d) /\ Of(call[e], d) => c = e
           /\ \A c \in Calls : Of(call[c], d) =>
                 dev[d].phase = IF call[c].kind = "start" THEN "brief" ELSE "running"
           /\ dev[d].latch <=> (\E c \in Calls : Submits(call[c], d)) \/ dev[d].phase = "result"
           /\ \A c \in Calls : Submits(call[c], d) => Of(call[c], d)
           /\ d \in Phones => \A c \in Calls : call[c].dev = d => Carries(call[c], dev[d].sheet)
           /\ dev[d].mine # 0 => Opened(att, dev[d].mine)
           /\ dev[d] \in PlayerRecords
<1>1. /\ dev \in [Devices -> PlayerRecords]
      /\ PlayersHold /\ OneAwaited /\ AwaitedInPhase /\ LatchMatchesFlight
      /\ PhoneShowsWhatItSent
  BY DEF SittingInv, SittingTypeOK
<1>2. \A c, e \in Calls : Of(call[c], d) /\ Of(call[e], d) => c = e
  BY <1>1 DEF OneAwaited, Of
<1>3. \A c \in Calls : Of(call[c], d) =>
          dev[d].phase = IF call[c].kind = "start" THEN "brief" ELSE "running"
  BY <1>1 DEF AwaitedInPhase, Of
<1>4. dev[d].latch <=> (\E c \in Calls : Submits(call[c], d)) \/ dev[d].phase = "result"
  BY <1>1 DEF LatchMatchesFlight, Submitting, Awaits, Submits
<1>5. d \in Phones => \A c \in Calls : call[c].dev = d => Carries(call[c], dev[d].sheet)
  BY <1>1 DEF PhoneShowsWhatItSent, Carries
<1>6. \A c \in Calls : Submits(call[c], d) => Of(call[c], d)
  BY DevicesAreTwoKinds DEF Exclusive, Devices, Submits, Of
<1> QED
  BY <1>1, <1>2, <1>3, <1>4, <1>5, <1>6 DEF PlayersHold

LEMMA Typed ==
    ASSUME SittingInv
    PROVE  /\ att \in [Attempts -> AttemptRecords] /\ call \in [Calls -> CallRecords]
           /\ dev \in [Devices -> PlayerRecords] /\ faults \in 0..MaxFaults
           /\ \A c \in Calls : Consistent(att, call[c])
  BY DEF SittingInv, SittingTypeOK, CallsConsistent

(* The usual step: the device takes or makes one call.                      *)
LEMMA OneCallMoves ==
    ASSUME SittingInv, NEW d \in Devices, NEW p \in PlayerRecords,
           dev' = [dev EXCEPT ![d] = p], att' = att, faults' \in 0..MaxFaults,
           NEW c \in Calls, NEW r \in CallRecords, call' = [call EXCEPT ![c] = r],
           call[c].dev \in {d, NoDev}, r.dev \in {d, NoDev}, Consistent(att, r),
           p.mine # 0 => Opened(att, p.mine),
           Of(r, d) => /\ p.phase = IF r.kind = "start" THEN "brief" ELSE "running"
                       /\ \A e \in Calls \ {c} : ~Of(call[e], d),
           p.phase = dev[d].phase \/ \A e \in Calls \ {c} : ~Of(call[e], d),
           p.latch <=> \/ Submits(r, d)
                       \/ \E e \in Calls \ {c} : Submits(call[e], d)
                       \/ p.phase = "result",
           r.dev = d /\ d \in Phones => Carries(r, p.sheet),
           p.sheet = dev[d].sheet \/ \A e \in Calls \ {c} : ~Submits(call[e], d)
    PROVE  SittingInv'
<1>1. call'[c] = r /\ \A e \in Calls : e # c => call'[e] = call[e]
  BY Typed
<1>2. call' \in [Calls -> CallRecords]
  BY Typed
<1>3. \A e \in Calls : Consistent(att, call'[e])
  BY <1>1, Typed
<1>4. \A e \in Calls : call'[e] = call[e]
                         \/ (call[e].dev \in {d, NoDev} /\ call'[e].dev \in {d, NoDev})
  BY <1>1
<1>5. \A e1, e2 \in Calls : Of(call'[e1], d) /\ Of(call'[e2], d) => e1 = e2
  BY <1>1, Awaited
<1>6. \A e \in Calls : Of(call'[e], d) =>
          p.phase = IF call'[e].kind = "start" THEN "brief" ELSE "running"
  BY <1>1, Awaited
<1>7. p.latch <=> (\E e \in Calls : Submits(call'[e], d)) \/ p.phase = "result"
  BY <1>1
<1>8. d \in Phones => \A e \in Calls : call'[e].dev = d => Carries(call'[e], p.sheet)
  BY <1>1, Awaited DEF Carries, Submits
<1> QED
  BY <1>2, <1>3, <1>4, <1>5, <1>6, <1>7, <1>8, DeviceMoves

-----------------------------------------------------------------------------
(* The players.                                                             *)

(* "Submit now" and the submission when time runs out.                      *)
LEMMA FinishKeeps == ASSUME SittingInv, NEW d \in Devices, Finish(d) PROVE SittingInv'
<1>1. PICK c \in Calls :
          /\ call[c] = FreeCall
          /\ call' = [call EXCEPT ![c] = Request(d, "submit", dev[d].mine, dev[d].sheet)]
  BY DEF Finish, Free
<1>2. /\ dev[d].phase = "running" /\ dev[d].mine # 0 /\ ~dev[d].latch
      /\ dev' = [dev EXCEPT ![d].latch = TRUE] /\ att' = att /\ faults' = faults
  BY DEF Finish, Unlatched
<1>3. dev[d] \in PlayerRecords /\ dev[d].mine \in 0..MaxAttempts /\ dev[d].sheet \in Sheets
  BY Typed DEF PlayerRecords
<1>4. PICK r \in CallRecords :
          /\ r = Request(d, "submit", dev[d].mine, dev[d].sheet)
          /\ r.kind = "submit" /\ r.stage = "sent" /\ r.dev = d
          /\ r.att = dev[d].mine /\ r.sheet = dev[d].sheet
  BY <1>3, RequestTyped
<1>5. PICK p \in PlayerRecords :
          /\ dev' = [dev EXCEPT ![d] = p] /\ p.latch = TRUE /\ p.phase = "running"
          /\ p.mine = dev[d].mine /\ p.sheet = dev[d].sheet
  <2>1. [dev[d] EXCEPT !.latch = TRUE] \in PlayerRecords
    BY <1>3 DEF PlayerRecords
  <2>2. dev' = [dev EXCEPT ![d] = [dev[d] EXCEPT !.latch = TRUE]]
    BY <1>2, Typed
  <2> QED BY <1>2, <1>3, <2>1, <2>2 DEF PlayerRecords
<1>6. Consistent(att, r)
  BY <1>2, <1>4, Awaited, DevicesAreTwoKinds DEF Consistent
<1>7. \A e \in Calls : ~Submits(call[e], d)
  BY <1>2, Awaited
<1>8. \A e \in Calls : ~Of(call[e], d)
  <2>1. \A e \in Calls : Of(call[e], d) => call[e].kind = "start"
    BY <1>7, Typed, DevicesAreTwoKinds DEF CallRecords, Consistent, Of, Submits
  <2> QED BY <1>2, <2>1, Awaited
<1>9. call[c].dev = NoDev
  BY <1>1 DEF FreeCall
<1>10. Submits(r, d) /\ Carries(r, p.sheet)
  BY <1>4, <1>5 DEF Submits, Carries
<1>11. /\ faults' \in 0..MaxFaults /\ call[c].dev \in {d, NoDev} /\ r.dev \in {d, NoDev}
       /\ p.mine # 0 => Opened(att, p.mine)
       /\ Of(r, d) => p.phase = IF r.kind = "start" THEN "brief" ELSE "running"
       /\ p.latch <=> \/ Submits(r, d)
                      \/ \E e \in Calls \ {c} : Submits(call[e], d)
                      \/ p.phase = "result"
  BY <1>2, <1>4, <1>5, <1>9, <1>10, Awaited, Typed
<1> QED
  BY <1>1, <1>2, <1>4, <1>5, <1>6, <1>8, <1>10, <1>11, OneCallMoves

(* A request to start: of a tab with its brief, or of a phone.              *)
LEMMA StartKeeps ==
    ASSUME SittingInv, NEW d \in Devices, NEW c \in Calls, NEW r \in CallRecords,
           call[c] = FreeCall, call' = [call EXCEPT ![c] = r],
           r.kind = "start", r.dev = d,
           r.stage = "sent" \/ (r.stage = "paper" /\ d \in Phones),
           d \in Web => dev[d].phase = "brief" /\ ~Awaits(d, "start"),
           att' = att, dev' = dev, faults' = faults
    PROVE  SittingInv'
<1>1. dev' = [dev EXCEPT ![d] = dev[d]] /\ dev[d] \in PlayerRecords
  BY Typed
<1>2. call[c].dev = NoDev /\ call[c].kind = "none"
  BY DEF FreeCall
<1>3. Consistent(att, r)
  BY DevicesAreTwoKinds DEF Consistent
<1>4. Of(r, d) => /\ dev[d].phase = IF r.kind = "start" THEN "brief" ELSE "running"
                  /\ \A e \in Calls \ {c} : ~Of(call[e], d)
  <2> SUFFICES ASSUME Of(r, d)
               PROVE  /\ dev[d].phase = "brief"
                      /\ \A e \in Calls \ {c} : ~Of(call[e], d)
    OBVIOUS
  <2>1. d \in Web
    BY DevicesAreTwoKinds DEF Of, Exclusive
  <2>2. \A e \in Calls : Of(call[e], d) => call[e].kind = "start"
    BY <2>1, Awaited
  <2>3. \A e \in Calls : ~Of(call[e], d)
    BY <2>1, <2>2 DEF Of, Awaits
  <2> QED BY <2>1, <2>3
<1>5. dev[d].latch <=> \/ Submits(r, d)
                       \/ \E e \in Calls \ {c} : Submits(call[e], d)
                       \/ dev[d].phase = "result"
  BY <1>2, Awaited DEF Submits
<1>6. Carries(r, dev[d].sheet)
  BY DEF Carries
<1> QED
  BY <1>1, <1>2, <1>3, <1>4, <1>5, <1>6, Awaited, Typed, OneCallMoves

LEMMA BeginKeeps == ASSUME SittingInv, NEW w \in Devices, Begin(w) PROVE SittingInv'
<1>1. PICK c \in Calls :
          /\ call[c] = FreeCall
          /\ call' = [call EXCEPT ![c] = Request(w, "start", 0, BlankSheet)]
  BY DEF Begin, Free
<1>2. 0 \in 0..MaxAttempts
  BY SittingAssumption
<1>3. PICK r \in CallRecords : /\ r = Request(w, "start", 0, BlankSheet)
                               /\ r.kind = "start" /\ r.stage = "sent" /\ r.dev = w
  BY <1>2, RequestTyped, BlankSheetTyped
<1> QED
  BY <1>1, <1>3, StartKeeps DEF Begin

(* A request to read the paper, with what it is made of.                    *)
LEMMA PaperTyped ==
    ASSUME NEW p \in Devices
    PROVE  \E r \in CallRecords :
              /\ r = [Request(p, "start", 0, BlankSheet) EXCEPT !.stage = "paper"]
              /\ r.kind = "start" /\ r.stage = "paper" /\ r.dev = p
<1>1. 0 \in 0..MaxAttempts
  BY SittingAssumption
<1>2. PICK r \in CallRecords : /\ r = Request(p, "start", 0, BlankSheet)
                               /\ r.kind = "start" /\ r.stage = "sent" /\ r.dev = p
  BY <1>1, RequestTyped, BlankSheetTyped
<1>3. [r EXCEPT !.stage = "paper"] \in CallRecords
  BY DEF CallRecords
<1>4. /\ [r EXCEPT !.stage = "paper"].kind = "start"
      /\ [r EXCEPT !.stage = "paper"].stage = "paper"
      /\ [r EXCEPT !.stage = "paper"].dev = p
  BY <1>2 DEF CallRecords
<1> QED
  BY <1>2, <1>3, <1>4

LEMMA LoadKeeps == ASSUME SittingInv, NEW p \in Devices, Load(p) PROVE SittingInv'
<1>1. PICK c \in Calls :
          /\ call[c] = FreeCall
          /\ call' = [call EXCEPT ![c] = [Request(p, "start", 0, BlankSheet)
                                            EXCEPT !.stage = "paper"]]
  BY DEF Load, Free
<1>2. PICK r \in CallRecords :
              /\ r = [Request(p, "start", 0, BlankSheet) EXCEPT !.stage = "paper"]
              /\ r.kind = "start" /\ r.stage = "paper" /\ r.dev = p
  BY PaperTyped
<1> QED
  BY <1>1, <1>2, StartKeeps, DevicesAreTwoKinds DEF Load

-----------------------------------------------------------------------------
(* Answers.                                                                 *)

LEMMA NobodysCall ==
    ASSUME NEW r \in CallRecords, r.dev = NoDev, NEW d \in Devices
    PROVE  ~Of(r, d) /\ ~Submits(r, d) /\ r.dev # d
  BY DevicesAreTwoKinds DEF Of, Submits

LEMMA FreeCallIsNobodys == FreeCall.dev = NoDev /\ Consistent(att, FreeCall)
  BY DevicesAreTwoKinds DEF FreeCall, Consistent

(* A call nobody waits for ends.                                            *)
LEMMA Cancelled ==
    ASSUME SittingInv, NEW c \in Calls, call[c].dev = NoDev,
           call' = [call EXCEPT ![c] = FreeCall], dev' = dev, att' = att,
           faults' \in 0..MaxFaults
    PROVE  SittingInv'
<1>1. PICK r \in CallRecords : r = FreeCall /\ r.dev = NoDev /\ r.kind = "none" /\ Consistent(att, r)
  BY FreeCallTyped, FreeCallIsNobodys DEF FreeCall
<1>2. Grown /\ NoSecondSitting' /\ Consistent(att', r)
  BY <1>1 DEF Grown, SittingInv, NoSecondSitting
<1> QED
  BY <1>1, <1>2, Typed, CallMoves

(* A device stops waiting for a call.                                       *)
LEMMA AwaitsNoMore ==
    ASSUME SittingInv, NEW d \in Devices, NEW p \in PlayerRecords, NEW c \in Calls,
           NEW r \in CallRecords, call[c].dev = d, r.dev = NoDev, Consistent(att, r),
           call' = [call EXCEPT ![c] = r], dev' = [dev EXCEPT ![d] = p],
           att' = att, faults' \in 0..MaxFaults,
           p.mine # 0 => Opened(att, p.mine),
           p.phase = dev[d].phase \/ Of(call[c], d) \/ \A e \in Calls : ~Of(call[e], d),
           IF Submits(call[c], d) THEN p.latch <=> p.phase = "result"
           ELSE p.latch = dev[d].latch /\ (p.phase = "result" <=> dev[d].phase = "result"),
           p.sheet = dev[d].sheet \/ Submits(call[c], d)
    PROVE  SittingInv'
<1>1. ~Of(r, d) /\ ~Submits(r, d) /\ r.dev # d
  BY NobodysCall
<1>2. Of(call[c], d) => \A e \in Calls \ {c} : ~Of(call[e], d)
  BY Awaited
<1>3. Submits(call[c], d) => \A e \in Calls \ {c} : ~Submits(call[e], d)
  BY <1>2, Awaited
<1>4. p.phase = dev[d].phase \/ \A e \in Calls \ {c} : ~Of(call[e], d)
  BY <1>2
<1>5. p.latch <=> \/ Submits(r, d)
                  \/ \E e \in Calls \ {c} : Submits(call[e], d)
                  \/ p.phase = "result"
  <2>1. CASE Submits(call[c], d)
    BY <1>1, <1>3, <2>1
  <2>2. CASE ~Submits(call[c], d)
    <3>1. (\E e \in Calls \ {c} : Submits(call[e], d)) <=> \E e \in Calls : Submits(call[e], d)
      BY <2>2
    <3> QED BY <1>1, <2>2, <3>1, Awaited
  <2> QED BY <2>1, <2>2
<1>6. p.sheet = dev[d].sheet \/ \A e \in Calls \ {c} : ~Submits(call[e], d)
  BY <1>3
<1> QED
  BY <1>1, <1>4, <1>5, <1>6, OneCallMoves

(* The paper is there, or is not, for a phone that waits for it.            *)
LEMMA PaperOkKeeps == ASSUME SittingInv, NEW c \in Calls, PaperOk(c) PROVE SittingInv'
<1>1. /\ call[c] \in CallRecords /\ Consistent(att, call[c]) /\ call[c].stage = "paper"
      /\ att' = att /\ faults' = faults /\ call[c].kind = "start" /\ call[c].dev \notin Web
  BY Typed DEF PaperOk, Consistent
<1>2. PICK r \in CallRecords :
          /\ r = [call[c] EXCEPT !.stage = "sent"] /\ r.stage = "sent"
          /\ r.kind = "start" /\ r.dev = call[c].dev /\ r.sheet = call[c].sheet
  <2>1. [call[c] EXCEPT !.stage = "sent"] \in CallRecords
    BY <1>1 DEF CallRecords
  <2> QED BY <1>1, <2>1 DEF CallRecords
<1>3. call' = [call EXCEPT ![c] = r]
  BY <1>2, Typed DEF PaperOk
<1>4. Consistent(att, r)
  BY <1>1, <1>2, DevicesAreTwoKinds DEF Consistent
<1>5. CASE dev' = dev
  BY <1>1, <1>2, <1>3, <1>4, <1>5, Typed, CallMoves DEF Grown, SittingInv, NoSecondSitting
<1>6. CASE dev' # dev
  <2>1. PICK d \in Phones : /\ d = call[c].dev /\ ~HasPaper(d)
                            /\ dev' = [dev EXCEPT ![d].phase = "running"]
    BY <1>1, <1>6 DEF PaperOk, CallRecords, Devices
  <2>2. d \in Devices /\ dev[d] \in PlayerRecords
    BY Typed DEF Devices
  <2>3. PICK p \in PlayerRecords :
            /\ dev' = [dev EXCEPT ![d] = p] /\ p.phase = "running"
            /\ p.mine = dev[d].mine /\ p.sheet = dev[d].sheet /\ p.latch = dev[d].latch
    <3>1. [dev[d] EXCEPT !.phase = "running"] \in PlayerRecords
      BY <2>2 DEF PlayerRecords
    <3>2. dev' = [dev EXCEPT ![d] = [dev[d] EXCEPT !.phase = "running"]]
      BY <2>1, Typed
    <3> QED BY <2>2, <3>1, <3>2 DEF PlayerRecords
  <2>4. \A e \in Calls : ~Of(call[e], d)
    BY <2>1, <2>2, Awaited, DevicesAreTwoKinds DEF HasPaper, Of, Exclusive
  <2>5. /\ ~Of(r, d) /\ ~Submits(r, d) /\ Carries(r, p.sheet)
    BY <1>2, <2>1, DevicesAreTwoKinds DEF Of, Exclusive, Submits, Carries
  <2>6. /\ faults' \in 0..MaxFaults /\ call[c].dev \in {d, NoDev} /\ r.dev \in {d, NoDev}
        /\ p.mine # 0 => Opened(att, p.mine)
        /\ p.latch <=> \/ Submits(r, d)
                       \/ \E e \in Calls \ {c} : Submits(call[e], d)
                       \/ p.phase = "result"
    BY <1>1, <1>2, <2>1, <2>2, <2>3, <2>4, <2>5, Awaited, Typed DEF HasPaper
  <2> QED
    BY <1>1, <1>3, <1>4, <2>2, <2>3, <2>4, <2>5, <2>6, OneCallMoves
<1> QED
  BY <1>5, <1>6

LEMMA PaperFailKeeps == ASSUME SittingInv, NEW c \in Calls, PaperFail(c) PROVE SittingInv'
<1>1. /\ call[c] \in CallRecords /\ Consistent(att, call[c]) /\ call[c].stage = "paper"
      /\ att' = att /\ faults' \in 0..MaxFaults
      /\ call[c].kind = "start" /\ call[c].dev \notin Web
      /\ call' = [call EXCEPT ![c] = FreeCall]
  BY Typed, SittingAssumption DEF PaperFail, Consistent
<1>2. CASE call[c].dev = NoDev
  <2>1. dev' = dev
    BY <1>2 DEF PaperFail
  <2> QED
    BY <1>1, <1>2, <2>1, Cancelled
<1>3. CASE call[c].dev # NoDev
  <2>1. PICK d \in Phones : d = call[c].dev
    BY <1>1, <1>3 DEF CallRecords, Devices
  <2>2. d \in Devices /\ dev[d] \in PlayerRecords
    BY <2>1, Typed DEF Devices
  <2>3. PICK p \in PlayerRecords :
            /\ dev' = [dev EXCEPT ![d] = p]
            /\ p = dev[d] \/ (p.phase = "failed" /\ ~HasPaper(d))
            /\ p.mine = dev[d].mine /\ p.sheet = dev[d].sheet /\ p.latch = dev[d].latch
    <3>1. CASE HasPaper(d)
      <4>1. dev' = [dev EXCEPT ![d] = dev[d]]
        BY <1>3, <2>1, <3>1, Typed DEF PaperFail
      <4> QED BY <2>2, <4>1
    <3>2. CASE ~HasPaper(d)
      <4>1. [dev[d] EXCEPT !.phase = "failed"] \in PlayerRecords
        BY <2>2 DEF PlayerRecords
      <4>2. dev' = [dev EXCEPT ![d] = [dev[d] EXCEPT !.phase = "failed"]]
        BY <1>3, <2>1, <3>2, Typed DEF PaperFail
      <4> QED BY <2>2, <3>2, <4>1, <4>2 DEF PlayerRecords
    <3> QED BY <3>1, <3>2
  <2>4. ~HasPaper(d) => \A e \in Calls : ~Of(call[e], d)
    BY <2>1, <2>2, Awaited, DevicesAreTwoKinds DEF HasPaper, Of, Exclusive
  <2>5. ~Submits(call[c], d)
    BY <1>1 DEF Submits
  <2>6. /\ p.mine # 0 => Opened(att, p.mine)
        /\ p.phase = "result" <=> dev[d].phase = "result"
    BY <2>2, <2>3, Awaited DEF HasPaper
  <2> QED
    BY <1>1, <2>1, <2>2, <2>3, <2>4, <2>5, <2>6, FreeCallTyped, FreeCallIsNobodys, AwaitsNoMore
<1> QED
  BY <1>2, <1>3

LEMMA StartedKeeps == ASSUME SittingInv, NEW c \in Calls, Started(c) PROVE SittingInv'
<1>1. /\ call[c] \in CallRecords /\ Consistent(att, call[c])
      /\ call[c].kind = "start" /\ call[c].stage = "ok"
      /\ att' = att /\ faults' = faults /\ call' = [call EXCEPT ![c] = FreeCall]
  BY Typed DEF Started
<1>2. PICK d \in Devices : d = call[c].dev
  BY <1>1 DEF Consistent, CallRecords
<1>3. dev[d] \in PlayerRecords /\ Opened(att, call[c].att) /\ call[c].att \in 0..MaxAttempts
  BY <1>1, Typed DEF Consistent, CallRecords
<1>4. PICK p \in PlayerRecords :
          /\ dev' = [dev EXCEPT ![d] = p] /\ p.mine = call[c].att
          /\ p.phase = IF d \in Web THEN "running" ELSE dev[d].phase
          /\ p.sheet = dev[d].sheet /\ p.latch = dev[d].latch
  <2> DEFINE q == [dev[d] EXCEPT !.mine = call[c].att,
                                 !.phase = IF d \in Web THEN "running" ELSE dev[d].phase]
  <2>1. q \in PlayerRecords
    BY <1>3 DEF PlayerRecords
  <2>2. dev' = [dev EXCEPT ![d] = q]
    BY <1>2, Typed DEF Started
  <2>3. /\ q.mine = call[c].att /\ q.phase = IF d \in Web THEN "running" ELSE dev[d].phase
        /\ q.sheet = dev[d].sheet /\ q.latch = dev[d].latch
    BY <1>3 DEF PlayerRecords
  <2> HIDE DEF q
  <2> QED BY <2>1, <2>2, <2>3
<1>5. d \in Web => Of(call[c], d) /\ dev[d].phase = "brief"
  BY <1>1, <1>2, Awaited DEF Of, Exclusive
<1>6. ~Submits(call[c], d)
  BY <1>1 DEF Submits
<1>7. p.phase = "result" <=> dev[d].phase = "result"
  BY <1>4, <1>5
<1> QED
  BY <1>1, <1>2, <1>3, <1>4, <1>5, <1>6, <1>7, FreeCallTyped, FreeCallIsNobodys, AwaitsNoMore, Typed

(* The result of an attempt, on screen.                                     *)
LEMMA ResultTyped ==
    ASSUME SittingInv, NEW d \in Devices, NEW a \in 0..MaxAttempts
    PROVE  /\ Result(d, a) \in PlayerRecords
           /\ Result(d, a).phase = "result"
           /\ Result(d, a).mine = dev[d].mine
           /\ Result(d, a).latch = dev[d].latch
<1>1. dev[d] \in PlayerRecords
  BY Typed
<1> QED
  BY <1>1, BlankSheetTyped DEF Result, PlayerRecords

(* A submitted call is answered, and the player shows the result.           *)
LEMMA ShowsResult ==
    ASSUME SittingInv, NEW c \in Calls, NEW d \in Devices, call[c].dev = d,
           call[c].kind \in {"submit", "review"}, call[c].stage = "ok",
           dev' = [dev EXCEPT ![d] = Result(d, call[c].att)],
           call' = [call EXCEPT ![c] = FreeCall], att' = att, faults' = faults
    PROVE  SittingInv'
<1>1. call[c] \in CallRecords /\ call[c].att \in 0..MaxAttempts
  BY Typed DEF CallRecords
<1>2. PICK p \in PlayerRecords : /\ p = Result(d, call[c].att) /\ p.phase = "result"
                                 /\ p.mine = dev[d].mine /\ p.latch = dev[d].latch
  BY <1>1, ResultTyped
<1>3. Submits(call[c], d) /\ Of(call[c], d)
  BY Awaited DEF Submits
<1>4. p.latch <=> p.phase = "result"
  BY <1>2, <1>3, Awaited
<1>5. p.mine # 0 => Opened(att, p.mine)
  BY <1>2, Awaited
<1> QED
  BY <1>2, <1>3, <1>4, <1>5, FreeCallTyped, FreeCallIsNobodys, Typed, AwaitsNoMore

LEMMA ReviewedKeeps == ASSUME SittingInv, NEW c \in Calls, Reviewed(c) PROVE SittingInv'
<1>1. /\ call[c] \in CallRecords /\ Consistent(att, call[c])
      /\ call[c].kind = "review" /\ call[c].stage = "ok"
  BY Typed DEF Reviewed
<1>2. PICK d \in Devices : d = call[c].dev
  BY <1>1 DEF Consistent, CallRecords
<1> QED
  BY <1>1, <1>2, ShowsResult DEF Reviewed

LEMMA MarkedKeeps == ASSUME SittingInv, NEW c \in Calls, Marked(c) PROVE SittingInv'
<1>1. /\ call[c] \in CallRecords /\ Consistent(att, call[c])
      /\ call[c].kind = "submit" /\ call[c].stage = "ok" /\ att' = att /\ faults' = faults
  BY Typed DEF Marked
<1>2. PICK d \in Devices : d = call[c].dev
  BY <1>1 DEF Consistent, CallRecords
<1>3. CASE d \in Web
  BY <1>1, <1>2, <1>3, ShowsResult DEF Marked
<1>4. CASE d \notin Web
  <2>1. /\ d \in Phones /\ Opened(att, call[c].att) /\ call[c].att \in 0..MaxAttempts
        /\ dev' = dev /\ call' = [call EXCEPT ![c] = Request(d, "review", call[c].att, BlankSheet)]
    BY <1>1, <1>2, <1>4 DEF Marked, Consistent, CallRecords, Devices
  <2>2. PICK r \in CallRecords :
            /\ r = Request(d, "review", call[c].att, BlankSheet)
            /\ r.kind = "review" /\ r.stage = "sent" /\ r.dev = d /\ r.att = call[c].att
    BY <2>1, RequestTyped, BlankSheetTyped
  <2>3. Consistent(att, r)
    BY <2>1, <2>2, DevicesAreTwoKinds DEF Consistent
  <2>4. Submits(call[c], d) /\ Of(call[c], d) /\ Submits(r, d) /\ Carries(r, dev[d].sheet)
    BY <1>1, <1>2, <2>2, Awaited DEF Submits, Carries
  <2>5. dev[d].latch /\ dev[d].phase = "running" /\ \A e \in Calls \ {c} : ~Of(call[e], d)
    BY <1>1, <2>4, Awaited
  <2>6. dev' = [dev EXCEPT ![d] = dev[d]] /\ dev[d] \in PlayerRecords
    BY <2>1, Typed
  <2>7. dev[d].mine # 0 => Opened(att, dev[d].mine)
    BY Awaited
  <2>8. Of(r, d) => /\ dev[d].phase = IF r.kind = "start" THEN "brief" ELSE "running"
                    /\ \A e \in Calls \ {c} : ~Of(call[e], d)
    BY <2>2, <2>5
  <2>9. dev[d].latch <=> \/ Submits(r, d)
                         \/ \E e \in Calls \ {c} : Submits(call[e], d)
                         \/ dev[d].phase = "result"
    BY <2>4, <2>5
  <2>10. /\ faults' \in 0..MaxFaults /\ call' = [call EXCEPT ![c] = r]
         /\ call[c].dev \in {d, NoDev} /\ r.dev \in {d, NoDev}
    BY <1>1, <1>2, <2>1, <2>2, Typed
  <2> QED
    BY <1>1, <2>3, <2>4, <2>6, <2>7, <2>8, <2>9, <2>10, OneCallMoves
<1> QED
  BY <1>3, <1>4

(* An error, or no answer in time: the latch of a submission falls.         *)
LEMMA LatchFalls ==
    ASSUME SittingInv, NEW c \in Calls, NEW r \in CallRecords, r.dev = NoDev,
           Consistent(att, r), call[c].dev # NoDev,
           dev' = [dev EXCEPT ![call[c].dev].latch = ReleasedLatch(c)],
           call' = [call EXCEPT ![c] = r], att' = att, faults' \in 0..MaxFaults
    PROVE  SittingInv'
<1>1. call[c] \in CallRecords /\ Consistent(att, call[c])
  BY Typed
<1>2. PICK d \in Devices : d = call[c].dev
  BY <1>1 DEF CallRecords
<1>3. dev[d] \in PlayerRecords /\ dev[d].latch \in BOOLEAN
  BY Typed DEF PlayerRecords
<1>4. PICK l \in BOOLEAN : l = ReleasedLatch(c)
  BY <1>2, <1>3 DEF ReleasedLatch
<1>5. PICK p \in PlayerRecords :
          /\ dev' = [dev EXCEPT ![d] = p] /\ p.latch = l
          /\ p.mine = dev[d].mine /\ p.sheet = dev[d].sheet /\ p.phase = dev[d].phase
  <2>1. [dev[d] EXCEPT !.latch = l] \in PlayerRecords
    BY <1>3 DEF PlayerRecords
  <2>2. dev' = [dev EXCEPT ![d] = [dev[d] EXCEPT !.latch = l]]
    BY <1>2, <1>4, Typed
  <2> QED BY <1>3, <2>1, <2>2 DEF PlayerRecords
<1>6. Submits(call[c], d) <=> call[c].kind # "start"
  BY <1>1, <1>2, DevicesAreTwoKinds DEF Submits, CallRecords, Consistent
<1>7. IF Submits(call[c], d) THEN p.latch <=> p.phase = "result"
      ELSE p.latch = dev[d].latch /\ (p.phase = "result" <=> dev[d].phase = "result")
  <2>1. CASE Submits(call[c], d)
    <3>1. dev[d].phase = "running" /\ l = FALSE
      BY <1>2, <1>4, <1>6, <2>1, Awaited DEF ReleasedLatch
    <3> QED BY <1>5, <2>1, <3>1
  <2>2. CASE ~Submits(call[c], d)
    <3>1. l = dev[d].latch
      BY <1>2, <1>4, <1>6, <2>2 DEF ReleasedLatch
    <3> QED BY <1>5, <2>2, <3>1
  <2> QED BY <2>1, <2>2
<1>8. p.mine # 0 => Opened(att, p.mine)
  BY <1>5, Awaited
<1> QED
  BY <1>2, <1>5, <1>7, <1>8, AwaitsNoMore

LEMMA FailedKeeps == ASSUME SittingInv, NEW c \in Calls, Failed(c) PROVE SittingInv'
<1>1. call[c].dev # NoDev
  BY Typed DEF Failed, Consistent
<1> QED
  BY <1>1, LatchFalls, Typed, FreeCallTyped, FreeCallIsNobodys DEF Failed

LEMMA GaveUpKeeps == ASSUME SittingInv, NEW c \in Calls, GaveUp(c) PROVE SittingInv'
<1>1. faults' \in 0..MaxFaults
  BY Typed, SittingAssumption DEF GaveUp
<1>2. PICK r \in CallRecords : r = Detached(c) /\ r.dev = NoDev /\ Consistent(att, r)
  BY DetachedConsistent
<1> QED
  BY <1>1, <1>2, LatchFalls DEF GaveUp

-----------------------------------------------------------------------------
(* Steps of a player with none or several of its calls.                     *)

(* Only the player changes.                                                 *)
LEMMA PlayerMoves ==
    ASSUME SittingInv, NEW d \in Devices, NEW p \in PlayerRecords,
           dev' = [dev EXCEPT ![d] = p], att' = att, call' = call, faults' = faults,
           p.mine # 0 => Opened(att, p.mine),
           p.phase = dev[d].phase \/ \A e \in Calls : ~Of(call[e], d),
           p.latch <=> (\E e \in Calls : Submits(call[e], d)) \/ p.phase = "result",
           p.sheet = dev[d].sheet \/ d \notin Phones \/ \A e \in Calls : ~Submits(call[e], d)
    PROVE  SittingInv'
<1>1. /\ call' \in [Calls -> CallRecords] /\ faults' \in 0..MaxFaults
      /\ \A e \in Calls : Consistent(att, call'[e])
  BY Typed
<1>2. \A e1, e2 \in Calls : Of(call'[e1], d) /\ Of(call'[e2], d) => e1 = e2
  BY Awaited
<1>3. \A e \in Calls : Of(call'[e], d) =>
          p.phase = IF call'[e].kind = "start" THEN "brief" ELSE "running"
  BY Awaited
<1>4. d \in Phones => \A e \in Calls : call'[e].dev = d => Carries(call'[e], p.sheet)
  BY Awaited DEF Carries, Submits
<1>5. p.latch <=> (\E e \in Calls : Submits(call'[e], d)) \/ p.phase = "result"
  OBVIOUS
<1> QED
  BY <1>1, <1>2, <1>3, <1>4, <1>5, DeviceMoves

LEMMA ChooseKeeps == ASSUME SittingInv, NEW d \in Devices, Choose(d) PROVE SittingInv'
<1>1. PICK q \in Questions, o \in Options : dev' = [dev EXCEPT ![d].sheet[q] = o]
  BY DEF Choose
<1>2. /\ dev[d].phase = "running" /\ (d \in Phones => ~Submitting(d))
      /\ att' = att /\ call' = call /\ faults' = faults
  BY DEF Choose, MayChoose
<1>3. dev[d] \in PlayerRecords /\ dev[d].sheet \in Sheets
  BY Typed DEF PlayerRecords
<1>4. PICK sheet \in Sheets : sheet = [dev[d].sheet EXCEPT ![q] = o]
  BY <1>3 DEF Sheets
<1>5. PICK p \in PlayerRecords :
          /\ dev' = [dev EXCEPT ![d] = p] /\ p.mine = dev[d].mine
          /\ p.phase = "running" /\ p.latch = dev[d].latch
  <2>1. [dev[d] EXCEPT !.sheet = sheet] \in PlayerRecords
    BY <1>3 DEF PlayerRecords
  <2>2. dev' = [dev EXCEPT ![d] = [dev[d] EXCEPT !.sheet = sheet]]
    BY <1>1, <1>4, Typed
  <2> QED BY <1>2, <1>3, <2>1, <2>2 DEF PlayerRecords
<1>6. d \notin Phones \/ \A e \in Calls : ~Submits(call[e], d)
  BY <1>2 DEF Submitting, Awaits, Submits
<1>7. p.latch <=> (\E e \in Calls : Submits(call[e], d)) \/ p.phase = "result"
  BY <1>2, <1>5, Awaited
<1>8. p.mine # 0 => Opened(att, p.mine)
  BY <1>5, Awaited
<1> QED
  BY <1>2, <1>5, <1>6, <1>7, <1>8, PlayerMoves

LEMMA AgainKeeps == ASSUME SittingInv, NEW w \in Devices, Again(w) PROVE SittingInv'
<1>1. /\ dev[w].phase = "result" /\ dev' = [dev EXCEPT ![w] = Fresh(w)]
      /\ att' = att /\ call' = call /\ faults' = faults
  BY DEF Again
<1>2. PICK p \in PlayerRecords : /\ p = Fresh(w) /\ p.mine = 0 /\ ~p.latch
                                 /\ p.phase \in {"brief", "loading"}
  BY FreshTyped
<1>3. \A e \in Calls : ~Of(call[e], w) /\ ~Submits(call[e], w)
  BY <1>1, Awaited
<1> QED
  BY <1>1, <1>2, <1>3, PlayerMoves

LEMMA LeaveKeeps == ASSUME SittingInv, NEW d \in Devices, Leave(d) PROVE SittingInv'
<1>1. /\ dev' = [dev EXCEPT ![d] = Fresh(d)] /\ att' = att /\ faults' = faults
      /\ call' = [c \in Calls |-> IF call[c].dev # d THEN call[c] ELSE Detached(c)]
  BY DEF Leave
<1>2. PICK p \in PlayerRecords : /\ p = Fresh(d) /\ p.mine = 0 /\ ~p.latch
                                 /\ p.phase \in {"brief", "loading"}
  BY FreshTyped
<1>3. \A c \in Calls : IF call[c].dev # d THEN call'[c] = call[c]
                       ELSE call'[c].dev = NoDev
  BY <1>1, DetachedConsistent
<1>4. \A c \in Calls : call'[c] \in CallRecords /\ Consistent(att, call'[c])
  BY <1>1, DetachedConsistent, Typed
<1>5. call' \in [Calls -> CallRecords]
  BY <1>1, <1>4
<1>6. \A c \in Calls : call'[c].dev # d
  BY <1>3, DevicesAreTwoKinds
<1>7. \A c \in Calls : ~Of(call'[c], d) /\ ~Submits(call'[c], d)
  BY <1>6 DEF Of, Submits
<1>8. \A c \in Calls : call'[c] = call[c]
                         \/ (call[c].dev \in {d, NoDev} /\ call'[c].dev \in {d, NoDev})
  BY <1>3
<1> QED
  BY <1>1, <1>2, <1>4, <1>5, <1>6, <1>7, <1>8, Typed, DeviceMoves

LEMMA RetryKeeps == ASSUME SittingInv, NEW p \in Devices, Retry(p) PROVE SittingInv'
<1>1. PICK c, e \in Calls :
          /\ call[c] = FreeCall /\ call[e] = FreeCall
          /\ call' = [x \in Calls |-> IF x \in {c, e}
                                      THEN [Request(p, "start", 0, BlankSheet)
                                              EXCEPT !.stage = "paper"]
                                      ELSE call[x]]
  BY DEF Retry
<1>2. /\ p \in Phones /\ dev[p].phase = "failed" /\ att' = att /\ faults' = faults
      /\ dev' = [dev EXCEPT ![p].phase = "loading"]
  BY DEF Retry
<1>3. PICK r \in CallRecords :
          /\ r = [Request(p, "start", 0, BlankSheet) EXCEPT !.stage = "paper"]
          /\ r.kind = "start" /\ r.stage = "paper" /\ r.dev = p
  BY PaperTyped
<1>4. \A x \in Calls : call'[x] = IF x \in {c, e} THEN r ELSE call[x]
  BY <1>1, <1>3
<1>5. call' \in [Calls -> CallRecords]
  BY <1>1, <1>3, Typed
<1>6. dev[p] \in PlayerRecords
  BY Typed
<1>7. PICK s \in PlayerRecords :
          /\ dev' = [dev EXCEPT ![p] = s] /\ s.phase = "loading"
          /\ s.mine = dev[p].mine /\ s.latch = dev[p].latch
  <2>1. [dev[p] EXCEPT !.phase = "loading"] \in PlayerRecords
    BY <1>6 DEF PlayerRecords
  <2>2. dev' = [dev EXCEPT ![p] = [dev[p] EXCEPT !.phase = "loading"]]
    BY <1>2, Typed
  <2> QED BY <1>6, <2>1, <2>2 DEF PlayerRecords
<1>8. Consistent(att, r)
  BY <1>2, <1>3, DevicesAreTwoKinds DEF Consistent
<1>9. \A x \in Calls : Consistent(att, call'[x])
  BY <1>4, <1>8, Typed
<1>10. \A x \in Calls : ~Of(call[x], p) /\ ~Submits(call[x], p)
  BY <1>2, Awaited
<1>11. ~Of(r, p) /\ ~Submits(r, p) /\ \A sheet : Carries(r, sheet)
  BY <1>2, <1>3, DevicesAreTwoKinds DEF Of, Exclusive, Submits, Carries
<1>12. \A x \in Calls : ~Of(call'[x], p) /\ ~Submits(call'[x], p)
  BY <1>4, <1>10, <1>11
<1>13. \A x \in Calls : call'[x].dev = p => Carries(call'[x], s.sheet)
  BY <1>4, <1>10, <1>11 DEF Submits, Carries
<1>14. \A x \in Calls : call'[x] = call[x]
                          \/ (call[x].dev \in {p, NoDev} /\ call'[x].dev \in {p, NoDev})
  BY <1>1, <1>3, <1>4, FreeCallIsNobodys
<1>15. /\ s.mine # 0 => Opened(att, s.mine)
       /\ ~s.latch
  BY <1>2, <1>7, <1>10, Awaited
<1> QED
  BY <1>2, <1>5, <1>7, <1>9, <1>12, <1>13, <1>14, <1>15, Typed, DeviceMoves

LEMMA ResendKeeps == ASSUME SittingInv, NEW c \in Calls, Resend(c) PROVE SittingInv'
<1>1. PICK e \in Calls :
          /\ call[e] = FreeCall
          /\ call' = [call EXCEPT
                ![c].dev = NoDev,
                ![e] = [Request(call[c].dev, call[c].kind, call[c].att, call[c].sheet)
                          EXCEPT !.tries = 1]]
  BY DEF Resend, Free
<1>2. PICK d \in Phones : d = call[c].dev
  BY DEF Resend
<1>3. /\ d \in Devices /\ dev' = dev /\ att' = att /\ faults' \in 0..MaxFaults
      /\ call[c].stage \in {"sent", "check", "write", "create"} /\ call[c].kind # "review"
  BY Typed, SittingAssumption DEF Resend, Devices
<1>4. /\ call[c] \in CallRecords /\ Consistent(att, call[c])
      /\ call[c].kind \in {"start", "submit"} /\ call[c].att \in 0..MaxAttempts
      /\ call[c].sheet \in Sheets
  BY <1>3, Typed DEF CallRecords, Consistent
<1>5. PICK r \in CallRecords :
          /\ r = [Request(d, call[c].kind, call[c].att, call[c].sheet) EXCEPT !.tries = 1]
          /\ r.kind = call[c].kind /\ r.stage = "sent" /\ r.dev = d
          /\ r.att = call[c].att /\ r.sheet = call[c].sheet
  <2>1. PICK q \in CallRecords :
            /\ q = Request(d, call[c].kind, call[c].att, call[c].sheet)
            /\ q.kind = call[c].kind /\ q.stage = "sent" /\ q.dev = d
            /\ q.att = call[c].att /\ q.sheet = call[c].sheet
    BY <1>3, <1>4, RequestTyped
  <2>2. [q EXCEPT !.tries = 1] \in CallRecords
    BY DEF CallRecords
  <2> QED BY <2>1, <2>2 DEF CallRecords
<1>6. PICK s \in CallRecords :
          /\ s = [call[c] EXCEPT !.dev = NoDev] /\ s.dev = NoDev
          /\ s.kind = call[c].kind /\ s.stage = call[c].stage /\ s.att = call[c].att
  <2>1. [call[c] EXCEPT !.dev = NoDev] \in CallRecords
    BY <1>4 DEF CallRecords
  <2> QED BY <1>4, <2>1 DEF CallRecords
<1>7. c # e /\ call[e].dev = NoDev
  BY <1>1, <1>4, FreeCallIsNobodys DEF FreeCall
<1>8. /\ call'[c] = s /\ call'[e] = r
      /\ \A x \in Calls : x # c /\ x # e => call'[x] = call[x]
  BY <1>1, <1>2, <1>5, <1>6, <1>7, Typed
<1>9. call' \in [Calls -> CallRecords]
  BY <1>1, <1>2, <1>5, <1>6, <1>7, Typed
<1>10. Consistent(att, r) /\ Consistent(att, s)
  BY <1>3, <1>4, <1>5, <1>6, DevicesAreTwoKinds DEF Consistent
<1>11. \A x \in Calls : Consistent(att, call'[x])
  BY <1>8, <1>10, Typed
<1>12. \A x \in Calls : call'[x] = call[x]
                          \/ (call[x].dev \in {d, NoDev} /\ call'[x].dev \in {d, NoDev})
  BY <1>2, <1>5, <1>6, <1>7, <1>8
<1>13. /\ Of(r, d) <=> Of(call[c], d)
       /\ Submits(r, d) <=> Submits(call[c], d)
       /\ ~Of(s, d) /\ ~Submits(s, d)
       /\ ~Of(call[e], d) /\ ~Submits(call[e], d)
  BY <1>2, <1>5, <1>6, <1>7, DevicesAreTwoKinds DEF Of, Exclusive, Submits
<1>14. \A x, y \in Calls : Of(call'[x], d) /\ Of(call'[y], d) => x = y
  <2>1. \A x \in Calls : Of(call'[x], d) =>
            \/ x = e /\ Of(call[c], d)
            \/ x # c /\ Of(call[x], d)
    BY <1>8, <1>13
  <2>2. \A x, y \in Calls : Of(call[x], d) /\ Of(call[y], d) => x = y
    BY <1>3, Awaited
  <2> QED BY <2>1, <2>2
<1>15. \A x \in Calls : Of(call'[x], d) =>
           dev[d].phase = IF call'[x].kind = "start" THEN "brief" ELSE "running"
  <2>1. \A x \in Calls : Of(call'[x], d) =>
            \E y \in Calls : Of(call[y], d) /\ call[y].kind = call'[x].kind
    BY <1>5, <1>8, <1>13
  <2>2. \A y \in Calls : Of(call[y], d) =>
            dev[d].phase = IF call[y].kind = "start" THEN "brief" ELSE "running"
    BY <1>3, Awaited
  <2> QED BY <2>1, <2>2
<1>16. dev[d].latch <=> (\E x \in Calls : Submits(call'[x], d)) \/ dev[d].phase = "result"
  BY <1>3, <1>8, <1>13, Awaited
<1>17. \A x \in Calls : call'[x].dev = d => Carries(call'[x], dev[d].sheet)
  <2>1. Carries(r, dev[d].sheet)
    <3>1. CASE call[c].kind = "submit"
      <4>1. call[c].stage \in {"sent", "write"}
        BY <1>3, <1>4, <3>1 DEF Consistent
      <4> QED BY <1>2, <1>3, <1>5, <3>1, <4>1, Awaited DEF Carries
    <3>2. CASE call[c].kind # "submit"
      BY <1>5, <3>2 DEF Carries
    <3> QED BY <3>1, <3>2
  <2>2. \A x \in Calls : call[x].dev = d => Carries(call[x], dev[d].sheet)
    BY <1>3, Awaited
  <2>3. s.dev # d
    BY <1>3, <1>6, DevicesAreTwoKinds
  <2> QED BY <1>8, <2>1, <2>2, <2>3
<1>18. /\ dev' = [dev EXCEPT ![d] = dev[d]] /\ dev[d] \in PlayerRecords
       /\ dev[d].mine # 0 => Opened(att, dev[d].mine)
  BY <1>3, Typed, Awaited
<1> QED
  BY <1>3, <1>9, <1>11, <1>12, <1>14, <1>15, <1>16, <1>17, <1>18, DeviceMoves

-----------------------------------------------------------------------------
(* The server.                                                              *)

LEMMA QuietServer ==
    ASSUME SittingInv, att' = att
    PROVE  Grown /\ NoSecondSitting' /\ att' \in [Attempts -> AttemptRecords]
  BY Typed DEF Grown, SittingInv, NoSecondSitting

(* A call that goes on to its next step.                                    *)
LEMMA NextStage ==
    ASSUME SittingInv, NEW c \in Calls, NEW stage \in {"check", "write", "create"},
           NEW a \in 0..MaxAttempts
    PROVE  \E r \in CallRecords :
              /\ r = [call[c] EXCEPT !.stage = stage, !.att = a]
              /\ r.stage = stage /\ r.att = a /\ r.kind = call[c].kind
              /\ r.dev = call[c].dev /\ r.sheet = call[c].sheet
<1>1. call[c] \in CallRecords
  BY Typed
<1>2. [call[c] EXCEPT !.stage = stage, !.att = a] \in CallRecords
  BY <1>1 DEF CallRecords
<1> QED
  BY <1>1, <1>2 DEF CallRecords

LEMMA NextStageOnly ==
    ASSUME SittingInv, NEW c \in Calls, NEW stage \in {"check", "write", "create"}
    PROVE  \E r \in CallRecords :
              /\ r = [call[c] EXCEPT !.stage = stage]
              /\ r.stage = stage /\ r.att = call[c].att /\ r.kind = call[c].kind
              /\ r.dev = call[c].dev /\ r.sheet = call[c].sheet
<1>1. call[c] \in CallRecords
  BY Typed
<1>2. [call[c] EXCEPT !.stage = stage] \in CallRecords
  BY <1>1 DEF CallRecords
<1> QED
  BY <1>1, <1>2 DEF CallRecords

LEMMA ServeStartKeeps == ASSUME SittingInv, NEW c \in Calls, ServeStart(c) PROVE SittingInv'
<1>1. /\ call[c] \in CallRecords /\ Consistent(att, call[c])
      /\ call[c].kind = "start" /\ call[c].stage = "sent"
      /\ att' = att /\ dev' = dev /\ faults' \in 0..MaxFaults /\ call[c].att \in 0..MaxAttempts
  BY Typed DEF ServeStart, CallRecords
<1>2. CASE Open = {} /\ call' = [call EXCEPT ![c].stage = "create"]
  <2>1. PICK r \in CallRecords :
            /\ r = [call[c] EXCEPT !.stage = "create"]
            /\ r.stage = "create" /\ r.kind = call[c].kind /\ r.dev = call[c].dev
    BY NextStageOnly
  <2>2. call' = [call EXCEPT ![c] = r]
    BY <1>2, <2>1, Typed
  <2>3. Consistent(att', r)
    BY <1>1, <2>1 DEF Consistent
  <2> QED BY <1>1, <2>1, <2>2, <2>3, QuietServer, CallMoves
<1>3. CASE \E a \in Open : call' = [call EXCEPT ![c] =
                IF Lapsed(a) THEN [call[c] EXCEPT !.stage = "check", !.att = a]
                             ELSE Reply(c, "ok", a)]
  <2>1. PICK a \in Open : call' = [call EXCEPT ![c] =
                IF Lapsed(a) THEN [call[c] EXCEPT !.stage = "check", !.att = a]
                             ELSE Reply(c, "ok", a)]
    BY <1>3
  <2>2. Opened(att, a) /\ a \in 0..MaxAttempts
    BY SittingAssumption DEF Open, Opened, Attempts
  <2>3. CASE Lapsed(a)
    <3>1. PICK r \in CallRecords :
              /\ r = [call[c] EXCEPT !.stage = "check", !.att = a]
              /\ r.stage = "check" /\ r.att = a /\ r.kind = call[c].kind
              /\ r.dev = call[c].dev /\ r.sheet = call[c].sheet
      <4>1. \A x \in 0..MaxAttempts : \E r \in CallRecords :
                /\ r = [call[c] EXCEPT !.stage = "check", !.att = x]
                /\ r.stage = "check" /\ r.att = x /\ r.kind = call[c].kind
                /\ r.dev = call[c].dev /\ r.sheet = call[c].sheet
        BY NextStage
      <4> QED BY <2>2, <4>1
    <3>2. Consistent(att', r)
      BY <1>1, <2>2, <2>3, <3>1 DEF Consistent, Lapsed
    <3> QED BY <1>1, <2>1, <2>3, <3>1, <3>2, QuietServer, CallMoves
  <2>4. CASE ~Lapsed(a)
    <3>1. PICK r \in CallRecords :
              /\ r = Reply(c, "ok", a) /\ Consistent(att, r) /\ r.stage \in {"none", "ok"}
              /\ \/ r.dev = call[c].dev /\ r.kind = call[c].kind
                 \/ r = FreeCall /\ call[c].dev = NoDev
      BY <1>1, <2>2, ReplyConsistent
    <3> QED BY <1>1, <2>1, <2>4, <3>1, FreeCallIsNobodys, QuietServer, CallMoves
  <2> QED BY <2>3, <2>4
<1> QED
  BY <1>2, <1>3 DEF ServeStart

LEMMA ServeCheckKeeps == ASSUME SittingInv, NEW c \in Calls, ServeCheck(c) PROVE SittingInv'
<1>1. /\ call[c] \in CallRecords /\ Consistent(att, call[c])
      /\ call[c].stage = "check" \/ (call[c].stage = "sent" /\ call[c].kind = "submit")
      /\ att' = att /\ dev' = dev /\ faults' \in 0..MaxFaults
  BY Typed DEF ServeCheck
<1>2. /\ call[c].att \in 0..MaxAttempts /\ Opened(att, call[c].att)
      /\ call[c].kind \in {"start", "submit"}
      /\ call[c].kind = "start" => call[c].stage = "check" /\ att[call[c].att].due
  BY <1>1 DEF CallRecords, Consistent
<1>3. CASE att[call[c].att].st # "marked"
  <2>1. PICK r \in CallRecords :
            /\ r = [call[c] EXCEPT !.stage = "write"]
            /\ r.stage = "write" /\ r.att = call[c].att /\ r.kind = call[c].kind
            /\ r.dev = call[c].dev /\ r.sheet = call[c].sheet
    BY NextStageOnly
  <2>2. call' = [call EXCEPT ![c] = r]
    BY <1>3, <2>1, Typed DEF ServeCheck
  <2>3. Consistent(att', r)
    BY <1>1, <1>2, <2>1 DEF Consistent
  <2>4. r.kind = "submit" => call[c].stage \in {"sent", "write"}
    BY <1>1, <2>1 DEF Consistent
  <2> QED BY <1>1, <2>1, <2>2, <2>3, <2>4, QuietServer, CallMoves
<1>4. CASE att[call[c].att].st = "marked" /\ call[c].kind = "submit"
  <2>1. PICK r \in CallRecords :
            /\ r = Reply(c, "ok", call[c].att) /\ Consistent(att, r) /\ r.stage \in {"none", "ok"}
            /\ \/ r.dev = call[c].dev /\ r.kind = call[c].kind
               \/ r = FreeCall /\ call[c].dev = NoDev
    BY <1>2, <1>4, ReplyConsistent
  <2>2. call' = [call EXCEPT ![c] = r]
    BY <1>4, <2>1, Typed DEF ServeCheck
  <2> QED BY <1>1, <2>1, <2>2, FreeCallIsNobodys, QuietServer, CallMoves
<1>5. CASE att[call[c].att].st = "marked" /\ call[c].kind # "submit"
  <2>1. PICK r \in CallRecords :
            /\ r = [call[c] EXCEPT !.stage = "create"]
            /\ r.stage = "create" /\ r.kind = call[c].kind /\ r.dev = call[c].dev
    BY NextStageOnly
  <2>2. call' = [call EXCEPT ![c] = r]
    BY <1>5, <2>1, Typed DEF ServeCheck
  <2>3. Consistent(att', r)
    BY <1>1, <1>2, <1>5, <2>1 DEF Consistent
  <2> QED BY <1>1, <2>1, <2>2, <2>3, QuietServer, CallMoves
<1> QED
  BY <1>3, <1>4, <1>5

LEMMA ServeWriteKeeps == ASSUME SittingInv, NEW c \in Calls, ServeWrite(c) PROVE SittingInv'
<1>1. /\ call[c] \in CallRecords /\ Consistent(att, call[c]) /\ call[c].stage = "write"
      /\ dev' = dev /\ faults' \in 0..MaxFaults
  BY Typed DEF ServeWrite
<1>2. PICK a \in Attempts : a = call[c].att /\ att[a].st # "none" /\ a \in 0..MaxAttempts
  BY <1>1 DEF Consistent, Opened, CallRecords
<1>3. att' = [att EXCEPT ![a].st = "marked", ![a].sheet = call[c].sheet]
  BY <1>2 DEF ServeWrite
<1>4. att[a] \in AttemptRecords /\ call[c].sheet \in Sheets /\ call[c].kind \in {"start", "submit"}
  BY <1>1, <1>2, Typed DEF CallRecords, Consistent
<1>5. PICK m \in AttemptRecords : /\ att' = [att EXCEPT ![a] = m] /\ m.st = "marked"
                                  /\ m.due = att[a].due
  <2>1. [att[a] EXCEPT !.st = "marked", !.sheet = call[c].sheet] \in AttemptRecords
    BY <1>4 DEF AttemptRecords
  <2>2. att' = [att EXCEPT ![a] = [att[a] EXCEPT !.st = "marked", !.sheet = call[c].sheet]]
    BY <1>3, Typed
  <2> QED BY <1>4, <2>1, <2>2 DEF AttemptRecords
<1>6. att'[a] = m /\ \A b \in Attempts : b # a => att'[b] = att[b]
  BY <1>5, Typed
<1>7. att' \in [Attempts -> AttemptRecords] /\ Grown
  BY <1>5, <1>6, Typed DEF Grown
<1>8. NoSecondSitting'
  BY <1>2, <1>5, <1>6 DEF SittingInv, NoSecondSitting
<1>9. Opened(att', a)
  BY <1>5, <1>6 DEF Opened
<1>10. CASE call[c].kind = "submit"
  <2>1. PICK r \in CallRecords :
            /\ r = Reply(c, "ok", a) /\ Consistent(att', r) /\ r.stage \in {"none", "ok"}
            /\ \/ r.dev = call[c].dev /\ r.kind = call[c].kind
               \/ r = FreeCall /\ call[c].dev = NoDev
    BY <1>2, <1>9, <1>10, ReplyConsistent
  <2>2. call' = [call EXCEPT ![c] = r]
    BY <1>2, <1>10, <2>1 DEF ServeWrite
  <2> QED BY <1>1, <1>7, <1>8, <2>1, <2>2, FreeCallIsNobodys, CallMoves
<1>11. CASE call[c].kind = "start"
  <2>1. PICK r \in CallRecords :
            /\ r = [call[c] EXCEPT !.stage = "create"]
            /\ r.stage = "create" /\ r.kind = call[c].kind /\ r.dev = call[c].dev
    BY NextStageOnly
  <2>2. call' = [call EXCEPT ![c] = r]
    BY <1>11, <2>1 DEF ServeWrite
  <2>3. Consistent(att', r)
    BY <1>1, <1>11, <2>1 DEF Consistent
  <2> QED BY <1>1, <1>7, <1>8, <2>1, <2>2, <2>3, CallMoves
<1> QED
  BY <1>4, <1>10, <1>11

LEMMA ServeCreateKeeps == ASSUME SittingInv, NEW c \in Calls, ServeCreate(c) PROVE SittingInv'
<1>1. /\ call[c] \in CallRecords /\ Consistent(att, call[c]) /\ call[c].stage = "create"
      /\ call[c].kind = "start" /\ dev' = dev /\ faults' \in 0..MaxFaults
  BY Typed DEF ServeCreate, Consistent
<1>2. ASSUME NEW a \in Attempts, Open = {}, att[a].st = "none",
             \A b \in Attempts : b < a => att[b].st # "none",
             att' = [att EXCEPT ![a].st = "open"],
             call' = [call EXCEPT ![c] = Reply(c, "ok", a)]
      PROVE  SittingInv'
  <2>1. att[a] \in AttemptRecords /\ a \in 0..MaxAttempts
    BY Typed, SittingAssumption DEF Attempts
  <2>2. PICK m \in AttemptRecords : /\ att' = [att EXCEPT ![a] = m] /\ m.st = "open"
                                    /\ m.due = att[a].due
    <3>1. [att[a] EXCEPT !.st = "open"] \in AttemptRecords
      BY <2>1 DEF AttemptRecords
    <3>2. att' = [att EXCEPT ![a] = [att[a] EXCEPT !.st = "open"]]
      BY <1>2, Typed
    <3> QED BY <2>1, <3>1, <3>2 DEF AttemptRecords
  <2>3. att'[a] = m /\ \A b \in Attempts : b # a => att'[b] = att[b]
    BY <2>2, Typed
  <2>4. att' \in [Attempts -> AttemptRecords] /\ Grown
    BY <1>2, <2>2, <2>3, Typed DEF Grown
  <2>5. \A b \in Attempts : att[b].st \in {"none", "marked"}
    BY <1>2, Typed DEF Open, AttemptRecords
  <2>6. \A b \in Attempts : a < b => att[b].st = "none"
    BY <1>2 DEF SittingInv, NoSecondSitting
  <2>7. NoSecondSitting'
    <3> SUFFICES ASSUME NEW x \in Attempts, NEW y \in Attempts, x < y, att'[y].st # "none"
                 PROVE  att'[x].st = "marked"
      BY DEF NoSecondSitting
    <3>1. CASE y = a
      BY <1>2, <2>3, <2>5, <3>1, SittingAssumption DEF Attempts
    <3>2. CASE y # a
      <4>1. att[y].st # "none"
        BY <2>3, <3>2
      <4>2. att[x].st = "marked"
        BY <4>1 DEF SittingInv, NoSecondSitting
      <4> QED BY <1>2, <2>3, <4>2
    <3> QED BY <3>1, <3>2
  <2>8. Opened(att', a)
    BY <2>2, <2>3 DEF Opened
  <2>9. PICK r \in CallRecords :
            /\ r = Reply(c, "ok", a) /\ Consistent(att', r) /\ r.stage \in {"none", "ok"}
            /\ \/ r.dev = call[c].dev /\ r.kind = call[c].kind
               \/ r = FreeCall /\ call[c].dev = NoDev
    BY <1>1, <2>1, <2>8, ReplyConsistent
  <2> QED
    BY <1>1, <1>2, <2>4, <2>7, <2>9, FreeCallIsNobodys, CallMoves
<1>3. ASSUME call' = [call EXCEPT ![c] = Reply(c, "failed", 0)], att' = att
      PROVE  SittingInv'
  <2>1. PICK r \in CallRecords :
            /\ r = Reply(c, "failed", 0) /\ Consistent(att, r) /\ r.stage \in {"none", "failed"}
            /\ \/ r.dev = call[c].dev /\ r.kind = call[c].kind
               \/ r = FreeCall /\ call[c].dev = NoDev
    BY <1>1, ReplyConsistent, SittingAssumption
  <2> QED
    BY <1>1, <1>3, <2>1, FreeCallIsNobodys, QuietServer, CallMoves
<1> QED
  BY <1>2, <1>3 DEF ServeCreate, IndexAllows

LEMMA ServeReviewKeeps == ASSUME SittingInv, NEW c \in Calls, ServeReview(c) PROVE SittingInv'
<1>1. /\ call[c] \in CallRecords /\ Consistent(att, call[c]) /\ call[c].kind = "review"
      /\ att' = att /\ dev' = dev /\ faults' \in 0..MaxFaults
      /\ call' = [call EXCEPT ![c] = Reply(c, "ok", call[c].att)]
  BY Typed DEF ServeReview
<1>2. Opened(att, call[c].att) /\ call[c].att \in 0..MaxAttempts
  BY <1>1 DEF Consistent, CallRecords
<1>3. PICK r \in CallRecords :
          /\ r = Reply(c, "ok", call[c].att) /\ Consistent(att, r) /\ r.stage \in {"none", "ok"}
          /\ \/ r.dev = call[c].dev /\ r.kind = call[c].kind
             \/ r = FreeCall /\ call[c].dev = NoDev
  BY <1>1, <1>2, ReplyConsistent
<1> QED
  BY <1>1, <1>3, FreeCallIsNobodys, QuietServer, CallMoves

LEMMA CancelKeeps == ASSUME SittingInv, NEW c \in Calls, Cancel(c) PROVE SittingInv'
  BY Cancelled, Typed DEF Cancel

LEMMA TimeUpKeeps == ASSUME SittingInv, NEW a \in Attempts, TimeUp(a) PROVE SittingInv'
<1>1. /\ att' = [att EXCEPT ![a].due = TRUE] /\ call' = call /\ dev' = dev /\ faults' = faults
      /\ att[a] \in AttemptRecords
  BY Typed DEF TimeUp
<1>2. PICK m \in AttemptRecords : /\ att' = [att EXCEPT ![a] = m] /\ m.st = att[a].st
                                  /\ m.due = TRUE
  <2>1. [att[a] EXCEPT !.due = TRUE] \in AttemptRecords
    BY <1>1 DEF AttemptRecords
  <2>2. att' = [att EXCEPT ![a] = [att[a] EXCEPT !.due = TRUE]]
    BY <1>1, Typed
  <2> QED BY <1>1, <2>1, <2>2 DEF AttemptRecords
<1>3. att'[a] = m /\ \A b \in Attempts : b # a => att'[b] = att[b]
  BY <1>2, Typed
<1>4. att' \in [Attempts -> AttemptRecords] /\ Grown
  BY <1>2, <1>3, Typed DEF Grown
<1>5. \A b \in Attempts : att'[b].st = att[b].st
  BY <1>2, <1>3
<1>6. NoSecondSitting'
  BY <1>5 DEF SittingInv, NoSecondSitting
<1>7. CallsConsistent' /\ PlayersHold'
  BY <1>1, <1>4, <1>5, GrownKeeps DEF SittingInv, CallsConsistent, PlayersHold, Opened
<1>8. SittingTypeOK'
  BY <1>1, <1>4 DEF SittingInv, SittingTypeOK
<1>9. OneAwaited' /\ AwaitedInPhase' /\ LatchMatchesFlight' /\ PhoneShowsWhatItSent'
  BY <1>1 DEF SittingInv, OneAwaited, AwaitedInPhase, LatchMatchesFlight, Submitting, Awaits,
              PhoneShowsWhatItSent
<1> QED
  BY <1>6, <1>7, <1>8, <1>9 DEF SittingInv

-----------------------------------------------------------------------------
(* The invariant.                                                           *)

LEMMA InitHolds == ASSUME Init PROVE SittingInv
<1>1. /\ att = [a \in Attempts |-> [st |-> "none", sheet |-> BlankSheet, due |-> FALSE]]
      /\ call = [c \in Calls |-> FreeCall] /\ dev = [d \in Devices |-> Fresh(d)] /\ faults = 0
  BY DEF Init
<1>2. SittingTypeOK
  <2>1. [st |-> "none", sheet |-> BlankSheet, due |-> FALSE] \in AttemptRecords
    BY BlankSheetTyped DEF AttemptRecords
  <2>2. att \in [Attempts -> AttemptRecords]
    BY <1>1, <2>1
  <2>3. call \in [Calls -> CallRecords]
    BY <1>1, FreeCallTyped
  <2>4. dev \in [Devices -> PlayerRecords]
    BY <1>1, FreshTyped
  <2>5. faults \in 0..MaxFaults
    BY <1>1, SittingAssumption
  <2> QED BY <2>2, <2>3, <2>4, <2>5 DEF SittingTypeOK
<1>3. \A c \in Calls : call[c] = FreeCall /\ call[c].dev = NoDev
  BY <1>1, FreeCallIsNobodys
<1>4. \A d \in Devices : /\ dev[d].mine = 0 /\ ~dev[d].latch
                         /\ dev[d].phase \in {"brief", "loading"}
  BY <1>1, FreshTyped
<1>5. CallsConsistent /\ PlayersHold
  BY <1>3, <1>4, FreeCallIsNobodys DEF CallsConsistent, PlayersHold
<1>6. OneAwaited /\ AwaitedInPhase /\ PhoneShowsWhatItSent
  BY <1>3, DevicesAreTwoKinds DEF OneAwaited, AwaitedInPhase, PhoneShowsWhatItSent, Exclusive
<1>7. LatchMatchesFlight
  BY <1>3, <1>4, DevicesAreTwoKinds DEF LatchMatchesFlight, Submitting, Awaits
<1>8. NoSecondSitting
  BY <1>1 DEF NoSecondSitting
<1> QED
  BY <1>2, <1>5, <1>6, <1>7, <1>8 DEF SittingInv

LEMMA StutterKeeps == ASSUME SittingInv, UNCHANGED vars PROVE SittingInv'
  BY DEF vars, SittingInv, SittingTypeOK, CallsConsistent, PlayersHold, OneAwaited,
         AwaitedInPhase, LatchMatchesFlight, Submitting, Awaits, PhoneShowsWhatItSent,
         NoSecondSitting

LEMMA StepKeeps == ASSUME SittingInv, [Next]_vars PROVE SittingInv'
<1>1. ASSUME NEW d \in Devices, Begin(d) PROVE SittingInv'
  BY <1>1, BeginKeeps
<1>2. ASSUME NEW d \in Devices, Again(d) PROVE SittingInv'
  BY <1>2, AgainKeeps
<1>3. ASSUME NEW d \in Devices, Leave(d) PROVE SittingInv'
  BY <1>3, LeaveKeeps
<1>4. ASSUME NEW d \in Devices, Choose(d) PROVE SittingInv'
  BY <1>4, ChooseKeeps
<1>5. ASSUME NEW d \in Devices, Submit(d) \/ AutoSubmit(d) PROVE SittingInv'
  BY <1>5, FinishKeeps DEF Submit, AutoSubmit
<1>6. ASSUME NEW d \in Devices, Load(d) PROVE SittingInv'
  BY <1>6, LoadKeeps
<1>7. ASSUME NEW d \in Devices, Retry(d) PROVE SittingInv'
  BY <1>7, RetryKeeps
<1>8. ASSUME NEW c \in Calls, PaperOk(c) \/ PaperFail(c) PROVE SittingInv'
  BY <1>8, PaperOkKeeps, PaperFailKeeps
<1>9. ASSUME NEW c \in Calls, Serve(c) PROVE SittingInv'
  BY <1>9, ServeStartKeeps, ServeCheckKeeps, ServeWriteKeeps, ServeCreateKeeps,
     ServeReviewKeeps DEF Serve
<1>10. ASSUME NEW c \in Calls, Receive(c) PROVE SittingInv'
  BY <1>10, StartedKeeps, MarkedKeeps, ReviewedKeeps, FailedKeeps DEF Receive
<1>11. ASSUME NEW c \in Calls, Cancel(c) PROVE SittingInv'
  BY <1>11, CancelKeeps
<1>12. ASSUME NEW c \in Calls, GaveUp(c) \/ Resend(c) PROVE SittingInv'
  BY <1>12, GaveUpKeeps, ResendKeeps
<1>13. ASSUME NEW a \in Attempts, TimeUp(a) PROVE SittingInv'
  BY <1>13, TimeUpKeeps
<1>14. CASE UNCHANGED vars
  BY <1>14, StutterKeeps
<1> QED
  BY <1>1, <1>2, <1>3, <1>4, <1>5, <1>6, <1>7, <1>8, <1>9, <1>10, <1>11, <1>12, <1>13,
     <1>14 DEF Next, Proceed

(* Whatever the student, the network and the clock do, every request names  *)
(* an attempt it may touch and every player is where its requests say.      *)
THEOREM SittingInvariant == Spec => []SittingInv
<1>1. Init => SittingInv
  BY InitHolds
<1>2. SittingInv /\ [Next]_vars => SittingInv'
  BY StepKeeps
<1> QED
  BY <1>1, <1>2, PTL DEF Spec

(* The records of attempts, requests and players keep their shape.          *)
THEOREM SittingTyped == Spec => []SittingTypeOK
<1>1. SittingInv => SittingTypeOK
  BY DEF SittingInv
<1> QED
  BY <1>1, SittingInvariant, PTL

(* No reload, second device or racing start opens a sitting while another   *)
(* is open: the unique index over unsubmitted attempts is enough, although  *)
(* StartAttempt reads and creates in two steps.                             *)
THEOREM OneSittingAtATime == Spec => []NoSecondSitting
<1>1. SittingInv => NoSecondSitting
  BY DEF SittingInv
<1> QED
  BY <1>1, SittingInvariant, PTL

(* submittedRef is up exactly while a submission is awaited or its result   *)
(* is shown, over any timeouts and resends.                                 *)
THEOREM LatchIsExact == Spec => []LatchMatchesFlight
<1>1. SittingInv => LatchMatchesFlight
  BY DEF SittingInv
<1> QED
  BY <1>1, SittingInvariant, PTL

(* The phone shows the sheet it is having marked, also the second time it   *)
(* sends it.                                                                *)
THEOREM PhoneIsHonest == Spec => []PhoneShowsWhatItSent
<1>1. SittingInv => PhoneShowsWhatItSent
  BY DEF SittingInv
<1> QED
  BY <1>1, SittingInvariant, PTL

(* Only the write of a handler marks an attempt.                            *)
LEMMA OnlyWritesMark ==
    ASSUME SittingInv, [Next]_vars, NEW a \in Attempts, att[a].st = "open",
           att'[a].st = "marked"
    PROVE  \E c \in Calls : ServeWrite(c) /\ call[c].att = a
<1>1. CASE att' = att
  BY <1>1
<1>2. CASE \E b \in Attempts : TimeUp(b)
  <2>1. PICK b \in Attempts : att' = [att EXCEPT ![b].due = TRUE]
    BY <1>2 DEF TimeUp
  <2>2. att[a] \in AttemptRecords
    BY Typed
  <2>3. att'[a].st = att[a].st
    BY <2>1, <2>2, Typed DEF AttemptRecords
  <2> QED BY <2>3
<1>3. CASE \E c \in Calls : ServeCreate(c)
  <2>1. att' = att \/ \E b \in Attempts : att[b].st = "none" /\ att' = [att EXCEPT ![b].st = "open"]
    BY <1>3 DEF ServeCreate
  <2>2. att'[a].st \in {att[a].st, "open"}
    BY <2>1, Typed DEF AttemptRecords
  <2> QED BY <2>2
<1>4. CASE \E c \in Calls : ServeWrite(c)
  <2>1. PICK c \in Calls : ServeWrite(c)
    BY <1>4
  <2>2. call[c].att # a => att'[a] = att[a]
    BY <2>1, Typed DEF ServeWrite
  <2> QED BY <2>1, <2>2
<1>5. \/ att' = att \/ \E b \in Attempts : TimeUp(b)
      \/ \E c \in Calls : ServeCreate(c) \/ ServeWrite(c)
  BY DEF Next, Proceed, Serve, Receive, vars, Begin, Again, Leave, Choose, Submit, AutoSubmit,
         Finish, Load, Retry, PaperOk, PaperFail, GaveUp, Resend, ServeStart, ServeCheck,
         ServeReview, Started, Marked, Reviewed, Failed, Cancel
<1> QED
  BY <1>1, <1>2, <1>3, <1>4, <1>5

(* The server closes an attempt that has time left only for a submission,   *)
(* with the answers it carried: a start that closes one has found it due,   *)
(* and what is due stays due.                                               *)
THEOREM NeverClosedEarly == Spec => NoEarlyClose
<1>1. SittingInv /\ [Next]_vars => [\A a \in Attempts :
          att[a].st = "open" /\ ~att[a].due /\ att'[a].st = "marked" =>
          \E c \in Calls : /\ call[c].kind = "submit" /\ call[c].stage = "write"
                           /\ call[c].att = a /\ att'[a].sheet = call[c].sheet]_vars
  <2> SUFFICES ASSUME SittingInv, [Next]_vars, NEW a \in Attempts,
                      att[a].st = "open", ~att[a].due, att'[a].st = "marked"
               PROVE  \E c \in Calls : /\ call[c].kind = "submit" /\ call[c].stage = "write"
                                       /\ call[c].att = a /\ att'[a].sheet = call[c].sheet
    OBVIOUS
  <2>1. PICK c \in Calls : ServeWrite(c) /\ call[c].att = a
    BY OnlyWritesMark
  <2>2. call[c].stage = "write" /\ Consistent(att, call[c])
    BY <2>1, Typed DEF ServeWrite
  <2>3. call[c].kind = "submit"
    BY <2>1, <2>2 DEF Consistent
  <2>4. att' = [att EXCEPT ![a].st = "marked", ![a].sheet = call[c].sheet] /\ att[a] \in AttemptRecords
    BY <2>1, Typed DEF ServeWrite
  <2>5. att'[a].sheet = call[c].sheet
    BY <2>4, Typed DEF AttemptRecords
  <2> QED BY <2>1, <2>2, <2>3, <2>5
<1> QED
  BY <1>1, SittingInvariant, PTL DEF Spec, NoEarlyClose

-----------------------------------------------------------------------------
(* Papers drawn from the bank.                                              *)


(* A mounted player shows the time to the deadline, or the pacing aid.      *)
LEMMA RemainingTyped ==
    ASSUME BankInv, NEW p \in {paper, NoPaper}, NEW cut \in Cuts
    PROVE  /\ Remaining(p, cut) \in 0..(Limit + Pace)
           /\ p.timed => p.deadline <= now + Remaining(p, cut) + 1
<1>1. paper \in Papers /\ (paper.timed => paper.deadline <= now + Limit) /\ now \in Nat
  BY BankAssumption DEF BankInv, BankTypeOK, IntervalOfRunning
<1>2. /\ p.timed \in BOOLEAN /\ p.deadline \in Nat
      /\ p.timed => p.deadline <= now + Limit
  <2>1. CASE p = NoPaper
    BY <2>1 DEF NoPaper
  <2>2. CASE p = paper
    BY <1>1, <2>2, BankAssumption DEF Papers
  <2> QED BY <2>1, <2>2
<1>3. CASE ~p.timed
  <2>1. Remaining(p, cut) = Pace
    BY <1>2, <1>3 DEF Remaining
  <2> QED BY <1>3, <2>1, BankAssumption
<1>4. CASE p.timed /\ p.deadline > now
  <2>1. Remaining(p, cut) = p.deadline - now - cut /\ cut \in {0, 1}
    BY <1>4 DEF Remaining, Cuts
  <2> QED BY <1>1, <1>2, <1>4, <2>1, BankAssumption
<1>5. CASE p.timed /\ ~(p.deadline > now)
  <2>1. Remaining(p, cut) = 0
    BY <1>5 DEF Remaining
  <2> QED BY <1>1, <1>2, <1>5, <2>1, BankAssumption
<1> QED
  BY <1>3, <1>4, <1>5

LEMMA MountedTyped ==
    ASSUME BankInv, NEW p \in {paper, NoPaper}, NEW cut \in Cuts
    PROVE  Mounted(p, cut) \in Players
  BY RemainingTyped, BankAssumption DEF Mounted, Players

(* finish sends the sheet it is given, unless it is latched already.        *)
LEMMA FinishSends ==
    ASSUME BankInv, NEW p \in Players, NEW sheet \in Answers, NEW auto \in BOOLEAN,
           FinishPaper(p, sheet, auto), p.latch = player.latch, p.phase = "running",
           player.phase = "running", page = "open", page' = page
    PROVE  /\ player' \in Players /\ grade' \in Grades
           /\ player' = [p EXCEPT !.latch = player'.latch, !.error = player'.error]
           /\ LatchOfGrading'
           /\ \/ grade' = grade
              \/ /\ grade.stage = "none"
                 /\ grade' = [stage |-> "sent", auto |-> auto, sheet |-> sheet,
                              screen |-> p.sheet]
<1>1. grade \in Grades /\ LatchOfGrading
  BY DEF BankInv, BankTypeOK
<1>2. CASE p.latch
  <2>1. player' = p /\ grade' = grade
    BY <1>2 DEF FinishPaper
  <2> QED BY <1>1, <2>1 DEF LatchOfGrading, Players
<1>3. CASE ~p.latch
  <2>1. /\ player' = [p EXCEPT !.latch = TRUE, !.error = FALSE]
        /\ grade' = [stage |-> "sent", auto |-> auto, sheet |-> sheet, screen |-> p.sheet]
    BY <1>3 DEF FinishPaper
  <2>2. grade.stage = "none"
    BY <1>1, <1>3 DEF LatchOfGrading
  <2>3. player' \in Players /\ grade' \in Grades
    BY <2>1 DEF Players, Grades
  <2>4. LatchOfGrading'
    BY <2>1 DEF LatchOfGrading, Players
  <2>5. player' = [p EXCEPT !.latch = player'.latch, !.error = player'.error]
    BY <2>1 DEF Players
  <2> QED BY <2>1, <2>2, <2>3, <2>4, <2>5
<1> QED
  BY <1>2, <1>3

-----------------------------------------------------------------------------
(* One lemma per group of actions.                                          *)

LEMMA BankInitHolds == BankInit => BankInv
  BY BankAssumption
     DEF BankInit, BankInv, BankTypeOK, IntervalOfRunning, LatchOfGrading, ClockReachesDeadline,
         Mounted, Remaining, NoPaper, NoGrade, Papers, Players, Grades

(* The page: a draw takes the player and what it waits for with it.         *)
LEMMA PageKeeps ==
    ASSUME BankInv, Pick \/ Redraw \/ Drawn \/ DrawFailed \/ Mount
    PROVE  BankInv'
<1> USE BankAssumption
<1>1. CASE Draw
  <2>1. Mounted(NoPaper, 0) \in Players /\ NoPaper \in Papers /\ NoGrade \in Grades
    BY MountedTyped DEF Cuts, NoPaper, Papers, NoGrade, Grades
  <2>2. /\ page' = "drawing" /\ paper' = NoPaper /\ player' = Mounted(NoPaper, 0)
        /\ grade' = NoGrade /\ UNCHANGED <<now, boot>>
    BY <1>1 DEF Draw
  <2> QED
    BY <2>1, <2>2 DEF BankInv, BankTypeOK, IntervalOfRunning, LatchOfGrading,
       ClockReachesDeadline, Mounted, NoPaper, NoGrade
<1>2. CASE Drawn
  <2>1. PICK timed \in BOOLEAN :
            paper' = [timed |-> timed, deadline |-> IF timed THEN now + Limit ELSE 0,
                      boot |-> boot]
    BY <1>2 DEF Drawn
  <2>2. /\ page = "drawing" /\ page' = "drawn" /\ UNCHANGED <<now, boot, player, grade>>
    BY <1>2 DEF Drawn
  <2>3. paper' \in Papers
    BY <2>1 DEF Papers, BankInv, BankTypeOK
  <2> QED
    BY <2>1, <2>2, <2>3 DEF BankInv, BankTypeOK, IntervalOfRunning, LatchOfGrading,
       ClockReachesDeadline
<1>3. CASE DrawFailed
  BY <1>3 DEF DrawFailed, BankInv, BankTypeOK, IntervalOfRunning, LatchOfGrading,
     ClockReachesDeadline
<1>4. CASE Mount
  <2>0. PICK cut \in Cuts : player' = Mounted(paper, cut)
    BY <1>4 DEF Mount
  <2>1. /\ Mounted(paper, cut) \in Players /\ Remaining(paper, cut) \in 0..(Limit + Pace)
        /\ paper.timed => paper.deadline <= now + Remaining(paper, cut) + 1
    BY MountedTyped, RemainingTyped
  <2>2. /\ page = "drawn" /\ page' = "open" /\ UNCHANGED <<now, boot, paper, grade>>
    BY <1>4 DEF Mount
  <2>3. /\ player'.phase = "brief" /\ ~player'.armed /\ ~player'.beat /\ ~player'.latch
        /\ player'.left = Remaining(paper, cut)
    BY <2>0 DEF Mounted
  <2>4. ClockReachesDeadline'
    BY <2>1, <2>2, <2>3, BankAssumption
       DEF ClockReachesDeadline, Uncounted, BankInv, BankTypeOK, Papers
  <2> QED
    BY <2>0, <2>1, <2>2, <2>3, <2>4 DEF BankInv, BankTypeOK, IntervalOfRunning, LatchOfGrading
<1> QED
  BY <1>1, <1>2, <1>3, <1>4 DEF Pick, Redraw

(* The student starts, answers and submits.                                 *)
LEMMA StudentKeeps ==
    ASSUME BankInv, Start \/ ChooseOption \/ SubmitPaper
    PROVE  BankInv'
<1>1. player \in Players /\ page \in {"drawing", "drawn", "error", "open"}
  BY DEF BankInv, BankTypeOK
<1>2. CASE Start
  <2>1. /\ player' = [player EXCEPT !.phase = "running", !.captured = player.sheet,
                                    !.armed = TRUE, !.beat = FALSE]
        /\ page = "open" /\ player.phase = "brief"
        /\ UNCHANGED <<now, boot, page, paper, grade>>
    BY <1>2 DEF Start
  <2>2. player' \in Players
    BY <1>1, <2>1 DEF Players
  <2>3. ~player.beat
    BY <2>1 DEF BankInv, IntervalOfRunning
  <2> QED
    BY <1>1, <2>1, <2>2, <2>3 DEF BankInv, BankTypeOK, IntervalOfRunning, LatchOfGrading,
       ClockReachesDeadline, Uncounted, Players
<1>3. CASE ChooseOption
  <2>1. PICK s \in Answers : player' = [player EXCEPT !.sheet = s]
    BY <1>3 DEF ChooseOption
  <2>2. UNCHANGED <<now, boot, page, paper, grade>>
    BY <1>3 DEF ChooseOption
  <2> QED
    BY <1>1, <2>1, <2>2 DEF BankInv, BankTypeOK, IntervalOfRunning, LatchOfGrading,
       ClockReachesDeadline, Uncounted, Players
<1>4. CASE SubmitPaper
  <2>1. /\ page = "open" /\ player.phase = "running" /\ FinishPaper(player, player.sheet, FALSE)
        /\ UNCHANGED <<now, boot, page, paper>> /\ player.sheet \in Answers
    BY <1>1, <1>4 DEF SubmitPaper, Players
  <2>2. /\ player' \in Players /\ grade' \in Grades /\ LatchOfGrading'
        /\ player' = [player EXCEPT !.latch = player'.latch, !.error = player'.error]
        /\ \/ grade' = grade
           \/ grade' = [stage |-> "sent", auto |-> FALSE, sheet |-> player.sheet,
                        screen |-> player.sheet]
    BY <1>1, <2>1, FinishSends
  <2>3. /\ player'.beat = player.beat /\ player'.armed = player.armed
        /\ player'.phase = player.phase /\ player'.left = player.left
    BY <1>1, <2>2 DEF Players
  <2>4. IntervalOfRunning' /\ ClockReachesDeadline'
    BY <2>1, <2>3 DEF BankInv, IntervalOfRunning, ClockReachesDeadline, Uncounted
  <2> QED
    BY <2>1, <2>2, <2>4 DEF BankInv, BankTypeOK
<1> QED
  BY <1>2, <1>3, <1>4

LEMMA CapturedIsSheet == BankInv => player.captured \in Answers
  BY DEF BankInv, BankTypeOK, Players

(* The interval counts a second down; at the last one a timed paper is sent. *)
LEMMA TickKeeps ==
    ASSUME BankInv, Tick
    PROVE  BankInv'
<1> DEFINE p == [player EXCEPT !.beat = FALSE, !.left = IF LastSecond THEN 0 ELSE @ - 1,
                               !.armed = ~LastSecond]
<1>1. /\ player.armed /\ player.beat /\ player \in Players
      /\ page = "open" /\ player.phase = "running"
      /\ UNCHANGED <<now, boot, page, paper>>
      /\ ClockReachesDeadline /\ now \in Nat /\ paper \in Papers
  BY BankAssumption DEF Tick, BankInv, BankTypeOK, IntervalOfRunning
<1>2. /\ p \in Players /\ p.latch = player.latch /\ p.phase = "running" /\ ~p.beat
      /\ p.left = (IF player.left <= 1 THEN 0 ELSE player.left - 1)
  <2>1. player.left \in 0..(Limit + Pace)
    BY <1>1 DEF Players
  <2>2. (IF LastSecond THEN 0 ELSE player.left - 1) \in 0..(Limit + Pace)
    BY <2>1, BankAssumption DEF LastSecond
  <2>3. LastSecond \in BOOLEAN /\ (LastSecond <=> player.left <= 1)
    BY <2>1 DEF LastSecond
  <2> HIDE DEF LastSecond
  <2> QED BY <1>1, <2>2, <2>3 DEF Players
<1>3. \/ FinishPaper(p, player.captured, TRUE)
      \/ player' = p /\ UNCHANGED grade
  BY DEF Tick
<1> HIDE DEF p
<1>4. /\ player' \in Players /\ grade' \in Grades /\ LatchOfGrading'
      /\ player'.phase = "running" /\ ~player'.beat /\ player'.left = p.left
      /\ \/ grade' = grade
         \/ grade'.auto
  <2>1. CASE FinishPaper(p, player.captured, TRUE)
    <3>1. /\ player' \in Players /\ grade' \in Grades /\ LatchOfGrading'
          /\ player' = [p EXCEPT !.latch = player'.latch, !.error = player'.error]
          /\ grade' = grade \/ grade'.auto
      <4>1. player.captured \in Answers
        BY CapturedIsSheet
      <4>2. /\ player' \in Players /\ grade' \in Grades /\ LatchOfGrading'
            /\ player' = [p EXCEPT !.latch = player'.latch, !.error = player'.error]
            /\ \/ grade' = grade
               \/ grade' = [stage |-> "sent", auto |-> TRUE, sheet |-> player.captured,
                            screen |-> p.sheet]
        BY <1>1, <1>2, <2>1, <4>1, FinishSends
      <4> QED BY <4>2
    <3> QED BY <1>2, <3>1 DEF Players
  <2>2. CASE player' = p /\ UNCHANGED grade
    BY <1>1, <1>2, <2>2 DEF BankInv, BankTypeOK, LatchOfGrading
  <2> QED BY <1>3, <2>1, <2>2
<1>5. ClockReachesDeadline'
  BY <1>1, <1>2, <1>4 DEF ClockReachesDeadline, Uncounted, Players, Papers
<1>6. IntervalOfRunning'
  BY <1>1, <1>4 DEF BankInv, IntervalOfRunning
<1> QED
  BY <1>1, <1>4, <1>5, <1>6 DEF BankInv, BankTypeOK

(* The server answers, and the player takes the answer.                     *)
LEMMA GradeKeeps ==
    ASSUME BankInv, Grade \/ GradeLost \/ Answer
    PROVE  BankInv'
<1>1. player \in Players /\ grade \in Grades /\ LatchOfGrading
  BY DEF BankInv, BankTypeOK
<1>2. CASE Grade \/ GradeLost
  <2>1. PICK stage \in {"marked", "refused"} : grade' = [grade EXCEPT !.stage = stage]
    BY <1>2 DEF Grade, GradeLost
  <2>2. grade.stage = "sent" /\ UNCHANGED <<now, boot, page, paper, player>>
    BY <1>2 DEF Grade, GradeLost
  <2> QED
    BY <1>1, <2>1, <2>2 DEF BankInv, BankTypeOK, IntervalOfRunning, LatchOfGrading,
       ClockReachesDeadline, Uncounted, Grades
<1>3. CASE ShowResult
  <2>1. /\ player' = [player EXCEPT !.phase = "result", !.armed = FALSE, !.beat = FALSE]
        /\ grade' = NoGrade /\ player.latch /\ UNCHANGED <<now, boot, page, paper>>
    BY <1>1, <1>3 DEF ShowResult, LatchOfGrading
  <2> QED
    BY <1>1, <2>1, BankAssumption DEF BankInv, BankTypeOK, IntervalOfRunning, LatchOfGrading,
       ClockReachesDeadline, Uncounted, Players, Grades, NoGrade
<1>4. CASE ShowError
  <2>1. /\ player' = [player EXCEPT !.latch = FALSE, !.error = TRUE]
        /\ grade' = NoGrade /\ player.phase = "running" /\ UNCHANGED <<now, boot, page, paper>>
    BY <1>1, <1>4 DEF ShowError, LatchOfGrading, LatchAfterError
  <2> QED
    BY <1>1, <2>1, BankAssumption DEF BankInv, BankTypeOK, IntervalOfRunning, LatchOfGrading,
       ClockReachesDeadline, Uncounted, Players, Grades, NoGrade
<1> QED
  BY <1>2, <1>3, <1>4 DEF Answer

(* A second passes for the server and for an armed interval alike.          *)
LEMMA TimeKeeps ==
    ASSUME BankInv, Second \/ Restart
    PROVE  BankInv'
<1>1. /\ player \in Players /\ now \in 0..MaxTime /\ paper \in Papers
      /\ boot \in 0..MaxRestarts /\ IntervalOfRunning /\ ClockReachesDeadline
  BY DEF BankInv, BankTypeOK
<1>2. CASE Second
  <2>1. /\ now < MaxTime /\ ~player.beat /\ now' = now + 1
        /\ player' = [player EXCEPT !.beat = player.armed]
        /\ UNCHANGED <<boot, page, paper, grade>>
    BY <1>2 DEF Second
  <2>2. player' \in Players /\ now' \in 0..MaxTime
    BY <1>1, <2>1, BankAssumption DEF Players
  <2>3. ClockReachesDeadline'
    BY <1>1, <2>1, BankAssumption DEF ClockReachesDeadline, Uncounted, Players, Papers
  <2>4. IntervalOfRunning'
    BY <1>1, <2>1, BankAssumption DEF IntervalOfRunning, Players, Papers
  <2> QED
    BY <1>1, <2>1, <2>2, <2>3, <2>4 DEF BankInv, BankTypeOK, LatchOfGrading, Players
<1>3. CASE Restart
  BY <1>1, <1>3, BankAssumption DEF Restart, BankInv, BankTypeOK, IntervalOfRunning,
     LatchOfGrading, ClockReachesDeadline, Uncounted
<1> QED
  BY <1>2, <1>3

LEMMA BankStepKeeps == BankInv /\ [BankNext]_bankVars => BankInv'
<1>1. BankInv /\ UNCHANGED bankVars => BankInv'
  BY DEF bankVars, BankInv, BankTypeOK, IntervalOfRunning, LatchOfGrading, ClockReachesDeadline,
         Uncounted
<1> QED
  BY <1>1, PageKeeps, StudentKeeps, TickKeeps, GradeKeeps, TimeKeeps DEF BankNext

-----------------------------------------------------------------------------
(* The theorems.                                                            *)

THEOREM BankInvariant == BankSpec => []BankInv
  BY BankInitHolds, BankStepKeeps, PTL DEF BankSpec

(* Clock, ticket, player and grading stay well-typed: in particular the     *)
(* clock on screen shows neither a negative time nor more than the paper    *)
(* allows.                                                                  *)
THEOREM BankTyped == BankSpec => []BankTypeOK
  BY BankInvariant, PTL DEF BankInv

(* One grading is awaited at a time, by the player that runs, and the latch *)
(* that ensures it is released by an error and by nothing else.             *)
THEOREM OneGradingAtATime == BankSpec => []LatchOfGrading
  BY BankInvariant, PTL DEF BankInv

(* No paper is sent for the student more than the second of the rounding    *)
(* before its deadline, however long the brief is read before "Start paper" *)
(* and whatever is drawn in between.                                        *)
THEOREM AutoSubmitIsDue == BankSpec => NeverCutShort
<1> DEFINE Due == grade.stage = "none" /\ grade'.stage = "sent" /\ grade'.auto =>
                      paper.timed /\ now + 1 >= paper.deadline
<1>1. BankInv /\ [BankNext]_bankVars => [Due]_bankVars
  <2> SUFFICES ASSUME BankInv, BankNext, grade.stage = "none", grade'.stage = "sent", grade'.auto
               PROVE  paper.timed /\ now + 1 >= paper.deadline
    OBVIOUS
  <2>1. Tick
    <3>1. ASSUME SubmitPaper PROVE FALSE
      BY <3>1 DEF SubmitPaper, FinishPaper
    <3> QED
      BY <3>1 DEF BankNext, Pick, Redraw, Draw, Drawn, DrawFailed, Mount, Start, ChooseOption,
         Grade, GradeLost, Answer, ShowResult, ShowError, Second, Restart, NoGrade
  <2>2. LastSecond /\ paper.timed
    BY <2>1 DEF Tick, Enforced
  <2>3. /\ player.beat /\ player.left <= 1 /\ player \in Players
        /\ paper \in Papers /\ now \in Nat
        /\ page = "open" /\ player.phase = "running"
    BY <2>1, <2>2, BankAssumption
       DEF Tick, LastSecond, BankInv, BankTypeOK, IntervalOfRunning
  <2>4. paper.deadline + 1 <= now + player.left + 1
    BY <2>2, <2>3 DEF BankInv, ClockReachesDeadline, Uncounted
  <2> QED
    BY <2>2, <2>3, <2>4 DEF Players, Papers
<1> QED
  BY <1>1, BankInvariant, PTL DEF BankSpec, NeverCutShort
=============================================================================
