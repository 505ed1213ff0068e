------------------------------ MODULE Sitting ------------------------------
(***************************************************************************)
(* A timed sitting of a practice exam: the web player (client/components/  *)
(* cbt/ExamPlayer.tsx), the phone player (mobile/app/practice/             *)
(* [examId].tsx) and the attempts the server keeps for one student and one *)
(* exam (internal/service/practice_exam_service.go).  Every request is a   *)
(* handler of its own: the device that sent it may give up, reload or ask  *)
(* again while the handler goes on.                                        *)
(***************************************************************************)
EXTENDS Naturals, FiniteSets

CONSTANTS Web, Phones,  \* browser tabs and phones of the student
          Questions, Options, Blank,
          MaxAttempts,  \* bound: sittings the server ever opens
          Calls,        \* bound: requests under way at once
          MaxFaults,    \* bound: answers that never reach their device
          NoDev

ASSUME SittingAssumption ==
    /\ MaxAttempts \in Nat \ {0} /\ MaxFaults \in Nat /\ Calls \subseteq Nat
    /\ Web \intersect Phones = {} /\ NoDev \notin Web \union Phones
    /\ Blank \notin Options

Devices == Web \union Phones
Attempts == 1..MaxAttempts

(* An answer sheet: what is on screen, what a request carries, what the     *)
(* server keeps and marks.                                                  *)
Sheets == [Questions -> Options \union {Blank}]
BlankSheet == [q \in Questions |-> Blank]

VARIABLES
    att,   \* server: the attempts, numbered in the order they were opened
    call,  \* requests under way, with the step their handler has reached
    dev,   \* the players
    faults

vars == <<att, call, dev, faults>>

AttemptRecords == [st: {"none", "open", "marked"}, sheet: Sheets, due: BOOLEAN]

(* stage: a phone reads the paper first; "sent" handlers have read nothing; *)
(* "check", "write" and "create" are the steps of a handler between its     *)
(* queries; "ok" and "failed" are answers.  tries counts apiFetch's resend. *)
CallRecords == [kind: {"none", "start", "submit", "review"},
                stage: {"none", "paper", "sent", "check", "write", "create", "ok", "failed"},
                dev: Devices \union {NoDev}, att: 0..MaxAttempts, sheet: Sheets, tries: 0..1]
FreeCall == [kind |-> "none", stage |-> "none", dev |-> NoDev, att |-> 0,
             sheet |-> BlankSheet, tries |-> 0]

(* mine is the attempt the player holds, shown the one whose result is on   *)
(* screen (0: none), latch its submittedRef.                                *)
PlayerRecords == [phase: {"brief", "loading", "failed", "running", "result"},
                  mine: 0..MaxAttempts, shown: 0..MaxAttempts,
                  sheet: Sheets, latch: BOOLEAN]

Fresh(d) == [phase |-> IF d \in Web THEN "brief" ELSE "loading",
             mine |-> 0, shown |-> 0, sheet |-> BlankSheet, latch |-> FALSE]

SittingTypeOK ==
    /\ att \in [Attempts -> AttemptRecords]
    /\ call \in [Calls -> CallRecords]
    /\ dev \in [Devices -> PlayerRecords]
    /\ faults \in 0..MaxFaults

Init ==
    /\ att = [a \in Attempts |-> [st |-> "none", sheet |-> BlankSheet, due |-> FALSE]]
    /\ call = [c \in Calls |-> FreeCall]
    /\ dev = [d \in Devices |-> Fresh(d)]
    /\ faults = 0

Open == {a \in Attempts : att[a].st = "open"}
Awaits(d, kind) == \E c \in Calls : call[c].dev = d /\ call[c].kind = kind
Submitting(d) == Awaits(d, "submit") \/ Awaits(d, "review")
TimeIsUp(d) == dev[d].mine # 0 /\ att[dev[d].mine].due

Request(d, kind, a, sheet) ==
    [FreeCall EXCEPT !.kind = kind, !.stage = "sent", !.dev = d, !.att = a, !.sheet = sheet]

(* Calls are told apart by nothing: the first free one is taken.            *)
Free(c) == call[c] = FreeCall /\ \A e \in Calls : e < c => call[e] # FreeCall

(* An answer reaches the device that waits for it, or nobody.  Of a marked  *)
(* paper the players keep which one it is.                                  *)
Reply(c, stage, a) ==
    IF call[c].dev = NoDev THEN FreeCall
    ELSE [call[c] EXCEPT !.stage = stage, !.att = a, !.sheet = BlankSheet]

(* A call its device no longer waits for: what is left to do has an effect   *)
(* or not.                                                                  *)
Detached(c) ==
    IF call[c].kind = "review" \/ call[c].stage \in {"ok", "failed"} THEN FreeCall
    ELSE [call[c] EXCEPT !.dev = NoDev]

-----------------------------------------------------------------------------
(* The web player.                                                          *)

(* The brief offers one button, dead while a start is under way.            *)
Begin(w) ==
    /\ w \in Web /\ dev[w].phase = "brief" /\ ~Awaits(w, "start")
    /\ \E c \in Calls : /\ Free(c)
                        /\ call' = [call EXCEPT ![c] = Request(w, "start", 0, BlankSheet)]
    /\ UNCHANGED <<att, dev, faults>>

(* The result offers "Sit this paper again": everything back to the brief.  *)
Again(w) ==
    /\ w \in Web /\ dev[w].phase = "result"
    /\ dev' = [dev EXCEPT ![w] = Fresh(w)]
    /\ UNCHANGED <<att, call, faults>>

(* The player is unmounted: a reload, or the phone going back.  What it      *)
(* awaited is answered to nobody.                                           *)
Leave(d) ==
    /\ dev[d] # Fresh(d) \/ \E c \in Calls : call[c].dev = d
    /\ dev' = [dev EXCEPT ![d] = Fresh(d)]
    /\ call' = [c \in Calls |-> IF call[c].dev # d THEN call[c]
                                ELSE Detached(c)]
    /\ UNCHANGED <<att, faults>>

(* An option is chosen.  The phone ignores it while it submits; the keyboard *)
(* handler of the web player only asks that the sitting runs.               *)
RunningIsEnough(d) == dev[d].phase = "running"  \* mutant
MayChoose(d) == dev[d].phase = "running" /\ (d \in Phones => ~Submitting(d))

Choose(d) ==
    /\ MayChoose(d)
    /\ \E q \in Questions, o \in Options : dev' = [dev EXCEPT ![d].sheet[q] = o]
    /\ UNCHANGED <<att, call, faults>>

(* finish / submit: once at a time, by the latch; the phone does nothing     *)
(* without an attempt.                                                      *)
Unlatched(d) == ~dev[d].latch

Finish(d) ==
    /\ dev[d].phase = "running" /\ dev[d].mine # 0 /\ Unlatched(d)
    /\ \E c \in Calls :
          /\ Free(c)
          /\ call' = [call EXCEPT ![c] = Request(d, "submit", dev[d].mine, dev[d].sheet)]
    /\ dev' = [dev EXCEPT ![d].latch = TRUE]
    /\ UNCHANGED <<att, faults>>

(* "Submit now", or the confirmed alert of the phone.                       *)
Submit(d) == Finish(d)

(* The tick of the web player at zero, the effect of the phone on expiry.   *)
AutoSubmit(d) == TimeIsUp(d) /\ Finish(d)

-----------------------------------------------------------------------------
(* The phone loads the paper and starts in one go.                          *)

Load(p) ==
    /\ p \in Phones /\ dev[p].phase = "loading" /\ ~Awaits(p, "start")
    /\ \E c \in Calls :
          /\ Free(c)
          /\ call' = [call EXCEPT ![c] = [Request(p, "start", 0, BlankSheet)
                                            EXCEPT !.stage = "paper"]]
    /\ UNCHANGED <<att, dev, faults>>

HasPaper(p) == dev[p].phase \in {"running", "result"}

(* The paper is there: the player shows it and asks for the attempt.        *)
PaperOk(c) ==
    /\ call[c].stage = "paper"
    /\ call' = [call EXCEPT ![c].stage = "sent"]
    /\ dev' = IF call[c].dev = NoDev \/ HasPaper(call[c].dev) THEN dev
              ELSE [dev EXCEPT ![call[c].dev].phase = "running"]
    /\ UNCHANGED <<att, faults>>

(* No paper: the error screen, unless another load has shown it already.    *)
PaperFail(c) ==
    /\ call[c].stage = "paper" /\ faults < MaxFaults
    /\ faults' = faults + 1
    /\ call' = [call EXCEPT ![c] = FreeCall]
    /\ dev' = IF call[c].dev = NoDev \/ HasPaper(call[c].dev) THEN dev
              ELSE [dev EXCEPT ![call[c].dev].phase = "failed"]
    /\ UNCHANGED att

(* "Try again" clears the error and loads, and the focus effect, whose      *)
(* condition holds again, loads as well.                                    *)
Retry(p) ==
    /\ p \in Phones /\ dev[p].phase = "failed"
    /\ \E c, e \in Calls :
          /\ c < e /\ call[c] = FreeCall /\ call[e] = FreeCall
          /\ call' = [x \in Calls |-> IF x \in {c, e}
                                      THEN [Request(p, "start", 0, BlankSheet)
                                              EXCEPT !.stage = "paper"]
                                      ELSE call[x]]
    /\ dev' = [dev EXCEPT ![p].phase = "loading"]
    /\ UNCHANGED <<att, faults>>

-----------------------------------------------------------------------------
(* What a device does with an answer.                                       *)

Started(c) ==
    LET d == call[c].dev IN
    /\ call[c].kind = "start" /\ call[c].stage = "ok"
    /\ dev' = [dev EXCEPT ![d].mine = call[c].att,
                          ![d].phase = IF d \in Web THEN "running" ELSE @]
    /\ call' = [call EXCEPT ![c] = FreeCall]
    /\ UNCHANGED <<att, faults>>

(* The answers are not read again once a result is shown.                   *)
Result(d, a) == [dev[d] EXCEPT !.phase = "result", !.shown = a, !.sheet = BlankSheet]

(* The web player shows the result; the phone first reads the review.       *)
Marked(c) ==
    LET d == call[c].dev IN
    /\ call[c].kind = "submit" /\ call[c].stage = "ok"
    /\ IF d \in Web
       THEN /\ dev' = [dev EXCEPT ![d] = Result(d, call[c].att)]
            /\ call' = [call EXCEPT ![c] = FreeCall]
       ELSE /\ call' = [call EXCEPT ![c] = Request(d, "review", call[c].att, BlankSheet)]
            /\ UNCHANGED dev
    /\ UNCHANGED <<att, faults>>

Reviewed(c) ==
    /\ call[c].kind = "review" /\ call[c].stage = "ok"
    /\ dev' = [dev EXCEPT ![call[c].dev] = Result(call[c].dev, call[c].att)]
    /\ call' = [call EXCEPT ![c] = FreeCall]
    /\ UNCHANGED <<att, faults>>

KeptLatch(c) == dev[call[c].dev].latch  \* mutant

(* The latch after a failure of the call.                                   *)
ReleasedLatch(c) ==
    IF call[c].kind = "start" THEN dev[call[c].dev].latch ELSE FALSE

(* An error answer: the web player stays where it is; either player may     *)
(* submit again.  A phone whose start fails keeps the paper and has no      *)
(* attempt.                                                                 *)
Failed(c) ==
    /\ call[c].stage = "failed"
    /\ dev' = [dev EXCEPT ![call[c].dev].latch = ReleasedLatch(c)]
    /\ call' = [call EXCEPT ![c] = FreeCall]
    /\ UNCHANGED <<att, faults>>

(* No answer in time (the proxy's 504, an abort, a lost connection): the    *)
(* same to the device, but the handler may go on.                           *)
GaveUp(c) ==
    /\ call[c].dev # NoDev /\ call[c].stage \notin {"paper", "failed"} /\ faults < MaxFaults
    /\ faults' = faults + 1
    /\ dev' = [dev EXCEPT ![call[c].dev].latch = ReleasedLatch(c)]
    /\ call' = [call EXCEPT ![c] = Detached(c)]
    /\ UNCHANGED att

(* The phone's apiFetch sends a request that timed out once more, a POST    *)
(* like any other, with the same body (a read again changes nothing).       *)
Resend(c) ==
    /\ call[c].dev \in Phones /\ call[c].kind # "review"
    /\ call[c].stage \in {"sent", "check", "write", "create"}
    /\ call[c].tries = 0 /\ faults < MaxFaults
    /\ faults' = faults + 1
    /\ \E e \in Calls :
          /\ Free(e)
          /\ call' = [call EXCEPT
                ![c].dev = NoDev,
                ![e] = [Request(call[c].dev, call[c].kind, call[c].att, call[c].sheet)
                          EXCEPT !.tries = 1]]
    /\ UNCHANGED <<att, dev>>

-----------------------------------------------------------------------------
(* The server.                                                              *)

(* The deadline of an attempt passes; a sitting opened later ends later.    *)
TimeUp(a) ==
    /\ att[a].st # "none" /\ ~att[a].due
    /\ \A b \in Attempts : b < a => att[b].due
    /\ att' = [att EXCEPT ![a].due = TRUE]
    /\ UNCHANGED <<call, dev, faults>>

OpenWillDo(a) == TRUE  \* mutant
Lapsed(a) == att[a].due

(* StartAttempt reads the open attempt: one with time left is the answer,   *)
(* one whose time is up is marked first.                                    *)
ServeStart(c) ==
    /\ call[c].kind = "start" /\ call[c].stage = "sent"
    /\ \/ /\ Open = {}
          /\ call' = [call EXCEPT ![c].stage = "create"]
       \/ \E a \in Open :
             call' = [call EXCEPT ![c] =
                        IF Lapsed(a) THEN [call[c] EXCEPT !.stage = "check", !.att = a]
                                     ELSE Reply(c, "ok", a)]
    /\ UNCHANGED <<att, dev, faults>>

(* SubmitAttempt, called by a submit, or by a start with no answers, reads  *)
(* the attempt: one already marked is answered as it was recorded ...       *)
ServeCheck(c) ==
    LET a == call[c].att IN
    /\ call[c].stage = "check" \/ (call[c].stage = "sent" /\ call[c].kind = "submit")
    /\ call' = [call EXCEPT ![c] =
                  IF att[a].st # "marked" THEN [call[c] EXCEPT !.stage = "write"]
                  ELSE IF call[c].kind = "submit" THEN Reply(c, "ok", a)
                  ELSE [call[c] EXCEPT !.stage = "create"]]
    /\ UNCHANGED <<att, dev, faults>>

(* ... and writes the mark, whatever the row holds by then.                 *)
ServeWrite(c) ==
    LET a == call[c].att IN
    /\ call[c].stage = "write"
    /\ att' = [att EXCEPT ![a].st = "marked", ![a].sheet = call[c].sheet]
    /\ call' = [call EXCEPT ![c] = IF call[c].kind = "submit"
                                   THEN Reply(c, "ok", a)
                                   ELSE [call[c] EXCEPT !.stage = "create"]]
    /\ UNCHANGED <<dev, faults>>

(* The unique index over the unsubmitted attempts refuses a second one; the *)
(* error is the answer.  Past the bound every start is refused.             *)
NoIndex == TRUE  \* mutant
IndexAllows == Open = {}
Exhausted == \A a \in Attempts : att[a].st # "none"

ServeCreate(c) ==
    /\ call[c].stage = "create"
    /\ \/ /\ IndexAllows
          /\ \E a \in Attempts :
                /\ att[a].st = "none" /\ \A b \in Attempts : b < a => att[b].st # "none"
                /\ att' = [att EXCEPT ![a].st = "open"]
                /\ call' = [call EXCEPT ![c] = Reply(c, "ok", a)]
       \/ /\ ~IndexAllows \/ Exhausted
          /\ call' = [call EXCEPT ![c] = Reply(c, "failed", 0)]
          /\ UNCHANGED att
    /\ UNCHANGED <<dev, faults>>

ServeReview(c) ==
    /\ call[c].kind = "review" /\ call[c].stage = "sent"
    /\ call' = [call EXCEPT ![c] = Reply(c, "ok", call[c].att)]
    /\ UNCHANGED <<att, dev, faults>>

(* A handler nobody waits for is cancelled with its connection, or its      *)
(* request never arrived.                                                   *)
Cancel(c) ==
    /\ call[c].kind # "none" /\ call[c].dev = NoDev
    /\ call' = [call EXCEPT ![c] = FreeCall]
    /\ UNCHANGED <<att, dev, faults>>

-----------------------------------------------------------------------------
Serve(c) == ServeStart(c) \/ ServeCheck(c) \/ ServeWrite(c) \/ ServeCreate(c) \/ ServeReview(c)
Receive(c) == Started(c) \/ Marked(c) \/ Reviewed(c) \/ Failed(c)
Proceed(c) == PaperOk(c) \/ Serve(c) \/ Receive(c) \/ Cancel(c)

Next ==
    \/ \E d \in Devices : Begin(d) \/ Again(d) \/ Leave(d) \/ Choose(d) \/ Submit(d)
                          \/ AutoSubmit(d) \/ Load(d) \/ Retry(d)
    \/ \E c \in Calls : Proceed(c) \/ PaperFail(c) \/ GaveUp(c) \/ Resend(c)
    \/ \E a \in Attempts : TimeUp(a)

Spec == Init /\ [][Next]_vars

(* The interval ticks, handlers run, answers are taken, abandoned handlers  *)
(* end.  Nothing makes the student act, and the network may fail MaxFaults  *)
(* times.  The fairness of the tick is strong because a request waits here  *)
(* for one of the Calls: the code has no such bound.                        *)
Fairness ==
    /\ \A d \in Devices : SF_vars(AutoSubmit(d))
    /\ \A c \in Calls : WF_vars(Proceed(c))

FairSpec == Spec /\ Fairness

-----------------------------------------------------------------------------
(* A sitting is opened only when every earlier one is marked: neither a      *)
(* reload, nor a second device, nor two starts at once give a student a new  *)
(* deadline while a sitting is open ("a refresh cannot extend a sitting").   *)
NoSecondSitting ==
    \A a, b \in Attempts : a < b /\ att[b].st # "none" => att[a].st = "marked"

(* submittedRef is up exactly while an answer to a submit is awaited or its  *)
(* result is on screen: no double submission, and never a player that can    *)
(* submit no more.                                                          *)
LatchMatchesFlight ==
    \A d \in Devices : dev[d].latch <=> (Submitting(d) \/ dev[d].phase = "result")

(* While the phone submits, the screen shows the sheet that is being marked, *)
(* also when apiFetch sends it twice.                                       *)
PhoneShowsWhatItSent ==
    \A c \in Calls : call[c].dev \in Phones /\ call[c].kind = "submit"
                        /\ call[c].stage \in {"sent", "write"}
                     => call[c].sheet = dev[call[c].dev].sheet

(* The server closes an attempt with time left only for a submission of the  *)
(* student, with the answers it carried: never for a start.                 *)
NoEarlyClose ==
    [][\A a \in Attempts : att[a].st = "open" /\ ~att[a].due /\ att'[a].st = "marked" =>
          \E c \in Calls : /\ call[c].kind = "submit" /\ call[c].stage = "write"
                           /\ call[c].att = a /\ att'[a].sheet = call[c].sheet]_vars

(* When time runs out the sitting ends ("the paper submits itself"): the     *)
(* player shows a result or the student has left it, or the phone's second  *)
(* load has replaced it by a sitting with time left.                        *)
TimeUpEndsSitting ==
    \A d \in Devices : (dev[d].phase = "running" /\ TimeIsUp(d))
                          ~> (dev[d].phase # "running" \/ ~TimeIsUp(d))

(* What the player promises before it submits: "You cannot change anything   *)
(* after submitting" (ExamPlayer.tsx:532).                                  *)
(* It does not hold.                                                        *)
MarkIsFinal ==
    [][\A a \in Attempts : att[a].st = "marked" =>
          att'[a].st = "marked" /\ att'[a].sheet = att[a].sheet]_vars

-----------------------------------------------------------------------------
(* The inductive strengthening.                                             *)

Opened(A, a) == a \in Attempts /\ A[a].st # "none"

(* What the position of a call says about it: the attempts A it names are    *)
(* open or were, a start marks none that has time left, and answers are for  *)
(* a device.                                                                *)
Consistent(A, r) ==
    /\ (r.kind = "none") <=> (r.stage = "none")
    /\ r.kind = "none" => r.dev = NoDev
    /\ r.stage = "paper" => r.kind = "start" /\ r.dev \notin Web
    /\ r.stage \in {"check", "create"} => r.kind = "start"
    /\ r.stage = "write" => r.kind \in {"start", "submit"}
    /\ r.stage \in {"ok", "failed"} => r.dev # NoDev
    /\ r.kind = "review" => r.dev \in Phones
    /\ r.kind \in {"submit", "review"} => Opened(A, r.att)
    /\ r.kind = "start" /\ r.stage \in {"check", "write"} =>
           Opened(A, r.att) /\ A[r.att].due
    /\ r.stage = "ok" => Opened(A, r.att)

CallsConsistent == \A c \in Calls : Consistent(att, call[c])
PlayersHold == \A d \in Devices : dev[d].mine # 0 => Opened(att, dev[d].mine)

(* A tab awaits one answer at a time, a phone one to what it has submitted,  *)
(* in the phase they asked in.                                              *)
Exclusive(r) == r.dev \in Web \/ (r.dev \in Phones /\ r.kind # "start")
OneAwaited ==
    \A c, e \in Calls : /\ Exclusive(call[c]) /\ Exclusive(call[e])
                        /\ call[c].dev = call[e].dev
                        => c = e
AwaitedInPhase ==
    \A c \in Calls : Exclusive(call[c]) =>
        dev[call[c].dev].phase = IF call[c].kind = "start" THEN "brief" ELSE "running"

SittingInv ==
    /\ SittingTypeOK
    /\ CallsConsistent
    /\ PlayersHold
    /\ OneAwaited
    /\ AwaitedInPhase
    /\ LatchMatchesFlight
    /\ PhoneShowsWhatItSent
    /\ NoSecondSitting
=============================================================================
