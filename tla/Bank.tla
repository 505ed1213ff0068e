-------------------------------- MODULE Bank --------------------------------
(***************************************************************************)
(* A sitting drawn from the practice bank: the page that draws papers      *)
(* (client/app/lms/practice/[slug]/page.tsx), the player                   *)
(* (client/components/cbt/PracticePlayer.tsx) and the grading of tickets   *)
(* (internal/service/cbt_service.go).  The server keeps nothing of a       *)
(* sitting: what a paper allows is signed into its ticket.                 *)
(***************************************************************************)
EXTENDS Integers

CONSTANTS Answers, NoAnswer, \* what is answered on screen
          Limit, Grace,  \* the time of a timed paper and of a late answer
          Pace,          \* seconds of the pacing aid of an untimed paper
          MaxTime,       \* bound on the clock
          MaxRestarts    \* bound on restarts that lose the signing key

ASSUME BankAssumption ==
    /\ NoAnswer \in Answers
    /\ Limit \in Nat \ {0} /\ Grace \in Nat /\ Pace \in Nat \ {0}
    /\ MaxTime \in Nat /\ MaxRestarts \in Nat

VARIABLES
    now,    \* the server's clock; a browser's differs by less than a tick
    boot,   \* the signing key: a new one per restart
    page,   \* the page: "drawing", "drawn" (answered, not rendered), "error", "open"
    paper,  \* the ticket on the page
    player, \* the mounted player
    grade   \* its grading request

bankVars == <<now, boot, page, paper, player, grade>>

Papers == [timed: BOOLEAN, deadline: 0..(MaxTime + Limit), boot: 0..MaxRestarts]
NoPaper == [timed |-> FALSE, deadline |-> 0, boot |-> 0]

(* captured is the sheet the interval's closure sees, left the clock shown, *)
(* armed that the interval runs, beat that it is to see a second pass.      *)
Players == [phase: {"brief", "running", "result"}, sheet: Answers, captured: Answers,
            left: 0..(Limit + Pace), armed: BOOLEAN, beat: BOOLEAN,
            latch: BOOLEAN, error: BOOLEAN]

(* The request keeps what was on screen when it was sent, for the           *)
(* properties, beside the sheet it carries.                                 *)
Grades == [stage: {"none", "sent", "marked", "refused"}, auto: BOOLEAN,
           sheet: Answers, screen: Answers]
NoGrade == [stage |-> "none", auto |-> FALSE, sheet |-> NoAnswer, screen |-> NoAnswer]

BankTypeOK ==
    /\ now \in 0..MaxTime /\ boot \in 0..MaxRestarts
    /\ page \in {"drawing", "drawn", "error", "open"}
    /\ paper \in Papers /\ player \in Players /\ grade \in Grades

(* The remaining time is computed once, when the player mounts, and rounded *)
(* down: cut is the part of a second that is lost, if any.                  *)
Cuts == {0, 1}
Remaining(p, cut) == CASE ~p.timed                      -> Pace
                       [] p.timed /\ p.deadline > now -> p.deadline - now - cut
                       [] OTHER                        -> 0

Mounted(p, cut) == [phase |-> "brief", sheet |-> NoAnswer, captured |-> NoAnswer,
                    left |-> Remaining(p, cut),
                    armed |-> FALSE, beat |-> FALSE, latch |-> FALSE, error |-> FALSE]

BankInit ==
    /\ now = 0 /\ boot = 0 /\ page = "drawing" /\ paper = NoPaper
    /\ player = Mounted(NoPaper, 0) /\ grade = NoGrade

-----------------------------------------------------------------------------
(* The page.                                                                *)

(* A new nonce: the page of the old key goes, its player and what that      *)
(* waited for with it.                                                      *)
Draw ==
    /\ page' = "drawing" /\ paper' = NoPaper
    /\ player' = Mounted(NoPaper, 0) /\ grade' = NoGrade
    /\ UNCHANGED <<now, boot>>

(* A select of the toolbar, which the page offers in every state.           *)
Pick == page # "drawing" /\ Draw

(* "Draw different questions", "Practise again": not while a sitting runs.  *)
Redraw == page = "open" /\ player.phase \in {"brief", "result"} /\ Draw

(* GeneratePaper signs the ticket; a draw is untimed or has the limit.      *)
Drawn ==
    /\ page = "drawing" /\ page' = "drawn"
    /\ \E timed \in BOOLEAN :
          paper' = [timed |-> timed, deadline |-> IF timed THEN now + Limit ELSE 0, boot |-> boot]
    /\ UNCHANGED <<now, boot, player, grade>>

DrawFailed ==
    /\ page = "drawing" /\ page' = "error"
    /\ UNCHANGED <<now, boot, paper, player, grade>>

Mount ==
    /\ page = "drawn" /\ page' = "open"
    /\ \E cut \in Cuts : player' = Mounted(paper, cut)
    /\ UNCHANGED <<now, boot, paper, grade>>

-----------------------------------------------------------------------------
(* The player.                                                              *)

(* "Start paper": the effect arms the interval with the closures of the     *)
(* render that starts.                                                      *)
Start ==
    /\ page = "open" /\ player.phase = "brief"
    /\ player' = [player EXCEPT !.phase = "running", !.captured = player.sheet,
                                !.armed = TRUE, !.beat = FALSE]
    /\ UNCHANGED <<now, boot, page, paper, grade>>

(* An option, or "Clear answer": also while a grading is awaited.           *)
ChooseOption ==
    /\ page = "open" /\ player.phase = "running"
    /\ \E s \in Answers \ {player.sheet} : player' = [player EXCEPT !.sheet = s]
    /\ UNCHANGED <<now, boot, page, paper, grade>>

(* finish: once at a time.  The player p and the sheet are those the caller *)
(* sees.                                                                    *)
FinishPaper(p, sheet, auto) ==
    IF p.latch THEN player' = p /\ UNCHANGED grade
    ELSE /\ player' = [p EXCEPT !.latch = TRUE, !.error = FALSE]
         /\ grade' = [stage |-> "sent", auto |-> auto, sheet |-> sheet, screen |-> p.sheet]

(* "Yes, submit": the handler of the render on screen.                      *)
SubmitPaper ==
    /\ page = "open" /\ player.phase = "running" /\ ~player.latch
    /\ FinishPaper(player, player.sheet, FALSE)
    /\ UNCHANGED <<now, boot, page, paper>>

NeverEnforced == FALSE  \* mutant
Enforced == paper.timed

(* The interval: at the last second it stops, and a timed paper is sent by  *)
(* the closure it was armed with.                                           *)
OneSecondEarly == player.left <= 2  \* mutant
LastSecond == player.left <= 1

Tick ==
    /\ player.armed /\ player.beat
    /\ LET p == [player EXCEPT !.beat = FALSE, !.left = IF LastSecond THEN 0 ELSE @ - 1,
                               !.armed = ~LastSecond] IN
       IF LastSecond /\ Enforced THEN FinishPaper(p, player.captured, TRUE)
       ELSE player' = p /\ UNCHANGED grade
    /\ UNCHANGED <<now, boot, page, paper>>

-----------------------------------------------------------------------------
(* GradePaper: a ticket of another key, or later than deadline and grace,   *)
(* is refused.                                                              *)
InTime == ~paper.timed \/ now <= paper.deadline + Grace
Accepts == paper.boot = boot /\ InTime

Grade ==
    /\ grade.stage = "sent"
    /\ grade' = [grade EXCEPT !.stage = IF Accepts THEN "marked" ELSE "refused"]
    /\ UNCHANGED <<now, boot, page, paper, player>>

GradeLost ==
    /\ grade.stage = "sent" /\ grade' = [grade EXCEPT !.stage = "refused"]
    /\ UNCHANGED <<now, boot, page, paper, player>>

(* The interval of a player that leaves "running" is cleared.               *)
ShowResult ==
    /\ grade.stage = "marked"
    /\ player' = [player EXCEPT !.phase = "result", !.armed = FALSE, !.beat = FALSE]
    /\ grade' = NoGrade
    /\ UNCHANGED <<now, boot, page, paper>>

LatchAfterError == FALSE

ShowError ==
    /\ grade.stage = "refused"
    /\ player' = [player EXCEPT !.latch = LatchAfterError, !.error = TRUE]
    /\ grade' = NoGrade
    /\ UNCHANGED <<now, boot, page, paper>>

-----------------------------------------------------------------------------
(* A second passes.  The page is in the foreground: its interval sees every *)
(* one.                                                                     *)
Second ==
    /\ now < MaxTime /\ ~player.beat /\ now' = now + 1
    /\ player' = [player EXCEPT !.beat = player.armed]
    /\ UNCHANGED <<boot, page, paper, grade>>

(* Without CBT_ATTEMPT_SECRET a restart draws a new key.                    *)
Restart ==
    /\ boot < MaxRestarts /\ boot' = boot + 1
    /\ UNCHANGED <<now, page, paper, player, grade>>

Answer == ShowResult \/ ShowError
BankNext ==
    \/ Pick \/ Redraw \/ Drawn \/ DrawFailed \/ Mount
    \/ Start \/ ChooseOption \/ SubmitPaper \/ Tick \/ Grade \/ GradeLost \/ Answer
    \/ Second \/ Restart

BankSpec == BankInit /\ [][BankNext]_bankVars

(* The interval fires, a request is answered or lost, and the answer taken. *)
BankFairness == WF_bankVars(Tick) /\ WF_bankVars(Grade) /\ WF_bankVars(Answer)
BankFairSpec == BankSpec /\ BankFairness

-----------------------------------------------------------------------------
(* The clock on screen, set once and counted down by an interval, runs ahead *)
(* of the server's by no more than the second it was rounded by: no paper is *)
(* sent for the student before its time is up.                              *)
NeverCutShort ==
    [][grade.stage = "none" /\ grade'.stage = "sent" /\ grade'.auto =>
          paper.timed /\ now + 1 >= paper.deadline]_bankVars

(* A timed paper whose clock has run out does not stay on screen unsent: it  *)
(* is marked or its error shown, or the student has drawn another.          *)
ClockRunsOut ==
    (player.phase = "running" /\ paper.timed /\ ~player.armed)
        ~> (player.phase # "running" \/ player.error)

(* What docs/CBT-EXPANSION.md:28 says of the grace: "so a browser            *)
(* auto-submit at 00:00 still lands".                                       *)
(* It does not hold.                                                        *)
AutoSubmitLands ==
    [][grade.stage = "none" /\ grade'.stage = "sent" /\ grade'.auto =>
          now <= paper.deadline + Grace]_bankVars

(* What the brief says of a timed sitting: "the paper auto-submits when the  *)
(* clock hits zero" (PracticePlayer.tsx:157), that is, what was answered.   *)
(* It does not hold.                                                        *)
AutoSubmitSendsScreen == grade.stage # "none" /\ grade.auto => grade.sheet = grade.screen

-----------------------------------------------------------------------------
(* The inductive strengthening.                                             *)

(* The interval runs on a running player only; a deadline lies at most the  *)
(* limit ahead.                                                             *)
IntervalOfRunning ==
    /\ player.beat => player.armed
    /\ player.armed => page = "open" /\ player.phase = "running"
    /\ paper.timed => paper.deadline <= now + Limit

(* The latch of finish is up while a grading is awaited and stays up under  *)
(* its result; a grading belongs to the player that runs.                   *)
LatchOfGrading ==
    /\ player.latch <=> (grade.stage # "none" \/ player.phase = "result")
    /\ grade.stage # "none" => page = "open" /\ player.phase = "running"

(* What the clock shows, and a second that has passed and is not counted    *)
(* down yet, reach to the deadline but for the second it was rounded by.    *)
Uncounted == IF player.beat THEN 1 ELSE 0
ClockReachesDeadline ==
    page = "open" /\ paper.timed /\ player.phase # "result" =>
        paper.deadline + Uncounted <= now + player.left + 1

BankInv ==
    /\ BankTypeOK
    /\ IntervalOfRunning
    /\ LatchOfGrading
    /\ ClockReachesDeadline
=============================================================================
