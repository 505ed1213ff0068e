---------------------------- MODULE PhoneScreen ------------------------------
(***************************************************************************)
(* What one screen of the phone app shows.  A screen keeps its list in its *)
(* own state and has no cache: it is fetched when the screen gets the      *)
(* focus, after some presses, by an interval and by events, so that        *)
(* several loads are under way at once and the last to land is the one     *)
(* that is seen.  A request is sent a second time when the network fails   *)
(* (apiFetch), whatever it asks for.  What each screen loads and offers is *)
(* data: PhonePublic, PhoneLearner and PhoneTutor have the tables.         *)
(***************************************************************************)
EXTENDS Naturals, Sequences, SequencesExt, FiniteSets

CONSTANTS Screens,    \* the rows
          Selectable, \* the learners to choose from
          Writes,     \* bound: changes of the server's data
          MaxLoads,   \* bound: loads under way at once
          MaxFaults,  \* bound: requests that get no answer
          None

ASSUME ScreenAssumption ==
    \A r \in Screens :
        /\ r.load \in {"focus", "mount"} /\ r.onFail \in {"clear", "keep", "error", "stored"}
        /\ {r.scoped, r.cancels, r.polled, r.live} \subseteq BOOLEAN
        /\ None \notin r.ops
        /\ \A o \in r.ops : o.after \in {"reload", "local", "leave", "stay"}

(* The rule of the tables.  A list that is asked for the learner is asked     *)
(* again on every focus, and a failure does not keep what was shown; what    *)
(* changes the list reloads or sets it, and no loads of such a screen are    *)
(* dropped; a guess is replaced by what its answer, or error, loads.         *)
RowRule(r) ==
    /\ r.scoped => r.load = "focus" /\ r.onFail # "keep"
    /\ \A o \in r.ops :
          /\ o.changes => o.after \in {"reload", "local"} /\ ~r.cancels
          /\ o.optimistic => /\ o.after = "reload" /\ o.swallows
                            /\ r.onFail = "stored" /\ ~r.cancels
ScreenRule == \A r \in Screens : RowRule(r)

ASSUME BoundAssumption == MaxLoads \in Nat /\ MaxFaults \in Nat

VARIABLES
    screen,   \* the screen; it does not change
    focused,
    learner,  \* the learner that is selected
    list,     \* what is shown
    stored,   \* what the phone has stored of it
    loads,    \* the loads under way, in the order they were begun
    press,    \* the changes, the screen's presses and others'
    faults,
    sure,     \* history: the changes that the last lone load came after
    steady    \* history: the learner is the one of the last lone load

vars == <<screen, focused, learner, list, stored, loads, press, faults, sure, steady>>

(* kind: nothing yet, a list, or an error in its place; has: the changes it  *)
(* contains; guess: the messages shown before they were sent; of: the        *)
(* learner it was asked for; failed: the load that was over last has failed. *)
NoList == [kind |-> "nothing", has |-> {}, guess |-> {}, of |-> None, failed |-> FALSE]

(* after: the press that began the load.                                    *)
NewLoad(l, w) == [of |-> l, stage |-> "sent", has |-> {}, after |-> w]
NoPress == [op |-> None, stage |-> "none", again |-> FALSE]

Lists == [kind: {"nothing", "list", "error"}, has: SUBSET Writes, guess: SUBSET Writes,
          of: Selectable \union {None}, failed: BOOLEAN]
LoadRecords == [of: Selectable \union {None}, stage: {"sent", "read"}, has: SUBSET Writes,
                after: Writes \union {None}]
Stages == {"none", "sent", "done", "refused", "told", "failed", "silent", "unsure", "news"}

(* Only some screens ask for a learner.                                     *)
LearnersOf(r) == IF r.scoped THEN Selectable ELSE {None}

ScreenTypeOK ==
    /\ screen \in Screens /\ focused \in BOOLEAN /\ learner \in LearnersOf(screen)
    /\ list \in Lists
    /\ stored \subseteq Writes
    /\ loads \in Seq(LoadRecords) /\ Len(loads) <= MaxLoads
    /\ press \in [Writes -> [op: screen.ops \union {None}, stage: Stages, again: BOOLEAN]]
    /\ faults \in 0..MaxFaults
    /\ sure \subseteq Writes /\ steady \in BOOLEAN

Init ==
    /\ screen \in Screens /\ focused = FALSE /\ learner \in LearnersOf(screen)
    /\ list = NoList /\ stored = {} /\ loads = <<>>
    /\ press = [w \in Writes |-> NoPress]
    /\ faults = 0 /\ sure = {} /\ steady = FALSE

Unused == {w \in Writes : press[w].stage = "none"}
NextPress == CHOOSE w \in Unused : TRUE
Op(w) == press[w].op
Changes(w) == Op(w) = None \/ Op(w).changes
Made == {w \in Writes : press[w].stage \in {"done", "told", "silent", "news"} /\ Changes(w)}
Pending(w) == press[w].stage \in {"sent", "done", "refused"} /\ Op(w) # None
Reloading(w) == \E i \in DOMAIN loads : loads[i].after = w
Room == Len(loads) < MaxLoads

-----------------------------------------------------------------------------
(* Loads.                                                                   *)

Begin(w) == loads' = Append(loads, NewLoad(learner, w))

(* The screen comes to the front, or leaves it; one that is mounted once     *)
(* does not ask again.                                                      *)
Focus ==
    /\ ~focused /\ Room
    /\ focused' = TRUE
    /\ IF screen.load = "focus" \/ list.kind = "nothing" THEN Begin(None) ELSE UNCHANGED loads
    /\ UNCHANGED <<screen, learner, list, stored, press, faults>>

Dropped == IF screen.cancels THEN <<>> ELSE loads
Blur ==
    /\ focused
    /\ focused' = FALSE
    /\ loads' = Dropped
    /\ UNCHANGED <<screen, learner, list, stored, press, faults>>

(* Another learner: the loader depends on it, so a screen in front loads.    *)
Switch(l) ==
    /\ screen.scoped /\ l # learner /\ Room
    /\ learner' = l
    /\ IF focused THEN loads' = Append(loads, NewLoad(l, None)) ELSE UNCHANGED loads
    /\ UNCHANGED <<screen, focused, list, stored, press, faults>>

(* The interval and "Try again"; a poll that would find nothing is left out. *)
OnlyFailed == list.failed  \* mutant
Behind == list.failed \/ list.has # Made
Poll ==
    /\ screen.polled \/ (focused /\ list.kind = "error")
    /\ Behind /\ Room
    /\ Begin(None)
    /\ UNCHANGED <<screen, focused, learner, list, stored, press, faults>>

Read(i) ==
    /\ loads[i].stage = "sent"
    /\ loads' = [loads EXCEPT ![i].stage = "read", ![i].has = Made]
    /\ UNCHANGED <<screen, focused, learner, list, stored, press, faults>>

(* setMessages(msgs): the whole list, the guesses in it included, and        *)
(* whatever was begun or put in since.                                      *)
Land(i) ==
    /\ loads[i].stage = "read"
    /\ list' = [kind |-> "list", has |-> loads[i].has, guess |-> {},
                of |-> loads[i].of, failed |-> FALSE]
    /\ stored' = loads[i].has
    /\ loads' = RemoveAt(loads, i)
    /\ UNCHANGED <<screen, focused, learner, press, faults>>

(* Both tries have failed.                                                  *)
KeepsList(l) == [list EXCEPT !.failed = TRUE]  \* mutant
AfterFailure(l) ==
    LET failed == [list EXCEPT !.failed = TRUE] IN
    CASE screen.onFail = "clear"  -> [failed EXCEPT !.kind = "list", !.has = {}, !.of = l.of]
      [] screen.onFail = "error"  -> [failed EXCEPT !.kind = "error"]
      [] screen.onFail = "stored" -> [failed EXCEPT !.kind = "list", !.has = stored, !.guess = {},
                                                    !.of = l.of]
      [] OTHER                    -> failed
LoadFails(i) ==
    /\ faults < MaxFaults
    /\ faults' = faults + 1
    /\ list' = AfterFailure(loads[i])
    /\ loads' = RemoveAt(loads, i)
    /\ UNCHANGED <<screen, focused, learner, stored, press>>

-----------------------------------------------------------------------------
(* Presses.                                                                 *)

(* The busy flag: up while the request is under way, and through the reload  *)
(* it awaits.                                                               *)
UnderWay(o) == \E w \in Writes : Op(w) = o /\ (Pending(w) \/ (o.waits /\ Reloading(w)))

Press(o) ==
    /\ focused /\ list.kind = "list" /\ Unused # {}
    /\ o.busy => ~UnderWay(o)
    /\ press' = [press EXCEPT ![NextPress] = [NoPress EXCEPT !.op = o, !.stage = "sent"]]
    /\ list' = [list EXCEPT !.guess = @ \union (IF o.optimistic THEN {NextPress} ELSE {})]
    /\ UNCHANGED <<screen, focused, learner, stored, loads, faults>>

(* The server; a try that was given up may still be made.                    *)
Apply(w) ==
    /\ press[w].stage \in {"sent", "unsure"}
    /\ press' = [press EXCEPT ![w].stage = IF @ = "sent" THEN "done" ELSE "silent"]
    /\ UNCHANGED <<screen, focused, learner, list, stored, loads, faults>>

Refuse(w) ==
    /\ press[w].stage = "sent"
    /\ press' = [press EXCEPT ![w].stage = "refused"]
    /\ UNCHANGED <<screen, focused, learner, list, stored, loads, faults>>

(* No answer in time: the same request again, once, though it may be made.   *)
Resend(w) ==
    /\ press[w].stage \in {"sent", "done"} /\ Op(w) # None /\ ~press[w].again /\ faults < MaxFaults
    /\ faults' = faults + 1
    /\ press' = [press EXCEPT ![w].again = TRUE]
    /\ UNCHANGED <<screen, focused, learner, list, stored, loads>>

Foreign ==
    /\ Unused # {}
    /\ press' = [press EXCEPT ![NextPress].stage = "news"]
    /\ UNCHANGED <<screen, focused, learner, list, stored, loads, faults>>

(* What the screen does with an answer: setX((xs) => ...), which a load that *)
(* was sent before may overwrite, or load().                                *)
Untouched(w) == list  \* mutant
Shown(w) ==
    IF Op(w).after = "local" THEN [list EXCEPT !.has = @ \union {w}] ELSE list
GoesOn(w) ==
    /\ Op(w).after = "reload" => Room
    /\ list' = Shown(w)
    /\ loads' = IF Op(w).after = "reload" THEN Append(loads, NewLoad(learner, w)) ELSE loads
    /\ focused' = (focused /\ Op(w).after # "leave")

Answer(w) ==
    /\ press[w].stage = "done" /\ Op(w) # None
    /\ press' = [press EXCEPT ![w].stage = "told"]
    /\ stored' = IF screen.onFail = "stored" THEN stored \union {w} ELSE stored
    /\ GoesOn(w)
    /\ UNCHANGED <<screen, learner, faults>>

(* An error, or the second try unanswered.  Where the client catches it the   *)
(* screen goes on as if it had been answered, a message still in its list;   *)
(* elsewhere it shows an alert and leaves its list alone.                     *)
NoneSwallowed(w) == FALSE  \* mutant
Swallowed(w) == Op(w).swallows
Error(w) ==
    /\ \/ press[w].stage = "refused"
          /\ press' = [press EXCEPT ![w].stage = "failed"]
          /\ UNCHANGED faults
       \/ press[w].stage \in {"sent", "done"} /\ press[w].again /\ faults < MaxFaults
          /\ press' = [press EXCEPT ![w].stage = IF @ = "sent" THEN "unsure" ELSE "silent"]
          /\ faults' = faults + 1
    /\ IF Swallowed(w) THEN GoesOn(w) ELSE UNCHANGED <<list, loads, focused>>
    /\ UNCHANGED <<screen, learner, stored>>

(* The event of a change, which may as well never arrive: a load at once.    *)
Poke(w) ==
    /\ screen.live /\ press[w].stage = "news" /\ Room
    /\ press' = [press EXCEPT ![w].stage = "silent"]
    /\ Begin(None)
    /\ UNCHANGED <<screen, focused, learner, list, stored, faults>>

-----------------------------------------------------------------------------
LoadSteps == \E i \in DOMAIN loads : Read(i) \/ Land(i)
Steps ==
    \/ Focus \/ Blur \/ Poll \/ Foreign
    \/ \E l \in Selectable : Switch(l)
    \/ \E i \in DOMAIN loads : Read(i) \/ Land(i) \/ LoadFails(i)
    \/ \E o \in screen.ops : Press(o)
    \/ \E w \in Writes : Apply(w) \/ Refuse(w) \/ Resend(w) \/ Answer(w) \/ Error(w) \/ Poke(w)

(* A load is alone if it is begun when no other is under way.  Noted are the *)
(* changes whose answers came before the last such load, or since then while *)
(* nothing was under way, and whether the learner is still the same.         *)
Told == {w \in Writes : press[w].stage = "told"}
Noted ==
    LET alone == loads = <<>> /\ loads' # <<>> IN
    /\ sure' = CASE alone        -> Told'
                 [] loads = <<>> -> sure \union (Told' \ Told)
                 [] OTHER        -> sure
    /\ steady' = (alone \/ (steady /\ learner' = learner))

Next == Steps /\ Noted

Spec == Init /\ [][Next]_vars

(* Requests time out, so that every load is answered or fails; intervals     *)
(* fire.                                                                    *)
Fairness == WF_vars(LoadSteps /\ Noted) /\ WF_vars(Poll /\ Noted)
FairSpec == Spec /\ Fairness

-----------------------------------------------------------------------------
Rests == loads = <<>> /\ list.kind = "list" /\ ~list.failed

(* A screen at rest shows every change that its own presses were told is     *)
(* made, from the first load on that was begun with nothing under way:       *)
(* whatever races and fails, what an answer and a load overwrite of each     *)
(* other is put right by the next visit, and stays right.                    *)
OwnChangeShown ==
    \A w \in sure : Rests /\ Op(w).changes => w \in list.has

(* A screen at rest shows every change that its own presses were told is     *)
(* made.                                                                    *)
(* It does not hold: a load that was sent before lands after it.             *)
OwnChangeShownAtOnce ==
    \A w \in Told : Rests /\ Op(w).changes => w \in list.has

(* A message on the screen that the server has not confirmed is one under    *)
(* way or about to be replaced: a failed one does not stay as if it were     *)
(* sent.                                                                    *)
NoGhost == \A w \in list.guess : Pending(w) \/ Reloading(w)

(* A list in front of a parent is that of the child who is selected, also    *)
(* when its load has failed, from the first load on that was begun with      *)
(* nothing under way: a child chosen while loads are under way may be given  *)
(* the list of the other until then.                                        *)
RightLearner ==
    focused /\ screen.scoped /\ loads = <<>> /\ list.kind = "list" /\ steady =>
        list.of = learner

(* A polled screen shows every change in the end, own or others', and none    *)
(* that was not made, also when answers, events and loads were lost, overtook *)
(* each other, or an error was taken for an answer.                          *)
Differs(w) == screen.polled /\ (w \in Made) # (w \in list.has)
PolledScreenCatchesUp == \A w \in Writes : Differs(w) ~> ~Differs(w)
=============================================================================
