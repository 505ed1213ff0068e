------------------------------ MODULE PhoneProofs -----------------------------
(* The phone.  For every table of screens that keeps ScreenRule, and any      *)
(* learners, changes, loads and faults: what a screen shows when its loads    *)
(* have landed.  Each invariant is about every load under way since the last  *)
(* one that was begun alone.                                                 *)
(*                                                                         *)
(* For every table of screens, any sessions and bounds: where the app may     *)
(* lead.                                                                    *)
EXTENDS PhoneScreen, PhoneApp, TLAPS

LastLoad == loads[Len(loads)]

(* Sequences of loads: one more, one less, one read.                         *)
LEMMA Appended ==
    ASSUME loads \in Seq(LoadRecords), NEW l \in LoadRecords, loads' = Append(loads, l)
    PROVE  /\ loads' \in Seq(LoadRecords) /\ loads' # <<>> /\ Len(loads') = Len(loads) + 1
           /\ LastLoad' = l
           /\ \A i \in DOMAIN loads : i \in DOMAIN loads' /\ loads'[i] = loads[i]
           /\ Len(loads') \in DOMAIN loads'
  BY DEF LastLoad

LEMMA Second ==
    ASSUME NEW S, NEW a \in Seq(S), NEW b \in Seq(S),
           NEW j \in 1..(Len(a) + Len(b)), ~(j <= Len(a))
    PROVE  (a \o b)[j] = b[j - Len(a)]
  OBVIOUS

LEMMA OverIs ==
    ASSUME loads \in Seq(LoadRecords), NEW i \in DOMAIN loads, loads' = RemoveAt(loads, i)
    PROVE  /\ loads' \in Seq(LoadRecords) /\ Len(loads') = Len(loads) - 1
           /\ \A j \in DOMAIN loads' : \E k \in DOMAIN loads : loads'[j] = loads[k]
  <1> DEFINE a == SubSeq(loads, 1, i - 1)
             b == SubSeq(loads, i + 1, Len(loads))
  <1>1. /\ a \in Seq(LoadRecords) /\ Len(a) = i - 1
        /\ \A j \in 1..(i - 1) : a[j] = loads[j]
    OBVIOUS
  <1>2. b \in Seq(LoadRecords) /\ Len(b) = Len(loads) - i
    OBVIOUS
  <1>3. \A j \in 1..(Len(loads) - i) : b[j] = loads[j + i]
    OBVIOUS
  <1>4. loads' = a \o b
    BY DEF RemoveAt
  <1>5. i \in Nat /\ Len(loads) \in Nat /\ i \in 1..Len(loads)
    OBVIOUS
  <1> HIDE DEF a, b
  <1>6. loads' \in Seq(LoadRecords) /\ Len(loads') = Len(loads) - 1
    BY <1>1, <1>2, <1>4, <1>5
  <1>7. ASSUME NEW j \in DOMAIN loads'
        PROVE  \E k \in DOMAIN loads : loads'[j] = loads[k]
    <2>0. j \in 1..Len(loads')
      BY <1>6
    <2>1. CASE j < i
      <3>1. j \in 1..(i - 1) /\ j \in DOMAIN loads
        BY <1>5, <1>6, <2>0, <2>1
      <3>2. loads'[j] = a[j]
        BY <1>1, <1>2, <1>4, <3>1
      <3> QED
        BY <1>1, <3>1, <3>2
    <2>2. CASE ~(j < i)
      <3>0. PICK n \in Nat : n = Len(loads)
        BY <1>5
      <3>5. j \in 1..(n - 1) /\ i \in 1..n
        BY <1>5, <1>6, <2>0, <3>0
      <3>6. /\ j - (i - 1) \in 1..(n - i) /\ (j - (i - 1)) + i = j + 1
            /\ j + 1 \in 1..n
        BY <2>2, <3>0, <3>5
      <3>1. /\ j - (i - 1) \in 1..(Len(loads) - i) /\ (j - (i - 1)) + i = j + 1
            /\ j + 1 \in DOMAIN loads
        BY <3>0, <3>6
      <3>2. j \in 1..(Len(a) + Len(b)) /\ ~(j <= Len(a)) /\ Len(a) = i - 1
        BY <1>1, <1>2, <1>5, <1>6, <2>0, <2>2
      <3>3. (a \o b)[j] = b[j - Len(a)]
        BY <1>1, <1>2, <3>2, Second
      <3>4. loads'[j] = loads[j + 1]
        BY <1>3, <1>4, <3>1, <3>2, <3>3
      <3> QED
        BY <3>1, <3>4
    <2> QED
      BY <2>1, <2>2
  <1> QED
    BY <1>6, <1>7

LEMMA ReadIs ==
    ASSUME loads \in Seq(LoadRecords), NEW i \in DOMAIN loads, Read(i)
    PROVE  /\ loads' \in Seq(LoadRecords) /\ Len(loads') = Len(loads) /\ loads' # <<>>
           /\ DOMAIN loads' = DOMAIN loads
           /\ \A j \in DOMAIN loads : /\ loads'[j].after = loads[j].after
                                      /\ loads'[j].of = loads[j].of
                                      /\ loads'[j].has = Made \/ loads'[j] = loads[j]
  <1>1. Made \in SUBSET Writes
    BY DEF Made
  <1>2. PICK l : l = [loads[i] EXCEPT !.stage = "read", !.has = Made]
    OBVIOUS
  <1>3. loads[i] \in LoadRecords
    OBVIOUS
  <1>4. l \in LoadRecords /\ l.after = loads[i].after /\ l.of = loads[i].of /\ l.has = Made
    BY <1>1, <1>2, <1>3 DEF LoadRecords
  <1>5. loads' = [loads EXCEPT ![i] = l]
    BY <1>2, <1>3 DEF Read, LoadRecords
  <1>6. loads' \in Seq(LoadRecords) /\ Len(loads') = Len(loads) /\ loads' # <<>>
    BY <1>4, <1>5
  <1>7. /\ DOMAIN loads' = DOMAIN loads
        /\ \A j \in DOMAIN loads : loads'[j] = IF j = i THEN l ELSE loads[j]
    BY <1>5
  <1> QED
    BY <1>2, <1>4, <1>6, <1>7
-----------------------------------------------------------------------------
(* The type invariant.                                                       *)
LEMMA NewLoadTyped ==
    ASSUME ScreenTypeOK, NEW l \in LearnersOf(screen), NEW w \in Writes \union {None}
    PROVE  NewLoad(l, w) \in LoadRecords
  BY DEF NewLoad, LoadRecords, LearnersOf

LEMMA NextPressFacts ==
    ASSUME Unused # {}
    PROVE  NextPress \in Writes /\ press[NextPress].stage = "none"
  BY DEF Unused, NextPress

(* The loads after any step, given room for one more.                        *)
LoadsKeep == loads' \in Seq(LoadRecords) /\ Len(loads') <= MaxLoads

LEMMA BeginTyped ==
    ASSUME ScreenTypeOK, NEW l \in LearnersOf(screen), NEW w \in Writes \union {None}, Room,
           loads' = Append(loads, NewLoad(l, w))
    PROVE  LoadsKeep
  <1>1. NewLoad(l, w) \in LoadRecords /\ loads \in Seq(LoadRecords)
    BY NewLoadTyped DEF ScreenTypeOK
  <1>2. Len(loads) < MaxLoads /\ Len(loads) \in Nat
    BY <1>1 DEF Room
  <1> QED
    BY <1>1, <1>2, Appended, BoundAssumption DEF LoadsKeep

LEMMA GoesOnTyped ==
    ASSUME ScreenTypeOK, NEW w \in Writes, GoesOn(w)
    PROVE  LoadsKeep /\ focused' \in BOOLEAN /\ list' \in Lists
  <1>1. loads \in Seq(LoadRecords) /\ Len(loads) <= MaxLoads /\ list \in Lists
        /\ focused \in BOOLEAN /\ learner \in LearnersOf(screen)
    BY DEF ScreenTypeOK
  <1>2. list' \in Lists
    BY <1>1 DEF GoesOn, Shown, Lists
  <1>3. focused' \in BOOLEAN
    BY <1>1 DEF GoesOn
  <1>4. LoadsKeep
    <2>1. CASE Op(w).after = "reload"
      BY <1>1, <2>1, BeginTyped DEF GoesOn
    <2>2. CASE Op(w).after # "reload"
      BY <1>1, <2>2 DEF GoesOn, LoadsKeep
    <2> QED
      BY <2>1, <2>2
  <1> QED
    BY <1>2, <1>3, <1>4

(* The type without the history.                                             *)
StateTyped ==
    /\ screen \in Screens /\ focused \in BOOLEAN /\ learner \in LearnersOf(screen)
    /\ list \in Lists
    /\ stored \subseteq Writes
    /\ loads \in Seq(LoadRecords) /\ Len(loads) <= MaxLoads
    /\ press \in [Writes -> [op: screen.ops \union {None}, stage: Stages, again: BOOLEAN]]
    /\ faults \in 0..MaxFaults

LEMMA LoadTyped ==
    ASSUME ScreenTypeOK, NEW i \in DOMAIN loads, Read(i) \/ Land(i) \/ LoadFails(i)
    PROVE  StateTyped'
  <1>1. loads \in Seq(LoadRecords) /\ Len(loads) <= MaxLoads /\ list \in Lists
        /\ Len(loads) \in Nat /\ stored \in SUBSET Writes /\ faults \in 0..MaxFaults
    BY DEF ScreenTypeOK
  <1>2. loads[i] \in LoadRecords
    BY <1>1
  <1>3. CASE Read(i)
    <2>1. LoadsKeep
      BY <1>1, <1>3, ReadIs DEF LoadsKeep
    <2> QED
      BY <1>3, <2>1 DEF Read, StateTyped, ScreenTypeOK, LoadsKeep
  <1>4. ASSUME loads' = RemoveAt(loads, i) PROVE LoadsKeep
    BY <1>1, <1>4, OverIs, BoundAssumption DEF LoadsKeep
  <1>5. CASE Land(i)
    <2>1. LoadsKeep
      BY <1>4, <1>5 DEF Land
    <2>4. list' \in Lists /\ stored' \in SUBSET Writes
      BY <1>2, <1>5 DEF Land, Lists, LoadRecords
    <2> QED
      BY <1>5, <2>1, <2>4 DEF Land, StateTyped, ScreenTypeOK, LoadsKeep
  <1>6. CASE LoadFails(i)
    <2>1. LoadsKeep
      BY <1>4, <1>6 DEF LoadFails
    <2>2. list' \in Lists
      BY <1>1, <1>2, <1>6 DEF LoadFails, AfterFailure, Lists, LoadRecords
    <2>3. faults' \in 0..MaxFaults
      BY <1>1, <1>6, BoundAssumption DEF LoadFails
    <2> QED
      BY <1>6, <2>1, <2>2, <2>3 DEF LoadFails, StateTyped, ScreenTypeOK, LoadsKeep
  <1> QED
    BY <1>3, <1>5, <1>6

Presses == [op: screen.ops \union {None}, stage: Stages, again: BOOLEAN]

LEMMA PressTyped ==
    ASSUME ScreenTypeOK, NEW w \in Writes, NEW r \in Presses, press' = [press EXCEPT ![w] = r]
    PROVE  press' \in [Writes -> Presses]
  BY DEF ScreenTypeOK, Presses

LEMMA StateTypedStep ==
    ASSUME ScreenTypeOK, Steps
    PROVE  StateTyped'
  <1>1. loads \in Seq(LoadRecords) /\ Len(loads) <= MaxLoads /\ list \in Lists
        /\ stored \in SUBSET Writes /\ faults \in 0..MaxFaults /\ focused \in BOOLEAN
        /\ learner \in LearnersOf(screen) /\ screen \in Screens
    BY DEF ScreenTypeOK
  <1>2. press \in [Writes -> Presses]
    BY DEF ScreenTypeOK, Presses
  <1>4. CASE Focus \/ Blur \/ Poll
    <2>1. LoadsKeep
      <3>1. CASE Blur
        BY <1>1, <3>1, BoundAssumption DEF Blur, Dropped, LoadsKeep
      <3>2. CASE Focus \/ Poll
        BY <1>1, <3>2, BeginTyped DEF Focus, Poll, Begin, LoadsKeep
      <3> QED
        BY <1>4, <3>1, <3>2
    <2> QED
      BY <1>1, <1>4, <2>1 DEF Focus, Blur, Poll, StateTyped, ScreenTypeOK, LoadsKeep
  <1>5. ASSUME NEW l \in Selectable, Switch(l) PROVE StateTyped'
    <2>1. l \in LearnersOf(screen)
      BY <1>5 DEF Switch, LearnersOf
    <2>2. LoadsKeep
      BY <1>1, <1>5, <2>1, BeginTyped DEF Switch, LoadsKeep
    <2> QED
      BY <1>5, <2>1, <2>2 DEF Switch, StateTyped, ScreenTypeOK, LoadsKeep
  <1>6. CASE Foreign
    <2>1. PICK w : w = NextPress
      OBVIOUS
    <2>2. w \in Writes
      BY <1>6, <2>1, NextPressFacts DEF Foreign
    <2>3. press' = [press EXCEPT ![w] = [press[w] EXCEPT !.stage = "news"]]
      BY <1>2, <1>6, <2>1, <2>2 DEF Foreign
    <2>4. press' \in [Writes -> Presses]
      BY <1>2, <2>2, <2>3, PressTyped DEF Presses, Stages
    <2> QED
      BY <1>6, <2>4 DEF Foreign, StateTyped, ScreenTypeOK, Presses
  <1>7. ASSUME NEW o \in screen.ops, Press(o) PROVE StateTyped'
    <2>1. PICK w : w = NextPress
      OBVIOUS
    <2>2. w \in Writes
      BY <1>7, <2>1, NextPressFacts DEF Press
    <2>3. press' \in [Writes -> Presses]
      BY <1>2, <1>7, <2>1, <2>2, PressTyped DEF Press, Presses, Stages, NoPress
    <2>4. list' \in Lists
      BY <1>1, <1>7, <2>1, <2>2 DEF Press, Lists
    <2> QED
      BY <1>7, <2>3, <2>4 DEF Press, StateTyped, ScreenTypeOK, Presses
  <1>8. ASSUME NEW w \in Writes, Apply(w) \/ Refuse(w) \/ Resend(w) \/ Poke(w)
        PROVE  StateTyped'
    <2>1. press' \in [Writes -> Presses]
      <3>1. CASE Resend(w)
        BY <1>2, <3>1 DEF Resend, Presses
      <3>2. CASE Apply(w) \/ Refuse(w) \/ Poke(w)
        BY <1>2, <3>2 DEF Apply, Refuse, Poke, Presses, Stages
      <3> QED
        BY <1>8, <3>1, <3>2
    <2>2. LoadsKeep
      BY <1>1, <1>8, BeginTyped DEF Apply, Refuse, Resend, Poke, Begin, LoadsKeep
    <2>3. faults' \in 0..MaxFaults
      BY <1>1, <1>8, BoundAssumption DEF Apply, Refuse, Resend, Poke
    <2> QED
      BY <1>8, <2>1, <2>2, <2>3 DEF Apply, Refuse, Resend, Poke, StateTyped, ScreenTypeOK, LoadsKeep, Presses
  <1>9. ASSUME NEW w \in Writes, Answer(w) PROVE StateTyped'
    <2>1. press' \in [Writes -> Presses]
      BY <1>2, <1>9 DEF Answer, Presses, Stages
    <2>2. stored' \in SUBSET Writes
      BY <1>1, <1>9 DEF Answer
    <2>3. LoadsKeep /\ focused' \in BOOLEAN /\ list' \in Lists
      BY <1>9, GoesOnTyped DEF Answer
    <2> QED
      BY <1>9, <2>1, <2>2, <2>3 DEF Answer, StateTyped, ScreenTypeOK, LoadsKeep, Presses
  <1>10. ASSUME NEW w \in Writes, Error(w) PROVE StateTyped'
    <2>1. press' \in [Writes -> Presses]
      BY <1>2, <1>10 DEF Error, Presses, Stages
    <2>2. faults' \in 0..MaxFaults
      BY <1>1, <1>10, BoundAssumption DEF Error
    <2>3. LoadsKeep /\ focused' \in BOOLEAN /\ list' \in Lists
      BY <1>1, <1>10, GoesOnTyped DEF Error, LoadsKeep
    <2> QED
      BY <1>10, <2>1, <2>2, <2>3 DEF Error, StateTyped, ScreenTypeOK, LoadsKeep, Presses
  <1> QED
    BY <1>4, <1>5, <1>6, <1>7, <1>8, <1>9, <1>10, LoadTyped DEF Steps
LEMMA ScreenTypedStep ==
    ASSUME ScreenTypeOK, [Next]_vars
    PROVE  ScreenTypeOK'
  <1>1. CASE UNCHANGED vars
    BY <1>1 DEF vars, ScreenTypeOK
  <1>2. CASE Next
    <2>1. StateTyped'
      BY <1>2, StateTypedStep DEF Next
    <2>2. sure' \subseteq Writes
      BY <1>2 DEF Next, Noted, Told, ScreenTypeOK
    <2>3. steady' \in BOOLEAN
      BY <1>2 DEF Next, Noted
    <2> QED
      BY <2>1, <2>2, <2>3 DEF StateTyped, ScreenTypeOK
  <1> QED
    BY <1>1, <1>2
-----------------------------------------------------------------------------
(* Of which learner the list is: when the history is steady, every load under *)
(* way is of the learner that is selected.                                   *)
LearnerInv ==
    steady /\ screen.scoped =>
        /\ \A i \in DOMAIN loads : loads[i].of = learner
        /\ focused /\ loads = <<>> /\ list.kind = "list" => list.of = learner

(* A load is begun for the selected learner.                                 *)
LEMMA BegunForLearner ==
    ASSUME ScreenTypeOK, LearnerInv, Noted, screen' = screen,
           NEW l \in LearnersOf(screen), NEW w \in Writes \union {None},
           loads' = Append(loads, NewLoad(l, w)), learner' = l
    PROVE  LearnerInv'
  <1>1. NewLoad(l, w) \in LoadRecords /\ loads \in Seq(LoadRecords)
    BY NewLoadTyped DEF ScreenTypeOK
  <1>2. loads' # <<>> /\ Len(loads') = Len(loads) + 1
    BY <1>1, Appended
  <1>3. ASSUME steady', screen.scoped, NEW i \in DOMAIN loads' PROVE loads'[i].of = learner'
    <2>1. CASE i = Len(loads')
      BY <1>1, <2>1, Appended DEF LastLoad, NewLoad
    <2>2. CASE i # Len(loads')
      <3>1. i \in DOMAIN loads /\ loads # <<>>
        BY <1>1, <1>2, <1>3, <2>2
      <3>2. loads'[i] = loads[i]
        BY <1>1, <3>1, Appended
      <3>3. steady /\ learner' = learner
        BY <1>3, <3>1 DEF Noted
      <3> QED
        BY <1>3, <3>1, <3>2, <3>3 DEF LearnerInv
    <2> QED
      BY <2>1, <2>2
  <1> QED
    BY <1>2, <1>3 DEF LearnerInv

(* A step that begins none.                                                  *)
LEMMA LearnerKept ==
    ASSUME LearnerInv, Noted, screen' = screen, loads = <<>> => loads' = <<>>,
           \A i \in DOMAIN loads' : \E j \in DOMAIN loads : loads'[i].of = loads[j].of,
           steady /\ screen.scoped /\ focused' /\ loads' = <<>> /\ list'.kind = "list" =>
               list'.of = learner
    PROVE  LearnerInv'
  <1>1. steady' => steady /\ learner' = learner
    BY DEF Noted
  <1> QED
    BY <1>1 DEF LearnerInv

LEMMA LearnerGoesOn ==
    ASSUME ScreenTypeOK, LearnerInv, Noted, NEW w \in Writes, GoesOn(w),
           UNCHANGED <<screen, learner>>
    PROVE  LearnerInv'
  <1>1. loads \in Seq(LoadRecords) /\ list \in Lists /\ learner \in LearnersOf(screen)
    BY DEF ScreenTypeOK
  <1>2. (focused' => focused) /\ list'.kind = list.kind /\ list'.of = list.of
    BY <1>1 DEF GoesOn, Shown, Lists
  <1>3. CASE Op(w).after = "reload"
    BY <1>1, <1>3, BegunForLearner DEF GoesOn
  <1>4. CASE Op(w).after # "reload"
    <2>1. loads' = loads
      BY <1>4 DEF GoesOn
    <2> QED
      BY <1>2, <2>1, LearnerKept DEF LearnerInv
  <1> QED
    BY <1>3, <1>4

LEMMA LearnerLoads ==
    ASSUME ScreenRule, ScreenTypeOK, LearnerInv, Noted,
           NEW i \in DOMAIN loads, Read(i) \/ Land(i) \/ LoadFails(i)
    PROVE  LearnerInv'
  <1>1. loads \in Seq(LoadRecords) /\ list \in Lists /\ screen \in Screens /\ loads # <<>>
    BY DEF ScreenTypeOK
  <1>2. loads[i] \in LoadRecords
    BY <1>1
  <1>3. CASE Read(i)
    BY <1>1, <1>3, ReadIs, LearnerKept DEF Read
  <1>4. CASE Land(i) \/ LoadFails(i)
    <2>1. loads' = RemoveAt(loads, i) /\ UNCHANGED <<screen, focused, learner>>
      BY <1>4 DEF Land, LoadFails
    <2>2. screen.scoped /\ list'.kind = "list" => list'.of = loads[i].of
      <3>1. CASE Land(i)
        BY <3>1 DEF Land
      <3>2. CASE LoadFails(i)
        <4>1. screen.scoped => screen.onFail # "keep" /\ screen.onFail \in {"clear", "keep", "error", "stored"}
          BY <1>1, ScreenAssumption DEF ScreenRule, RowRule
        <4>2. list' = AfterFailure(loads[i])
          BY <3>2 DEF LoadFails
        <4> QED
          BY <1>1, <4>1, <4>2 DEF AfterFailure, Lists
      <3> QED
        BY <1>4, <3>1, <3>2
    <2>3. \A j \in DOMAIN loads' : \E k \in DOMAIN loads : loads'[j].of = loads[k].of
      BY <1>1, <2>1, OverIs
    <2>4. steady /\ screen.scoped => loads[i].of = learner
      BY DEF LearnerInv
    <2> QED
      BY <1>1, <2>1, <2>2, <2>3, <2>4, LearnerKept
  <1> QED
    BY <1>3, <1>4

LEMMA LearnerStep ==
    ASSUME ScreenRule, ScreenTypeOK, LearnerInv, [Next]_vars
    PROVE  LearnerInv'
  <1>1. list \in Lists /\ screen \in Screens /\ learner \in LearnersOf(screen)
    BY DEF ScreenTypeOK
  <1>12. CASE UNCHANGED vars
    BY <1>12 DEF vars, LearnerInv
  <1> SUFFICES ASSUME Steps, Noted PROVE LearnerInv'
    BY <1>12 DEF Next
  <1>2. ASSUME UNCHANGED <<screen, focused, learner, loads>>,
               list'.kind = list.kind, list'.of = list.of
        PROVE  LearnerInv'
    BY <1>2, LearnerKept DEF LearnerInv
  <1>3. CASE Foreign
    BY <1>2, <1>3 DEF Foreign
  <1>4. CASE Focus
    <2>1. CASE screen.scoped
      <3>1. Begin(None) /\ learner' = learner /\ screen' = screen
        BY <1>1, <1>4, <2>1 DEF Focus, ScreenRule, RowRule
      <3> QED
        BY <1>1, <3>1, BegunForLearner DEF Begin
    <2>2. CASE ~screen.scoped
      BY <1>4, <2>2 DEF Focus, LearnerInv
    <2> QED
      BY <2>1, <2>2
  <1>5. CASE Blur
    <2>1. ~focused' /\ loads' \in {loads, <<>>} /\ UNCHANGED <<screen, learner>>
      BY <1>5 DEF Blur, Dropped
    <2> QED
      BY <2>1, LearnerKept
  <1>6. CASE Poll
    BY <1>1, <1>6, BegunForLearner DEF Poll, Begin
  <1>7. ASSUME NEW l \in Selectable, Switch(l) PROVE LearnerInv'
    <2>1. CASE focused
      BY <1>7, <2>1, BegunForLearner DEF Switch, LearnersOf
    <2>2. CASE ~focused
      BY <1>7, <2>2, LearnerKept DEF Switch
    <2> QED
      BY <2>1, <2>2
  <1>8. ASSUME NEW o \in screen.ops, Press(o) PROVE LearnerInv'
    BY <1>1, <1>2, <1>8 DEF Press, Lists
  <1>9. ASSUME NEW w \in Writes, Apply(w) \/ Refuse(w) \/ Resend(w) PROVE LearnerInv'
    BY <1>2, <1>9 DEF Apply, Refuse, Resend
  <1>10. ASSUME NEW w \in Writes, Poke(w) PROVE LearnerInv'
    BY <1>1, <1>10, BegunForLearner DEF Poke, Begin
  <1>11. ASSUME NEW w \in Writes, Answer(w) \/ Error(w) PROVE LearnerInv'
    <2>1. CASE GoesOn(w) /\ UNCHANGED <<screen, learner>>
      BY <2>1, LearnerGoesOn
    <2>2. CASE UNCHANGED <<screen, focused, learner, loads, list>>
      BY <1>2, <2>2
    <2> QED
      BY <1>11, <2>1, <2>2 DEF Answer, Error
  <1> QED
    BY <1>3, <1>4, <1>5, <1>6, <1>7, <1>8, <1>9, <1>10, <1>11, LearnerLoads DEF Steps

-----------------------------------------------------------------------------
(* A guess on the screen: its request is under way, or the load that its      *)
(* answer began is; any load that is over takes all guesses off the list.     *)
GhostInv ==
    \A w \in list.guess : /\ press[w].stage # "none" /\ Op(w) \in screen.ops /\ Op(w).optimistic
                          /\ Pending(w) \/ Reloading(w)

(* Guesses stay, or the list is replaced; requests stay, or their load began. *)
LEMMA GhostStays ==
    ASSUME GhostInv, screen' = screen, list'.guess \subseteq list.guess,
           \A w \in list.guess : /\ press'[w].stage # "none" /\ Op(w)' = Op(w)
                                 /\ Reloading(w) => Reloading(w)'
                                 /\ Pending(w) => Pending(w)' \/ Reloading(w)'
    PROVE  GhostInv'
  BY DEF GhostInv

LEMMA ReloadingStays ==
    ASSUME loads \in Seq(LoadRecords), NEW w, Reloading(w),
           \/ \E l \in LoadRecords : loads' = Append(loads, l)
           \/ loads' = loads
           \/ \E i \in DOMAIN loads : Read(i)
    PROVE  Reloading(w)'
  <1>1. PICK i \in DOMAIN loads : loads[i].after = w
    BY DEF Reloading
  <1>2. loads[i] \in LoadRecords
    BY <1>1
  <1>3. CASE \E l \in LoadRecords : loads' = Append(loads, l)
    BY <1>1, <1>3, Appended DEF Reloading
  <1>5. CASE loads' = loads
    BY <1>1, <1>5 DEF Reloading
  <1>6. ASSUME NEW j \in DOMAIN loads, Read(j) PROVE Reloading(w)'
    BY <1>1, <1>6, ReadIs DEF Reloading
  <1> QED
    BY <1>3, <1>5, <1>6

(* What a screen that goes on does with the guess of its press.               *)
LEMMA GhostGoesOn ==
    ASSUME ScreenRule, ScreenTypeOK, GhostInv, NEW w \in Writes, GoesOn(w),
           UNCHANGED <<screen, learner>>, NEW stage \in Stages \ {"none"},
           press' = [press EXCEPT ![w].stage = stage]
    PROVE  GhostInv'
  <1>1. /\ loads \in Seq(LoadRecords) /\ list \in Lists /\ learner \in LearnersOf(screen)
        /\ screen \in Screens /\ press \in [Writes -> Presses]
    BY DEF ScreenTypeOK, Op, Presses
  <1>2. list'.guess = list.guess /\ list.guess \subseteq Writes
    BY <1>1 DEF GoesOn, Shown, Lists
  <1>3. NewLoad(learner, w) \in LoadRecords
    BY <1>1, NewLoadTyped
  <1>4. loads' \in {Append(loads, NewLoad(learner, w)), loads}
    BY DEF GoesOn
  <1>5. ASSUME NEW v \in list.guess
        PROVE  /\ press'[v].stage # "none" /\ Op(v)' = Op(v)
               /\ Reloading(v) => Reloading(v)'
               /\ Pending(v) => Pending(v)' \/ Reloading(v)'
    <2>1. v \in Writes /\ press[v].stage # "none" /\ Op(v) \in screen.ops /\ Op(v).optimistic
      BY <1>2 DEF GhostInv
    <2>2. press'[v].stage # "none" /\ press'[v].op = press[v].op /\ (v # w => press'[v] = press[v])
      BY <1>1, <2>1 DEF Presses
    <2>3. Reloading(v) => Reloading(v)'
      BY <1>1, <1>3, <1>4, ReloadingStays
    <2>4. CASE v # w
      BY <2>2, <2>3, <2>4 DEF Pending, Op
    <2>5. CASE v = w
      <3>1. loads' = Append(loads, NewLoad(learner, w))
        BY <1>1, <2>1, <2>5 DEF ScreenRule, RowRule, GoesOn
      <3>2. LastLoad' = NewLoad(learner, w) /\ Len(loads') \in DOMAIN loads'
        BY <1>1, <1>3, <3>1, Appended
      <3>3. Reloading(w)'
        BY <3>2 DEF Reloading, LastLoad, NewLoad
      <3> QED
        BY <2>2, <2>3, <2>5, <3>3 DEF Op
    <2> QED
      BY <2>4, <2>5
  <1> QED
    BY <1>2, <1>5, GhostStays

LEMMA GhostStep ==
    ASSUME ScreenRule, ScreenTypeOK, GhostInv, [Next]_vars
    PROVE  GhostInv'
  <1>1. /\ loads \in Seq(LoadRecords) /\ list \in Lists /\ learner \in LearnersOf(screen)
        /\ screen \in Screens /\ list.guess \subseteq Writes /\ press \in [Writes -> Presses]
    BY DEF ScreenTypeOK, Lists, Presses
  <1>2. ASSUME UNCHANGED <<screen, list>>,
               \/ \E l \in LoadRecords : loads' = Append(loads, l)
               \/ loads' = loads
               \/ \E i \in DOMAIN loads : Read(i),
               \A w \in list.guess : /\ press'[w].stage # "none" /\ Op(w)' = Op(w)
                                     /\ Pending(w) => Pending(w)'
        PROVE  GhostInv'
    BY <1>1, <1>2, GhostStays, ReloadingStays
  <1>3. ASSUME UNCHANGED <<screen, list, press>>,
               \/ \E l \in LoadRecords : loads' = Append(loads, l)
               \/ loads' = loads
               \/ \E i \in DOMAIN loads : Read(i)
        PROVE  GhostInv'
    BY <1>2, <1>3 DEF GhostInv, Pending, Op
  <1>4. \A l \in LearnersOf(screen) : NewLoad(l, None) \in LoadRecords
    BY <1>1, NewLoadTyped
  <1>5. CASE UNCHANGED vars \/ Focus \/ Poll
    BY <1>1, <1>3, <1>4, <1>5 DEF vars, Focus, Poll, Begin
  <1>6. CASE Blur
    <2>1. CASE screen.cancels
      <3>1. list.guess = {}
        BY <1>1, <2>1 DEF GhostInv, ScreenRule, RowRule
      <3> QED
        BY <1>6, <3>1 DEF Blur, GhostInv
    <2>2. CASE ~screen.cancels
      BY <1>3, <1>6, <2>2 DEF Blur, Dropped
    <2> QED
      BY <2>1, <2>2
  <1>7. ASSUME NEW l \in Selectable, Switch(l) PROVE GhostInv'
    <2>1. l \in LearnersOf(screen)
      BY <1>7 DEF Switch, LearnersOf
    <2> QED
      BY <1>3, <1>4, <1>7, <2>1 DEF Switch
  <1>8. ASSUME NEW i \in DOMAIN loads, Read(i) \/ Land(i) \/ LoadFails(i) PROVE GhostInv'
    <2>1. CASE Read(i)
      BY <1>3, <2>1 DEF Read
    <2>2. CASE Land(i)
      BY <2>2 DEF Land, GhostInv
    <2>3. CASE LoadFails(i)
      <3>1. list.guess = {} \/ screen.onFail = "stored"
        BY <1>1 DEF GhostInv, ScreenRule, RowRule
      <3>2. list'.guess = {}
        BY <1>1, <2>3, <3>1 DEF LoadFails, AfterFailure, Lists
      <3> QED
        BY <3>2 DEF GhostInv
    <2> QED
      BY <1>8, <2>1, <2>2, <2>3
  <1>9. CASE Foreign
    <2>1. PICK w \in Writes : w = NextPress /\ press[w].stage = "none"
      BY <1>9, NextPressFacts DEF Foreign
    <2>2. w \notin list.guess
      BY <2>1 DEF GhostInv
    <2>3. UNCHANGED <<screen, list, loads>> /\ \A v \in Writes \ {w} : press'[v] = press[v]
      BY <1>1, <1>9, <2>1 DEF Foreign
    <2> QED
      BY <1>1, <1>2, <2>2, <2>3 DEF Pending, Op, GhostInv
  <1>10. ASSUME NEW o \in screen.ops, Press(o) PROVE GhostInv'
    <2>1. PICK w \in Writes : w = NextPress /\ press[w].stage = "none"
      BY <1>10, NextPressFacts DEF Press
    <2>2. w \notin list.guess
      BY <2>1 DEF GhostInv
    <2>3. /\ UNCHANGED <<screen, loads>>
          /\ \A v \in Writes \ {w} : press'[v] = press[v]
          /\ press'[w].op = o /\ press'[w].stage = "sent"
      BY <1>1, <1>10, <2>1 DEF Press, NoPress
    <2>4. list'.guess = list.guess \union (IF o.optimistic THEN {w} ELSE {})
      BY <1>1, <1>10, <2>1 DEF Press, Lists
    <2>5. o # None
      BY <1>1, <1>10, ScreenAssumption
    <2> SUFFICES ASSUME NEW v \in list'.guess
                 PROVE  /\ press'[v].stage # "none" /\ Op(v)' \in screen'.ops /\ Op(v)'.optimistic
                        /\ Pending(v)' \/ Reloading(v)'
      BY DEF GhostInv
    <2>6. CASE v = w
      BY <1>10, <2>2, <2>3, <2>4, <2>5, <2>6 DEF Pending, Op
    <2>7. CASE v # w
      <3>1. v \in list.guess /\ v \in Writes
        BY <1>1, <2>4, <2>7
      <3>2. press'[v] = press[v]
        BY <2>3, <2>7, <3>1
      <3>3. Reloading(v) => Reloading(v)'
        BY <2>3 DEF Reloading
      <3> QED
        BY <2>3, <3>1, <3>2, <3>3 DEF GhostInv, Pending, Op
    <2> QED
      BY <2>6, <2>7
  <1>11. ASSUME NEW w \in Writes, Apply(w) \/ Refuse(w) \/ Resend(w) \/ Poke(w) PROVE GhostInv'
    <2>1. \A v \in Writes : /\ press'[v].op = press[v].op
                            /\ press[v].stage # "none" => press'[v].stage # "none"
                            /\ press[v].stage \in {"sent", "done", "refused"}
                                  => press'[v].stage \in {"sent", "done", "refused"}
      <3>1. CASE Resend(w)
        BY <1>1, <3>1 DEF Resend, Presses
      <3>2. CASE Apply(w) \/ Refuse(w) \/ Poke(w)
        BY <1>1, <3>2 DEF Apply, Refuse, Poke, Presses
      <3> QED
        BY <1>11, <3>1, <3>2
    <2>2. UNCHANGED <<screen, list>> /\ \/ \E l \in LoadRecords : loads' = Append(loads, l)
                                        \/ loads' = loads
      BY <1>1, <1>4, <1>11 DEF Apply, Refuse, Resend, Poke, Begin
    <2>3. \A v \in list.guess : /\ press'[v].stage # "none" /\ Op(v)' = Op(v)
                                /\ Pending(v) => Pending(v)'
      BY <1>1, <2>1 DEF GhostInv, Pending, Op
    <2> QED
      BY <1>2, <2>2, <2>3
  <1>12. ASSUME NEW w \in Writes, Answer(w) PROVE GhostInv'
    BY <1>12, GhostGoesOn DEF Answer, Stages
  <1>13. ASSUME NEW w \in Writes, Error(w) PROVE GhostInv'
    <2>1. PICK stage \in Stages \ {"none"} : press' = [press EXCEPT ![w].stage = stage]
      <3>1. CASE press' = [press EXCEPT ![w].stage = "failed"]
        BY <3>1 DEF Stages
      <3>2. CASE press' = [press EXCEPT ![w].stage = IF @ = "sent" THEN "unsure" ELSE "silent"]
        <4>1. PICK stage : stage = IF press[w].stage = "sent" THEN "unsure" ELSE "silent"
          OBVIOUS
        <4>2. press' = [press EXCEPT ![w].stage = stage]
          BY <1>1, <3>2, <4>1
        <4>3. stage \in Stages \ {"none"}
          BY <4>1 DEF Stages
        <4> QED
          BY <4>2, <4>3
      <3> QED
        BY <1>13, <3>1, <3>2 DEF Error
    <2>2. CASE Swallowed(w)
      BY <1>13, <2>1, <2>2, GhostGoesOn DEF Error
    <2>3. CASE ~Swallowed(w)
      <3>1. UNCHANGED <<screen, list, loads>>
        BY <1>13, <2>3 DEF Error
      <3>2. w \notin list.guess
        BY <1>1, <2>3 DEF GhostInv, Swallowed, ScreenRule, RowRule
      <3>3. \A v \in Writes \ {w} : press'[v] = press[v]
        BY <1>1, <2>1
      <3> QED
        BY <1>1, <1>2, <3>1, <3>2, <3>3 DEF Pending, Op, GhostInv
    <2> QED
      BY <2>2, <2>3
  <1> QED
    BY <1>5, <1>6, <1>7, <1>8, <1>9, <1>10, <1>11, <1>12, <1>13 DEF Next, Steps
-----------------------------------------------------------------------------
(* A change that is sure is in the list of a screen at rest, and in whatever  *)
(* a load under way has read.                                                *)
Holds(w) ==
    /\ \A i \in DOMAIN loads : loads[i].stage = "read" => w \in loads[i].has
    /\ Rests => w \in list.has

ChangeInv ==
    /\ sure \subseteq Told
    /\ \A w \in Told : Op(w) \in screen.ops
    /\ \A w \in sure : Op(w).changes => Holds(w)

(* What becomes sure in a step.                                              *)
LEMMA SureStep ==
    ASSUME ScreenTypeOK, ChangeInv, Noted, screen' = screen,
           \A w \in Told' \ Told : Op(w)' \in screen.ops,
           \A w \in Told : w \in Told' /\ Op(w)' = Op(w),
           \A w \in sure : Op(w).changes => Holds(w)',
           \A w \in Told' : loads = <<>> /\ (loads' # <<>> \/ w \notin Told) /\ Op(w)'.changes =>
                              Holds(w)'
    PROVE  ChangeInv'
  <1>1. sure \subseteq Told /\ \A w \in Told : Op(w) \in screen.ops
    BY DEF ChangeInv
  <1>2. \A w \in Told' : Op(w)' \in screen'.ops
    BY <1>1
  <1>3. sure' \subseteq Told'
    BY <1>1 DEF Noted
  <1>4. ASSUME NEW w \in sure', Op(w)'.changes PROVE Holds(w)'
    <2>1. CASE w \in sure
      BY <1>1, <1>4, <2>1
    <2>2. CASE w \notin sure
      <3>1. w \in Told' /\ loads = <<>> /\ (loads' # <<>> \/ w \notin Told)
        BY <1>3, <1>4, <2>2 DEF Noted
      <3> QED
        BY <1>4, <3>1
    <2> QED
      BY <2>1, <2>2
  <1> QED
    BY <1>2, <1>3, <1>4 DEF ChangeInv

LEMMA BegunHolds ==
    ASSUME ScreenTypeOK, NEW l \in LearnersOf(screen), NEW v \in Writes \union {None},
           loads' = Append(loads, NewLoad(l, v)), NEW w, loads = <<>> \/ Holds(w)
    PROVE  Holds(w)'
  <1>1. NewLoad(l, v) \in LoadRecords /\ loads \in Seq(LoadRecords)
    BY NewLoadTyped DEF ScreenTypeOK
  <1>2. loads' # <<>> /\ Len(loads') = Len(loads) + 1
    BY <1>1, Appended
  <1>3. ASSUME NEW i \in DOMAIN loads', loads'[i].stage = "read" PROVE w \in loads'[i].has
    <2>1. i # Len(loads')
      BY <1>1, <1>3, Appended DEF LastLoad, NewLoad
    <2>2. i \in DOMAIN loads /\ loads # <<>>
      BY <1>1, <1>2, <1>3, <2>1
    <2>3. loads'[i] = loads[i]
      BY <1>1, <2>2, Appended
    <2> QED
      BY <1>3, <2>2, <2>3 DEF Holds
  <1> QED
    BY <1>2, <1>3 DEF Holds, Rests

LEMMA LoadHolds ==
    ASSUME ScreenTypeOK, NEW w \in Told, Op(w).changes, Holds(w),
           NEW i \in DOMAIN loads, Read(i) \/ Land(i) \/ LoadFails(i)
    PROVE  Holds(w)'
  <1>1. loads \in Seq(LoadRecords) /\ list \in Lists /\ screen \in Screens /\ loads # <<>>
    BY DEF ScreenTypeOK
  <1>2. loads[i] \in LoadRecords
    BY <1>1
  <1>4. CASE Read(i)
    <2>1. w \in Made
      BY DEF Told, Made, Changes
    <2>2. \A j \in DOMAIN loads' : loads'[j].stage = "read" => w \in loads'[j].has
      BY <1>1, <1>4, <2>1, ReadIs DEF Holds
    <2>3. loads' # <<>>
      BY <1>1, <1>4, ReadIs
    <2> QED
      BY <2>2, <2>3 DEF Holds, Rests
  <1>5. CASE Land(i) \/ LoadFails(i)
    <2>1. loads' = RemoveAt(loads, i)
      BY <1>5 DEF Land, LoadFails
    <2>2. \A j \in DOMAIN loads' : loads'[j].stage = "read" => w \in loads'[j].has
      BY <1>1, <2>1, OverIs DEF Holds
    <2>3. CASE Land(i)
      <3>1. list'.has = loads[i].has /\ loads[i].stage = "read"
        BY <2>3 DEF Land
      <3>2. w \in list'.has
        BY <3>1 DEF Holds
      <3> QED
        BY <2>2, <3>2 DEF Holds
    <2>4. CASE LoadFails(i)
      <3>1. list'.failed
        BY <1>1, <2>4 DEF LoadFails, AfterFailure, Lists
      <3> QED
        BY <2>2, <3>1 DEF Holds, Rests
    <2> QED
      BY <1>5, <2>3, <2>4
  <1> QED
    BY <1>4, <1>5

(* A screen that goes on: what it held, and what its press changed.           *)
LEMMA GoesOnHolds ==
    ASSUME ScreenTypeOK, NEW w \in Writes, GoesOn(w), NEW v,
           \/ Holds(v)
           \/ loads = <<>> /\ Op(w).after = "reload"
           \/ loads = <<>> /\ Op(w).after = "local" /\ v = w
    PROVE  Holds(v)'
  <1>1. loads \in Seq(LoadRecords) /\ list \in Lists /\ learner \in LearnersOf(screen)
    BY DEF ScreenTypeOK
  <1>2. CASE Op(w).after = "reload"
    <2>1. loads' = Append(loads, NewLoad(learner, w))
      BY <1>2 DEF GoesOn
    <2>2. loads = <<>> \/ Holds(v)
      BY <1>2
    <2> QED
      BY <1>1, <2>1, <2>2, BegunHolds
  <1>3. CASE Op(w).after = "local"
    <2>1. loads' = loads /\ list' = [list EXCEPT !.has = list.has \union {w}]
      BY <1>3 DEF GoesOn, Shown
    <2>2. /\ list'.has = list.has \union {w} /\ list'.kind = list.kind
          /\ list'.failed = list.failed
      BY <1>1, <2>1 DEF Lists
    <2>3. CASE Holds(v)
      BY <2>1, <2>2, <2>3 DEF Holds, Rests
    <2>4. CASE loads = <<>> /\ v = w
      BY <2>1, <2>2, <2>4 DEF Holds
    <2> QED
      BY <1>3, <2>3, <2>4
  <1>4. CASE Op(w).after \notin {"reload", "local"}
    <2>1. UNCHANGED <<loads, list>>
      BY <1>4 DEF GoesOn, Shown
    <2> QED
      BY <1>4, <2>1 DEF Holds, Rests
  <1> QED
    BY <1>2, <1>3, <1>4

LEMMA ChangeStep ==
    ASSUME ScreenRule, ScreenTypeOK, ChangeInv, [Next]_vars
    PROVE  ChangeInv'
  <1>1. /\ loads \in Seq(LoadRecords) /\ list \in Lists /\ learner \in LearnersOf(screen)
        /\ screen \in Screens /\ press \in [Writes -> Presses]
    BY DEF ScreenTypeOK, Presses
  <1>2. /\ sure \subseteq Told /\ \A w \in Told : Op(w) \in screen.ops
        /\ \A w \in sure : Op(w).changes => Holds(w)
    BY DEF ChangeInv
  <1>13. CASE UNCHANGED vars
    BY <1>13 DEF vars, ChangeInv, Told, Op, Holds, Rests
  <1> SUFFICES ASSUME Steps, Noted PROVE ChangeInv'
    BY <1>13 DEF Next
  <1> DEFINE Same == \A w \in Writes : /\ press'[w].stage = "told" <=> press[w].stage = "told"
                                       /\ press[w].stage = "told" => press'[w].op = press[w].op
             Listed == list'.kind = list.kind /\ list'.failed = list.failed /\ list'.has = list.has
  <1>14. ASSUME Same PROVE Told' = Told /\ \A w \in Told : Op(w)' = Op(w)
    BY <1>14 DEF Told, Op
  <1>3. ASSUME screen' = screen, Same,
               \/ \E l \in LearnersOf(screen), v \in Writes \union {None} :
                     loads' = Append(loads, NewLoad(l, v))
               \/ loads' = loads /\ Listed
        PROVE  ChangeInv'
    <2>0. Told' = Told /\ \A w \in Told : Op(w)' = Op(w)
      BY <1>3, <1>14
    <2>1. CASE \E l \in LearnersOf(screen), v \in Writes \union {None} :
                  loads' = Append(loads, NewLoad(l, v))
      <3>1. \A w : loads = <<>> \/ Holds(w) => Holds(w)'
        BY <2>1, BegunHolds
      <3>2. \A w \in sure : Op(w).changes => Holds(w)'
        BY <1>2, <3>1
      <3> QED
        BY <1>3, <2>0, <3>1, <3>2, SureStep
    <2>2. CASE loads' = loads /\ Listed
      <3>1. \A w : Holds(w) => Holds(w)'
        BY <2>2 DEF Holds, Rests
      <3>2. \A w \in sure : Op(w).changes => Holds(w)'
        BY <1>2, <3>1
      <3> QED
        BY <1>3, <2>0, <2>2, <3>2, SureStep
    <2> QED
      BY <1>3, <2>1, <2>2
  <1> HIDE DEF Same, Listed
  <1>4. CASE Focus \/ Poll
    <2>1. Same /\ screen' = screen /\ Listed
      BY <1>4 DEF Focus, Poll, Same, Listed
    <2>2. loads' = Append(loads, NewLoad(learner, None)) \/ loads' = loads
      BY <1>4 DEF Focus, Poll, Begin
    <2> QED
      BY <1>1, <1>3, <2>1, <2>2
  <1>5. CASE Blur
    <2>1. Same /\ Listed /\ screen' = screen
      BY <1>5 DEF Blur, Same, Listed
    <2>2. CASE screen.cancels
      <3>1. \A w \in Told : ~Op(w).changes
        BY <1>1, <1>2, <2>2 DEF ScreenRule, RowRule
      <3>2. loads' = <<>>
        BY <1>5, <2>2 DEF Blur, Dropped
      <3> QED
        BY <1>2, <2>1, <3>1, <3>2, <1>14, SureStep
    <2>3. CASE ~screen.cancels
      BY <1>3, <1>5, <2>1, <2>3 DEF Blur, Dropped
    <2> QED
      BY <2>2, <2>3
  <1>6. ASSUME NEW l \in Selectable, Switch(l) PROVE ChangeInv'
    <2>1. Same /\ Listed /\ screen' = screen /\ l \in LearnersOf(screen)
      BY <1>6 DEF Switch, LearnersOf, Same, Listed
    <2>2. loads' = Append(loads, NewLoad(l, None)) \/ loads' = loads
      BY <1>6 DEF Switch
    <2> QED
      BY <1>3, <2>1, <2>2
  <1>7. ASSUME NEW i \in DOMAIN loads, Read(i) \/ Land(i) \/ LoadFails(i) PROVE ChangeInv'
    <2>1. Same /\ UNCHANGED screen /\ loads # <<>>
      BY <1>1, <1>7 DEF Read, Land, LoadFails, Same
    <2>2. \A w \in sure : Op(w).changes => Holds(w)'
      BY <1>2, <1>7, LoadHolds
    <2> QED
      BY <2>1, <2>2, <1>14, SureStep
  <1>8. CASE Foreign
    <2>1. NextPress \in Writes /\ press[NextPress].stage = "none"
      BY <1>8, NextPressFacts DEF Foreign
    <2>2. Same
      BY <1>1, <1>8, <2>1 DEF Foreign, Presses, Same
    <2> QED
      BY <1>3, <1>8, <2>2 DEF Foreign, Listed
  <1>9. ASSUME NEW o \in screen.ops, Press(o) PROVE ChangeInv'
    <2>1. NextPress \in Writes /\ press[NextPress].stage = "none"
      BY <1>9, NextPressFacts DEF Press
    <2>2. Same
      BY <1>1, <1>9, <2>1 DEF Press, NoPress, Same
    <2>3. Listed
      BY <1>1, <1>9 DEF Press, Lists, Listed
    <2> QED
      BY <1>3, <1>9, <2>2, <2>3 DEF Press
  <1>10. ASSUME NEW w \in Writes, Apply(w) \/ Refuse(w) \/ Resend(w) \/ Poke(w) PROVE ChangeInv'
    <2>1. Same
      <3>1. CASE Resend(w)
        BY <1>1, <3>1 DEF Resend, Presses, Same
      <3>2. CASE Apply(w) \/ Refuse(w) \/ Poke(w)
        BY <1>1, <3>2 DEF Apply, Refuse, Poke, Presses, Same
      <3> QED
        BY <1>10, <3>1, <3>2
    <2>2. UNCHANGED <<screen, list>> /\ \/ loads' = Append(loads, NewLoad(learner, None))
                                        \/ loads' = loads
      BY <1>10 DEF Apply, Refuse, Resend, Poke, Begin
    <2> QED
      BY <1>1, <1>3, <2>1, <2>2 DEF Listed
  <1>11. ASSUME NEW w \in Writes, Answer(w) PROVE ChangeInv'
    <2>1. GoesOn(w) /\ screen' = screen /\ Op(w) \in screen.ops
      BY <1>1, <1>11 DEF Answer, Op, Presses
    <2>2. /\ \A v \in Writes : Op(v)' = Op(v) /\ (v # w => press'[v] = press[v])
          /\ press'[w].stage = "told"
      BY <1>1, <1>11 DEF Answer, Op, Presses
    <2>3. Told' = Told \union {w}
      BY <2>2 DEF Told
    <2>4. \A v \in sure : Op(v).changes => Holds(v)'
      BY <1>2, <2>1, GoesOnHolds
    <2>5. ASSUME NEW v \in Told', loads = <<>>, loads' # <<>> \/ v \notin Told, Op(v)'.changes
          PROVE  Holds(v)'
      <3>1. CASE Op(w).after = "reload"
        BY <2>1, <2>5, <3>1, GoesOnHolds
      <3>2. CASE Op(w).after # "reload"
        <4>1. loads' = <<>>
          BY <2>1, <2>5, <3>2 DEF GoesOn
        <4>2. v = w /\ Op(w).changes
          BY <2>2, <2>3, <2>5, <4>1
        <4>3. Op(w).after = "local"
          BY <1>1, <2>1, <3>2, <4>2 DEF ScreenRule, RowRule
        <4> QED
          BY <2>1, <2>5, <4>2, <4>3, GoesOnHolds
      <3> QED
        BY <3>1, <3>2
    <2>6. \A v \in Told : v \in Told' /\ Op(v)' = Op(v)
      BY <2>2, <2>3 DEF Told
    <2>7. \A v \in Told' \ Told : Op(v)' \in screen.ops
      BY <2>1, <2>2, <2>3
    <2> QED
      BY <2>1, <2>4, <2>5, <2>6, <2>7, SureStep
  <1>12. ASSUME NEW w \in Writes, Error(w) PROVE ChangeInv'
    <2>1. Same
      BY <1>1, <1>12 DEF Error, Presses, Same
    <2>2. CASE Swallowed(w)
      <3>1. GoesOn(w) /\ screen' = screen
        BY <1>12, <2>2 DEF Error
      <3>2. \A v \in sure : Op(v).changes => Holds(v)'
        BY <1>2, <3>1, GoesOnHolds
      <3>3. ASSUME NEW v \in Told', loads = <<>>, loads' # <<>> PROVE Holds(v)'
        <4>1. Op(w).after = "reload"
          BY <3>1, <3>3 DEF GoesOn
        <4> QED
          BY <3>1, <3>3, <4>1, GoesOnHolds
      <3> QED
        BY <2>1, <3>1, <3>2, <3>3, <1>14, SureStep
    <2>3. CASE ~Swallowed(w)
      BY <1>3, <1>12, <2>1, <2>3 DEF Error, Listed
    <2> QED
      BY <2>2, <2>3
  <1> QED
    BY <1>4, <1>5, <1>6, <1>7, <1>8, <1>9, <1>10, <1>11, <1>12 DEF Steps

-----------------------------------------------------------------------------
ScreenInv == ScreenTypeOK /\ LearnerInv /\ GhostInv /\ ChangeInv

LEMMA ScreenInit == Init => ScreenInv
  <1> SUFFICES ASSUME Init PROVE ScreenInv
    OBVIOUS
  <1>1. ScreenTypeOK
    <2>1. screen \in Screens /\ focused \in BOOLEAN /\ learner \in LearnersOf(screen)
      BY DEF Init
    <2>2. list \in Lists /\ stored \subseteq Writes
      BY DEF Init, Lists, NoList
    <2>3. loads \in Seq(LoadRecords) /\ Len(loads) <= MaxLoads
      <3>1. loads = << >> /\ MaxLoads \in Nat
        BY BoundAssumption DEF Init
      <3> QED
        BY <3>1
    <2>4. press \in [Writes -> [op: screen.ops \union {None}, stage: Stages, again: BOOLEAN]]
      <3>1. NoPress \in [op: screen.ops \union {None}, stage: Stages, again: BOOLEAN]
        BY DEF NoPress, Stages
      <3>2. press = [w \in Writes |-> NoPress]
        BY DEF Init
      <3> QED
        BY <3>1, <3>2
    <2>5. faults \in 0..MaxFaults
      BY BoundAssumption DEF Init
    <2>6. sure \subseteq Writes /\ steady \in BOOLEAN
      BY DEF Init
    <2> QED
      BY <2>1, <2>2, <2>3, <2>4, <2>5, <2>6 DEF ScreenTypeOK
  <1>2. LearnerInv /\ GhostInv /\ ChangeInv
    BY DEF Init, LearnerInv, GhostInv, ChangeInv, Told, NoList, NoPress
  <1> QED
    BY <1>1, <1>2 DEF ScreenInv

LEMMA ScreenStep == ASSUME ScreenRule, ScreenInv, [Next]_vars PROVE ScreenInv'
  BY ScreenTypedStep, LearnerStep, GhostStep, ChangeStep DEF ScreenInv

(* Lists, loads and presses keep their shape, for any tables of screens.      *)
THEOREM ScreenTyped == Spec => []ScreenTypeOK
  <1>1. Init => ScreenTypeOK
    BY ScreenInit DEF ScreenInv
  <1>2. ScreenTypeOK /\ [Next]_vars => ScreenTypeOK'
    BY ScreenTypedStep
  <1> QED
    BY <1>1, <1>2, PTL DEF Spec

(* A parent is shown the lists of the child who is selected, however many     *)
(* loads overlap and land out of order, from the first load on that was begun *)
(* with nothing under way (the load callbacks of mobile/app that take         *)
(* learnerId), for any tables that keep the rule.                            *)
THEOREM ListIsOfLearner == ScreenRule => (Spec => []RightLearner)
  <1> SUFFICES ASSUME ScreenRule PROVE Spec => []RightLearner
    OBVIOUS
  <1>1. ScreenInv /\ [Next]_vars => ScreenInv'
    BY ScreenStep
  <1>2. ScreenInv => RightLearner
    BY DEF ScreenInv, LearnerInv, RightLearner
  <1> QED
    BY ScreenInit, <1>1, <1>2, PTL DEF Spec

(* A message that was not sent does not stay in the thread, whatever is sent  *)
(* twice, refused or given up (send of mobile/app/messages).                  *)
THEOREM GuessesGo == ScreenRule => (Spec => []NoGhost)
  <1> SUFFICES ASSUME ScreenRule PROVE Spec => []NoGhost
    OBVIOUS
  <1>1. ScreenInv /\ [Next]_vars => ScreenInv'
    BY ScreenStep
  <1>2. ScreenInv => NoGhost
    BY DEF ScreenInv, GhostInv, NoGhost
  <1> QED
    BY ScreenInit, <1>1, <1>2, PTL DEF Spec

(* A screen at rest shows the changes that its presses were told are made,    *)
(* from the first load on that was begun with nothing under way after the     *)
(* answer, or from an answer that came with nothing under way, whatever loads *)
(* race and fail later (the handlers of mobile/app that call load() or set    *)
(* their list).                                                             *)
THEOREM OwnChanges == ScreenRule => (Spec => []OwnChangeShown)
  <1> SUFFICES ASSUME ScreenRule PROVE Spec => []OwnChangeShown
    OBVIOUS
  <1>1. ScreenInv /\ [Next]_vars => ScreenInv'
    BY ScreenStep
  <1>2. ScreenInv => OwnChangeShown
    BY DEF ScreenInv, ChangeInv, OwnChangeShown, Holds
  <1> QED
    BY ScreenInit, <1>1, <1>2, PTL DEF Spec

-----------------------------------------------------------------------------
(* The app (PhoneApp).  Where its steps and the links of its screens lead,    *)
(* and what the tables have to keep: a link leads to a screen of theirs.     *)
Places == Names \union {"index", "login", "wizard"} \union Landings
          \union UNION {ScreenTable[n].links \union ScreenTable[n].instead : n \in Names}
LinksLead == Places \subseteq Names

(* What is stored, to be stored or sent is a session there has been, or none. *)
Issued == {NoToken} \union opened
IssuedWrites == [token : Issued, then : {"nothing", "who", "leave"}]
IssuedFlows == [step : Signing \union {"who"}, token : Issued, of : Issued]

AppInv ==
    /\ PhoneTypeOK /\ stack \in Seq(Places)
    /\ store \in Issued /\ writing \in Seq(IssuedWrites) /\ flows \subseteq IssuedFlows

(* The screen on top is replaced, or the one under it shown again.            *)
LEMMA InPlaceIs ==
    ASSUME stack \in Seq(Places), stack # <<>>, NEW n \in Places, GoesTo(n)
    PROVE  /\ stack' \in Seq(Places) /\ stack' # <<>> /\ Len(stack') = Len(stack)
           /\ Last(stack') = n /\ due' \in BOOLEAN
<1>1. Len(stack) \in Nat /\ Len(stack) # 0 /\ Len(stack) \in DOMAIN stack
  OBVIOUS
<1>2. stack' = [stack EXCEPT ![Len(stack)] = n] /\ due' \in BOOLEAN
  BY DEF GoesTo, InPlace, ReplaceAt, Loading
<1> HIDE DEF Places
<1> QED BY <1>1, <1>2 DEF Last

LEMMA FrontIs ==
    ASSUME stack \in Seq(Places), Len(stack) > 1, stack' = Front(stack)
    PROVE  stack' \in Seq(Places) /\ stack' # <<>> /\ Len(stack') = Len(stack) - 1
<1> HIDE DEF Places
<1>1. stack' = [i \in 1..(Len(stack) - 1) |-> stack[i]]
  BY DEF Front
<1>2. Len(stack) - 1 \in Nat /\ \A i \in 1..(Len(stack) - 1) : stack[i] \in Places
  OBVIOUS
<1>3. stack' \in Seq(Places) /\ Len(stack') = Len(stack) - 1
  BY <1>1, <1>2
<1> QED BY <1>2, <1>3

(* A write that waits.                                                       *)
LEMMA SavesIs ==
    ASSUME NEW S, NEW T, S \subseteq T, writing \in Seq(S), NEW t, NEW then,
           [token |-> t, then |-> then] \in T, Saves(t, then)
    PROVE  writing' \in Seq(T)
<1>1. writing \in Seq(T)
  OBVIOUS
<1> QED BY <1>1 DEF Saves

(* The first of those that wait is done.                                     *)
LEMMA StoreIs ==
    ASSUME writing \in Seq(IssuedWrites), Store, UNCHANGED opened
    PROVE  /\ store' \in Issued /\ writing' \in Seq(IssuedWrites)
           /\ Stored(writing') \subseteq Issued
<1>1. writing # <<>> /\ store' = Head(writing).token /\ writing' = Tail(writing)
  BY DEF Store
<1> HIDE DEF IssuedWrites
<1>2. Head(writing) \in IssuedWrites /\ writing' \in Seq(IssuedWrites)
  BY <1>1
<1>3. \A i \in DOMAIN writing' : writing'[i] \in IssuedWrites
  BY <1>2
<1> QED BY <1>1, <1>2, <1>3 DEF IssuedWrites, Stored

LEMMA PlacesOf ==
    /\ {"index", "login", "wizard", "home", "lms"} \subseteq Places
    /\ \A n \in Names : ScreenTable[n].links \subseteq Places /\ ScreenTable[n].instead \subseteq Places
  BY DEF Places, Landings

(* What is issued stays so, and is a token.                                  *)
LEMMA IssuedGrows ==
    ASSUME opened \subseteq opened', opened' \subseteq Sessions
    PROVE  /\ Issued \subseteq Issued' /\ Issued' \subseteq Tokens
           /\ IssuedWrites \subseteq IssuedWrites' /\ IssuedWrites' \subseteq StoreWrites
           /\ IssuedFlows \subseteq IssuedFlows' /\ IssuedFlows' \subseteq Flows
<1>1. Issued \subseteq Issued' /\ Issued' \subseteq Tokens
  BY DEF Issued, Tokens
<1>2. /\ IssuedWrites' = [token : Issued', then : {"nothing", "who", "leave"}]
      /\ IssuedFlows' = [step : Signing \union {"who"}, token : Issued', of : Issued']
  BY DEF IssuedWrites, IssuedFlows, Signing
<1>3. IssuedWrites \subseteq IssuedWrites' /\ IssuedWrites' \subseteq StoreWrites
  BY <1>1, <1>2 DEF IssuedWrites, StoreWrites
<1>4. IssuedFlows \subseteq IssuedFlows' /\ IssuedFlows' \subseteq Flows
  BY <1>1, <1>2 DEF IssuedFlows, Flows
<1> QED BY <1>1, <1>3, <1>4

LEMMA SameIssued ==
    ASSUME UNCHANGED opened
    PROVE  Issued' = Issued /\ IssuedWrites' = IssuedWrites /\ IssuedFlows' = IssuedFlows
<1>1. Issued' = Issued
  BY DEF Issued
<1>2. /\ IssuedWrites' = [token : Issued', then : {"nothing", "who", "leave"}]
      /\ IssuedFlows' = [step : Signing \union {"who"}, token : Issued', of : Issued']
  BY DEF IssuedWrites, IssuedFlows, Signing
<1> QED BY <1>1, <1>2 DEF IssuedWrites, IssuedFlows

LEMMA AppStep == ASSUME AppInv, [AppNext]_appVars PROVE AppInv'
<1> USE AppAssumption DEF AppInv, PhoneTypeOK
<1> HIDE DEF Places
<1>0. NoToken \in Issued /\ store \in Issued
  BY DEF Issued
(* The stack alone, the writes alone, and the presses alone. *)
<1> DEFINE StackOK == stack' \in Seq(Places) /\ stack' # <<>> /\ Len(stack') <= MaxStack
                     /\ due' \in BOOLEAN
           WritesOK == writing' \in Seq(StoreWrites) /\ writing' \in Seq(IssuedWrites')
           FlowsOK == flows' \subseteq Flows /\ flows' \subseteq IssuedFlows'
           OpenOK == opened \subseteq opened' /\ opened' \subseteq Sessions /\ alive' \subseteq opened'
           CallsOK == \A c \in calls' : c.token \in Issued'
<1>1. ASSUME NEW n \in Places, GoesTo(n) PROVE StackOK
  BY <1>1, InPlaceIs
<1>2. Stays => StackOK
  BY DEF Stays
<1>3. ASSUME OpenOK, NEW t \in Issued', NEW then \in {"nothing", "who", "leave"}, Saves(t, then)
      PROVE  WritesOK
  <2>1. [token |-> t, then |-> then] \in IssuedWrites'
    BY <1>3 DEF IssuedWrites
  <2>2. writing' \in Seq(IssuedWrites')
    BY <1>3, <2>1, IssuedGrows, SavesIs
  <2> QED BY <1>3, <2>2, IssuedGrows
<1>4. ASSUME UNCHANGED session PROVE OpenOK
  BY <1>4 DEF session
<1>5. ASSUME OpenOK, UNCHANGED writing PROVE WritesOK
  BY <1>5, IssuedGrows
<1>6. ASSUME OpenOK, UNCHANGED store PROVE store' \in Issued' /\ store' \in Tokens
  BY <1>0, <1>6, IssuedGrows
<1>7. ASSUME OpenOK, flows' \subseteq flows PROVE FlowsOK
  BY <1>7, IssuedGrows
<1>8. ASSUME OpenOK, calls' \subseteq calls PROVE CallsOK
  BY <1>8 DEF Issued
<1>9. ASSUME Bounce, OpenOK PROVE StackOK /\ WritesOK
  BY <1>1, <1>3, <1>9, PlacesOf DEF Bounce, Issued
<1>10. ASSUME StackOK, WritesOK, FlowsOK, OpenOK, CallsOK, store' \in Issued'
       PROVE  AppInv'
  <2>1. store' \in Tokens
    BY <1>10, IssuedGrows
  <2> QED BY <1>10, <2>1 DEF Issued
<1> DEFINE Kept == UNCHANGED <<store, session>>
<1>11. CASE UNCHANGED appVars
  <2>1. OpenOK /\ UNCHANGED <<stack, due, store, writing, calls, flows>>
    BY <1>11 DEF appVars
  <2> QED BY <1>2, <1>5, <1>6, <1>7, <1>8, <1>10, <2>1 DEF Stays
<1>12. CASE Tap \/ Back
  <2>1. StackOK
    <3>1. CASE Back
      BY <3>1, FrontIs DEF Back, Loading
    <3>2. CASE Tap
      <4>1. PICK n \in Places : Push(n) \/ Replace(n)
        BY <3>2, PlacesOf DEF Tap, TopRow
      <4>2. CASE Push(n)
        BY <4>2 DEF Push, Loading
      <4> QED BY <1>1, <4>1, <4>2 DEF Replace
    <3> QED BY <1>12, <3>1, <3>2
  <2>2. UNCHANGED <<store, writing, session, calls, flows>>
    BY <1>12 DEF Tap, Back, Push, Replace
  <2> QED BY <1>4, <1>5, <1>6, <1>7, <1>8, <1>10, <2>1, <2>2
<1>13. CASE Restart
  <2>1. Stored(writing) \subseteq Issued
    <3>1. \A i \in DOMAIN writing : writing[i] \in IssuedWrites
      OBVIOUS
    <3> QED BY <3>1 DEF Stored, IssuedWrites
  <2>2. store' \in Issued'
    BY <1>0, <1>13, <2>1 DEF Restart, session, Issued
  <2>3. StackOK
    BY <1>13, PlacesOf DEF Restart, Loading
  <2>4. writing' = <<>> /\ flows' = {} /\ calls' = {} /\ UNCHANGED session
    BY <1>13 DEF Restart
  <2> QED BY <1>4, <1>7, <1>8, <1>10, <2>2, <2>3, <2>4
<1>14. CASE Ask \/ Send
  <2>1. \A n : Call(n, store).token = store
    BY DEF Call
  <2>2. StackOK
    BY <1>14 DEF Ask, Send
  <2>3. UNCHANGED <<store, writing, session, flows>>
    BY <1>14 DEF Ask, Send
  <2>4. CASE calls' = calls
    BY <1>4, <1>5, <1>6, <1>7, <1>8, <1>10, <2>2, <2>3, <2>4
  <2>5. ASSUME NEW n, calls' = calls \union {Call(n, store)} PROVE AppInv'
    <3>1. CallsOK
      BY <1>0, <2>1, <2>3, <2>5 DEF session, Issued
    <3> QED BY <1>4, <1>5, <1>6, <1>7, <1>10, <2>2, <2>3, <3>1
  <2> QED BY <1>14, <2>4, <2>5 DEF Ask, Send
<1>15. CASE Store
  <2>1. UNCHANGED <<session, calls>> /\ (Stays \/ GoesTo("login"))
    BY <1>15 DEF Store
  <2>2. OpenOK /\ Issued' = Issued /\ IssuedWrites' = IssuedWrites /\ IssuedFlows' = IssuedFlows
    BY <1>4, <2>1, SameIssued DEF session
  <2>3. store' \in Issued /\ writing' \in Seq(IssuedWrites) /\ Stored(writing') \subseteq Issued
    BY <1>15, <2>1, StoreIs DEF session
  <2>4. WritesOK
    BY <2>2, <2>3, IssuedGrows
  <2>5. ASSUME NEW t \in {store'} \union Stored(writing') PROVE Flow("who", t, store') \in IssuedFlows
    BY <2>3, <2>5 DEF Flow, IssuedFlows
  <2>6. flows' \subseteq IssuedFlows
    BY <1>15, <2>5 DEF Store
  <2> QED BY <1>1, <1>2, <1>8, <1>10, <2>1, <2>2, <2>3, <2>4, <2>6, IssuedGrows, PlacesOf
<1>16. ASSUME NEW c \in calls, Reply(c) \/ NoReply(c) PROVE AppInv'
  <2>1. UNCHANGED <<store, session, flows>> /\ OpenOK
    BY <1>4, <1>16 DEF Reply, NoReply
  <2>2. \/ writing' = writing /\ Stays
        \/ writing' = writing /\ \E n \in Places : GoesTo(n)
        \/ Bounce
    BY <1>16, PlacesOf DEF Reply, NoReply, Accepted, Unanswered, Landings
  <2>3. StackOK /\ WritesOK
    BY <1>1, <1>2, <1>5, <1>9, <2>1, <2>2
  <2>4. CallsOK
    <3>1. \A d \in calls' : d \in calls \/ d = [c EXCEPT !.token = NoToken]
      BY <1>16 DEF Reply, NoReply
    <3>2. c.token \in Issued /\ Issued' = Issued
      BY <2>1 DEF session, Issued
    <3>3. \A d \in calls : d.token \in Issued'
      BY <3>2 DEF Issued
    <3>4. [c EXCEPT !.token = NoToken].token \in Issued'
      <4>1. [c EXCEPT !.token = NoToken].token = NoToken
            \/ [c EXCEPT !.token = NoToken].token = c.token
        OBVIOUS
      <4> QED BY <1>0, <3>2, <4>1
    <3> QED BY <3>1, <3>3, <3>4
  <2> QED BY <1>6, <1>7, <1>10, <2>1, <2>3, <2>4
<1>17. ASSUME NEW s \in Sessions, Expire(s) PROVE AppInv'
  <2>1. OpenOK /\ UNCHANGED <<stack, due, store, writing, calls, flows>>
    BY <1>17 DEF Expire
  <2> QED BY <1>2, <1>5, <1>6, <1>7, <1>8, <1>10, <2>1 DEF Stays
<1>18. ASSUME NEW step \in Signing, Signs(step) PROVE AppInv'
  <2>1. Flow(step, store, NoToken) \in IssuedFlows
    BY <1>0 DEF Flow, IssuedFlows
  <2>2. UNCHANGED <<stack, due, store, writing, session, calls>>
        /\ flows' = flows \union {Flow(step, store, NoToken)}
    BY <1>18 DEF Signs
  <2>3. FlowsOK
    BY <1>4, <2>1, <2>2, IssuedGrows
  <2> QED BY <1>2, <1>4, <1>5, <1>6, <1>8, <1>10, <2>2, <2>3 DEF Stays
(* The answers to a press. *)
<1>19. ASSUME NEW f \in flows, NEW s \in NextSession, SignInDone(f, s) PROVE AppInv'
  <2>1. OpenOK /\ s \in Issued'
    BY <1>19 DEF NextSession, SignInDone, Opens, Issued
  <2>2. Saves(s, "nothing") /\ StackOK
    BY <1>1, <1>2, <1>19, PlacesOf DEF SignInDone, Finish, Landings
  <2>3. flows' \subseteq flows /\ UNCHANGED <<store, calls>>
    BY <1>19 DEF SignInDone, Over
  <2> QED BY <1>3, <1>6, <1>7, <1>8, <1>10, <2>1, <2>2, <2>3
<1>20. ASSUME NEW s \in NextSession, Google(s) PROVE AppInv'
  <2>1. OpenOK /\ s \in Issued'
    BY <1>20 DEF NextSession, Google, Opens, Issued
  <2>2. Saves(s, "who") /\ UNCHANGED <<stack, due, store, calls, flows>>
    BY <1>20 DEF Google
  <2> QED BY <1>2, <1>3, <1>6, <1>7, <1>8, <1>10, <2>1, <2>2 DEF Stays
<1>21. ASSUME NEW f \in flows, SignInFails(f) \/ PressFails(f) PROVE AppInv'
  <2>1. UNCHANGED <<store, session, calls>> /\ flows' \subseteq flows
    BY <1>21 DEF SignInFails, PressFails, Over
  <2>2. Bounce \/ (Stays /\ UNCHANGED writing)
    BY <1>21 DEF SignInFails, PressFails
  <2> QED BY <1>2, <1>4, <1>5, <1>6, <1>7, <1>8, <1>9, <1>10, <2>1, <2>2
<1>22. ASSUME NEW f \in flows, GoogleLands(f) PROVE AppInv'
  <2>1. UNCHANGED <<store, session, calls>> /\ OpenOK /\ Issued' = Issued /\ IssuedFlows' = IssuedFlows
    BY <1>4, <1>22, SameIssued DEF GoogleLands, session
  <2>2. f.of \in Issued' /\ [f EXCEPT !.token = NoToken] \in IssuedFlows
    BY <1>0, <2>1 DEF IssuedFlows
  <2>3. flows' \subseteq IssuedFlows
    BY <1>22, <2>2 DEF GoogleLands, Over
  <2>4. Bounce \/ (Saves(f.of, "nothing") /\ \E n \in Places : GoesTo(n))
    BY <1>22, PlacesOf DEF GoogleLands, Finish, Landings
  <2>5. StackOK /\ WritesOK
    BY <1>1, <1>3, <1>9, <2>1, <2>2, <2>4
  <2> QED BY <1>6, <1>8, <1>10, <2>1, <2>3, <2>5, IssuedGrows
<1>23. ASSUME NEW f \in flows, FinishSetup(f) PROVE AppInv'
  <2>1. GoesTo("home") /\ UNCHANGED <<store, writing, session, calls>> /\ flows' \subseteq flows
    BY <1>23 DEF FinishSetup, Over
  <2> QED BY <1>1, <1>4, <1>5, <1>6, <1>7, <1>8, <1>10, <2>1, PlacesOf
<1>24. ASSUME NEW f \in flows, Logout(f) \/ ConfirmDelete(f) PROVE AppInv'
  <2>1. OpenOK /\ UNCHANGED <<stack, due, store, calls>> /\ flows' \subseteq flows
    BY <1>24 DEF Logout, ConfirmDelete, Over
  <2>2. Saves(NoToken, "leave") /\ NoToken \in Issued'
    BY <1>24 DEF Logout, ConfirmDelete, Issued
  <2> QED BY <1>2, <1>3, <1>6, <1>7, <1>8, <1>10, <2>1, <2>2 DEF Stays
<1>25. ASSUME NEW f \in flows, Pressed(f) PROVE AppInv'
  BY <1>19, <1>21, <1>22, <1>23, <1>24, <1>25 DEF Pressed
<1> HIDE DEF AppInv, PhoneTypeOK
<1> QED BY <1>11, <1>12, <1>13, <1>14, <1>15, <1>16, <1>17, <1>18, <1>20, <1>25 DEF AppNext

LEMMA AppInitially == AppInit => AppInv
<1> HIDE DEF Places
<1> QED BY PlacesOf, AppAssumption DEF AppInit, AppInv, PhoneTypeOK, Issued, Tokens, Loading

LEMMA AppHolds == AppSpec => []AppInv
  BY AppInitially, AppStep, PTL DEF AppSpec

(* Every variable keeps to its type, for every table of screens and bound.   *)
THEOREM PhoneTyped == AppSpec => []PhoneTypeOK
<1>1. AppInv => PhoneTypeOK
  BY DEF AppInv
<1> QED BY <1>1, AppHolds, PTL

(* No step of the app comes to a screen there is not but by a link to it.     *)
THEOREM EveryScreenIs == LinksLead => (AppSpec => []NoDeadLink)
<1> SUFFICES ASSUME LinksLead PROVE AppSpec => []NoDeadLink
  OBVIOUS
<1>1. AppInv => NoDeadLink
  BY DEF AppInv, NoDeadLink, LinksLead
<1> QED BY <1>1, AppHolds, PTL
==============================================================================
