--------------------------- MODULE QueryCacheProofs ---------------------------
(* For every table of panels that keeps CoverRule, and every number of        *)
(* changes and faults: a view at rest shows the outcome of what its panel     *)
(* had heard of before the last fetch of it, or since.                        *)
EXTENDS QueryCache, TLAPS

Changes == [op: DOMAIN panel.ops \union {NoKey}, keys: SUBSET panel.views,
            stage: Stages, prev: SUBSET Writes]
Open == {"sent", "done", "refused"}
MadeStages == {"done", "told", "silent", "news"}

(* A request that may still be answered is one of the panel, sent for what    *)
(* its row says.                                                              *)
Reach(o) == o.affects \union (IF o.keyed THEN panel.family ELSE {})
RowOK(r) ==
    r.stage \in Open => /\ r.op \in DOMAIN panel.ops
                       /\ panel.ops[r.op].affects \subseteq r.keys
                       /\ r.keys \subseteq Reach(panel.ops[r.op])
RowsOK == \A w \in Writes : RowOK(write[w])

(* What some list may hold: what was made, or guessed once.                   *)
MayShow == {w \in Writes : \/ write[w].stage \notin {"none", "sent", "refused"}
                           \/ write[w].stage \in {"sent", "refused"} /\ Op(w).optimistic}
ShowsOK ==
    /\ \A k \in panel.views : entry[k].has \subseteq MayShow
    /\ \A w \in Writes : write[w].prev \subseteq MayShow

Settled == {w \in Writes : write[w].stage \in {"told", "failed", "unsure", "silent"}}

FamilyOK(k) == IF k \in panel.family THEN entry[k].shown = (k = sel) ELSE entry[k].has \subseteq Done(k)

(* A closed view that was invalidated need not be good: it is fetched when it *)
(* is opened.                                                                 *)
Counted(k) == entry[k].shown \/ entry[k].fresh \/ k \in OnlySet(panel)
Good(k) ==
    /\ entry[k].read \subseteq Done(k)
    /\ sure[k] \subseteq Settled
    /\ entry[k].fetch = "read" =>
         \A w \in sure[k] : write[w].stage = "told" /\ k \in write[w].keys => w \in entry[k].read
    /\ entry[k].fetch = "idle" /\ Counted(k) =>
         \A w \in sure[k] : /\ write[w].stage = "told" /\ k \in write[w].keys => w \in entry[k].has
                            /\ Unmade(w) => w \notin entry[k].has

Inv ==
    /\ ConsoleTypeOK /\ RowsOK /\ ShowsOK
    /\ \A k \in panel.views : FamilyOK(k) /\ Good(k)

LEMMA PanelFacts ==
    ASSUME CoverRule, panel \in Panels
    PROVE  /\ NoKey \notin panel.views /\ panel.family \subseteq panel.views
           /\ \A n \in DOMAIN panel.ops :
                 /\ n # NoKey
                 /\ panel.ops[n].affects \subseteq panel.views
                 /\ panel.ops[n].keyed \in BOOLEAN
                 /\ panel.ops[n].optimistic \in BOOLEAN
                 /\ panel.ops[n].sets \subseteq panel.ops[n].affects
                 /\ panel.ops[n].affects \ panel.ops[n].forgets
                       \subseteq panel.ops[n].refetches \union panel.ops[n].sets
                 /\ panel.ops[n].optimistic => panel.ops[n].keyed /\ panel.ops[n].settled
                 /\ OnlySet(panel) \intersect (panel.family \union panel.ops[n].refetches) = {}
                 /\ panel.ops[n].sets \ panel.ops[n].refetches \subseteq OnlySet(panel)
  <1>1. \A n \in DOMAIN panel.ops :
           panel.ops[n].sets \ panel.ops[n].refetches \subseteq OnlySet(panel)
    BY DEF OnlySet
  <1> QED
    BY <1>1, PanelAssumption
    DEF PanelRecord, OpOf, CoverRule, Covered, OptimisticSettles, OnlySetIsApart

LEMMA InvFacts ==
    ASSUME Inv
    PROVE  /\ panel \in Panels /\ sel \in panel.family \union {NoKey}
           /\ entry \in [panel.views -> Entries] /\ faults \in 0..MaxFaults
           /\ write \in [Writes -> Changes] /\ sure \in [panel.views -> SUBSET Writes]
           /\ \A k \in panel.views : entry[k] \in Entries
           /\ \A w \in Writes : write[w] \in Changes
  BY DEF Inv, ConsoleTypeOK, Changes

LEMMA InitInv == Init => Inv
  <1> SUFFICES ASSUME Init PROVE Inv
    OBVIOUS
  <1>1. ConsoleTypeOK
    BY BoundAssumption DEF Init, ConsoleTypeOK, Entries, NoEntry, NoWrite, Stages
  <1>2. RowsOK /\ ShowsOK
    BY DEF Init, RowsOK, RowOK, ShowsOK, NoEntry, NoWrite, Open
  <1>3. \A k \in panel.views : FamilyOK(k) /\ Good(k)
    <2> SUFFICES ASSUME NEW k \in panel.views PROVE FamilyOK(k) /\ Good(k)
      OBVIOUS
    <2>1. entry[k] = NoEntry /\ sure[k] = {} /\ (k \in panel.family => k # sel)
      BY PanelAssumption DEF Init, PanelRecord
    <2>2. FamilyOK(k)
      <3>1. NoEntry.shown = FALSE /\ NoEntry.has = {}
        BY DEF NoEntry
      <3>2. k \in panel.family => (k = sel) = FALSE
        BY <2>1
      <3> QED
        BY <2>1, <3>1, <3>2 DEF FamilyOK
    <2>3. Good(k)
      BY <2>1 DEF Good, NoEntry
    <2> QED
      BY <2>2, <2>3
  <1> QED
    BY <1>1, <1>2, <1>3 DEF Inv

-----------------------------------------------------------------------------
(* What a step has to show of the requests, and of each view.                 *)

(* The requests go on: nothing that was made or settled is undone.            *)
RowsGoOn ==
    /\ panel' = panel /\ write' \in [Writes -> Changes] /\ RowsOK'
    /\ faults' \in 0..MaxFaults /\ sel' \in panel.family \union {NoKey}
    /\ MayShow \subseteq MayShow'
    /\ \A w \in Writes : write'[w].prev \subseteq MayShow'
    /\ \A k \in panel.views : Done(k) \subseteq Done(k)'
    /\ \A w \in Settled : /\ w \in Settled'
                          /\ write'[w].stage = "told" => write[w].stage = "told"
                                                         /\ write'[w].keys = write[w].keys
                          /\ Unmade(w)' => Unmade(w)

(* Of the requests the page hears of with this step, the view k shows what    *)
(* was made and no other.                                                     *)
News(k) ==
    \A w \in Heard' \ Heard : Reaches(w, k) =>
        /\ write'[w].stage = "told" /\ k \in write'[w].keys => w \in entry'[k].has
        /\ Unmade(w)' => w \notin entry'[k].has

GoesOn(k) ==
    /\ entry'[k] \in Entries
    /\ entry'[k].read \subseteq Done(k)'
    /\ entry'[k].has \subseteq MayShow'
    /\ FamilyOK(k)'
    /\ entry'[k].fetch = "read" =>
         \/ entry[k].fetch = "read" /\ entry'[k].read = entry[k].read
         \/ entry[k].fetch = "sent" /\ entry'[k].read = Done(k)'
    /\ entry[k].fetch = "idle" /\ entry'[k].fetch = "idle" /\ Counted(k)' =>
         /\ Counted(k)
         /\ entry[k].has \subseteq entry'[k].has
         /\ entry'[k].has \intersect sure[k] \subseteq entry[k].has
         /\ News(k)

Cache == entry' = [k \in panel.views |-> entry'[k]]

LEMMA GoodStep ==
    ASSUME Inv, RowsGoOn, Noted, NEW k \in panel.views, GoesOn(k)
    PROVE  Good(k)' /\ sure'[k] \in SUBSET Writes
  <1> DEFINE old == entry[k]
             new == entry'[k]
  <1>1. Good(k) /\ old \in Entries /\ new \in Entries /\ sure[k] \subseteq Writes
    BY InvFacts DEF Inv, GoesOn
  <1>2. sure'[k] =
          CASE new.fetch = "sent" -> Heard'
            [] new.fetch # "sent" /\ old.fetch = "idle" ->
                 sure[k] \union {w \in Heard' \ Heard : Reaches(w, k)}
            [] new.fetch = "idle" /\ old.fetch # "idle" /\ Lost(k) -> {}
            [] OTHER -> sure[k]
    BY DEF Noted
  <1>3. /\ new.fetch = "sent" => sure'[k] = Heard'
        /\ new.fetch # "sent" /\ old.fetch = "idle" =>
             sure'[k] = sure[k] \union {w \in Heard' \ Heard : Reaches(w, k)}
        /\ new.fetch = "idle" /\ old.fetch # "idle" =>
             sure'[k] = (IF Lost(k) THEN {} ELSE sure[k])
        /\ new.fetch = "read" /\ old.fetch # "idle" => sure'[k] = sure[k]
    BY <1>2
  <1>4. Heard' \subseteq Settled' /\ Heard' \subseteq Writes
    BY DEF Heard, Settled
  <1>5. sure[k] \subseteq Settled /\ sure[k] \subseteq Settled'
    BY <1>1 DEF Good, RowsGoOn
  <1>6. new.read \subseteq Done(k)'
    BY DEF GoesOn
  <1>7. \A w \in sure[k] : /\ write'[w].stage = "told" => write[w].stage = "told"
                                                         /\ write'[w].keys = write[w].keys
                           /\ Unmade(w)' => Unmade(w)
    BY <1>5 DEF RowsGoOn
  <1>8. new.fetch \in {"idle", "sent", "read"} /\ old.fetch \in {"idle", "sent", "read"}
    BY <1>1 DEF Entries
  <1>9. sure'[k] \subseteq Settled' /\ sure'[k] \subseteq Writes
    BY <1>1, <1>3, <1>4, <1>5, <1>8
  <1>10. ASSUME new.fetch = "read", NEW w \in sure'[k],
                write'[w].stage = "told", k \in write'[w].keys
         PROVE  w \in new.read
    <2>1. old.fetch # "idle" /\ w \in sure[k]
      BY <1>3, <1>10 DEF GoesOn
    <2>2. write[w].stage = "told" /\ k \in write[w].keys
      BY <1>7, <1>10, <2>1
    <2>3. CASE old.fetch = "read" /\ new.read = old.read
      BY <1>1, <2>1, <2>2, <2>3 DEF Good
    <2>4. CASE new.read = Done(k)'
      BY <1>9, <1>10, <2>4 DEF Done
    <2> QED
      BY <1>10, <2>3, <2>4 DEF GoesOn
  <1>11. ASSUME new.fetch = "idle", Counted(k)', NEW w \in sure'[k]
         PROVE  /\ write'[w].stage = "told" /\ k \in write'[w].keys => w \in new.has
                /\ Unmade(w)' => w \notin new.has
    <2>1. CASE old.fetch = "idle"
      <3>1. /\ Counted(k) /\ old.has \subseteq new.has
            /\ new.has \intersect sure[k] \subseteq old.has /\ News(k)
        BY <1>11, <2>1 DEF GoesOn
      <3>2. CASE w \in sure[k]
        <4>1. /\ write[w].stage = "told" /\ k \in write[w].keys => w \in old.has
              /\ Unmade(w) => w \notin old.has
          BY <1>1, <2>1, <3>1, <3>2 DEF Good
        <4> QED
          BY <1>7, <3>1, <3>2, <4>1
      <3>3. CASE w \notin sure[k]
        <4>1. w \in Heard' \ Heard /\ Reaches(w, k)
          BY <1>3, <1>11, <2>1, <3>3
        <4> QED
          BY <3>1, <4>1 DEF News
      <3> QED
        BY <3>2, <3>3
    <2>2. CASE old.fetch # "idle"
      <3>1. ~Lost(k) /\ w \in sure[k]
        BY <1>3, <1>11, <2>2
      <3>2. old.fetch = "read" /\ new.has = old.read
        BY <1>8, <2>2, <3>1 DEF Lost
      <3>3. write'[w].stage = "told" /\ k \in write'[w].keys => w \in new.has
        BY <1>1, <1>7, <3>1, <3>2 DEF Good
      <3>4. Unmade(w)' => w \notin new.has
        BY <1>1, <1>7, <3>1, <3>2 DEF Good, Done, Unmade
      <3> QED
        BY <3>3, <3>4
    <2> QED
      BY <2>1, <2>2
  <1> QED
    BY <1>6, <1>9, <1>10, <1>11 DEF Good

LEMMA StepInv ==
    ASSUME Inv, RowsGoOn, Noted, Cache, \A k \in panel.views : GoesOn(k)
    PROVE  Inv'
  <1>1. \A k \in panel.views : Good(k)' /\ sure'[k] \in SUBSET Writes
    BY GoodStep
  <1>2. sure' \in [panel.views -> SUBSET Writes]
    BY <1>1 DEF Noted
  <1>3. entry' \in [panel.views -> Entries]
    BY DEF Cache, GoesOn
  <1>4. ConsoleTypeOK'
    BY <1>2, <1>3 DEF ConsoleTypeOK, RowsGoOn, Changes, Inv
  <1>5. ShowsOK'
    BY DEF ShowsOK, RowsGoOn, GoesOn
  <1>6. \A k \in panel.views : FamilyOK(k)'
    BY DEF GoesOn
  <1> QED
    BY <1>1, <1>4, <1>5, <1>6 DEF Inv, RowsGoOn

-----------------------------------------------------------------------------
(* The cache alone.                                                           *)

LEMMA SameRows ==
    ASSUME Inv, UNCHANGED <<panel, write>>, faults' \in 0..MaxFaults,
           sel' \in panel.family \union {NoKey}
    PROVE  RowsGoOn /\ Heard' = Heard /\ MayShow' = MayShow /\ Settled' = Settled
           /\ \A k \in panel.views : Done(k)' = Done(k)
  <1>1. \A w \in Writes : Op(w)' = Op(w) /\ Unmade(w)' = Unmade(w)
    BY DEF Op, Unmade
  <1>2. /\ Heard' = Heard /\ MayShow' = MayShow /\ Settled' = Settled
        /\ \A k \in panel.views : Done(k)' = Done(k)
    BY <1>1 DEF Heard, MayShow, Settled, Done
  <1>3. RowsOK'
    BY InvFacts DEF Inv, RowsOK, RowOK, Reach
  <1> QED
    BY <1>1, <1>2, <1>3, InvFacts DEF RowsGoOn, Inv, ShowsOK, Settled

(* A view that does not change.                                               *)
LEMMA SameView ==
    ASSUME Inv, RowsGoOn, NEW k \in panel.views, entry'[k] = entry[k],
           k \in panel.family => (k = sel') = (k = sel),
           entry[k].fetch = "idle" /\ Counted(k) => News(k)
    PROVE  GoesOn(k)
  <1>1. Counted(k)' = Counted(k)
    BY DEF Counted, RowsGoOn
  <1>2. FamilyOK(k)'
    BY DEF Inv, FamilyOK, RowsGoOn
  <1>3. entry[k].read \subseteq Done(k)' /\ entry[k].has \subseteq MayShow'
    BY DEF Inv, Good, ShowsOK, RowsGoOn
  <1> QED
    BY <1>1, <1>2, <1>3, InvFacts DEF GoesOn

(* A view whose data stay as they are while its fetch or observer changes.     *)
LEMMA SameData ==
    ASSUME Inv, RowsGoOn, NEW k \in panel.views, entry'[k] \in Entries,
           entry'[k].has = entry[k].has,
           entry'[k].read \subseteq Done(k)',
           k \in panel.family => entry'[k].shown = (k = sel'),
           entry'[k].fetch = "read" =>
             \/ entry[k].fetch = "read" /\ entry'[k].read = entry[k].read
             \/ entry[k].fetch = "sent" /\ entry'[k].read = Done(k)',
           entry[k].fetch = "idle" /\ entry'[k].fetch = "idle" /\ Counted(k)' => Counted(k) /\ News(k)
    PROVE  GoesOn(k)
  <1>1. FamilyOK(k)'
    BY DEF Inv, FamilyOK, RowsGoOn
  <1>2. entry[k].has \subseteq MayShow'
    BY DEF Inv, ShowsOK, RowsGoOn
  <1> QED
    BY <1>1, <1>2 DEF GoesOn

LEMMA NoNews == ASSUME Heard' \subseteq Heard, NEW k PROVE News(k)
  BY DEF News

(* A step that changes one view, and nothing of the requests.                 *)
LEMMA OneView ==
    ASSUME Inv, Noted, UNCHANGED <<panel, write>>, faults' \in 0..MaxFaults, sel' = sel,
           NEW k \in panel.views, NEW e, entry' = [entry EXCEPT ![k] = e], GoesOn(k)
    PROVE  Inv'
  <1>1. RowsGoOn /\ Heard' = Heard
    BY SameRows, InvFacts
  <1>2. Cache
    BY InvFacts DEF Cache
  <1>3. \A j \in panel.views : GoesOn(j)
    BY <1>1, InvFacts, SameView, NoNews
  <1> QED
    BY <1>1, <1>2, <1>3, StepInv

LEMMA ObservedFacts ==
    ASSUME NEW e \in Entries, NEW f \in Observed(e)
    PROVE  /\ f \in Entries /\ f.has = e.has /\ f.shown
           /\ f.read \subseteq e.read
           /\ f.fetch = "read" => e.fetch = "read" /\ f.read = e.read
           /\ f.fetch = "idle" => e.fresh
  <1> DEFINE s == [e EXCEPT !.shown = TRUE]
  <1>1. /\ s \in Entries /\ s.has = e.has /\ s.shown /\ s.read = e.read /\ s.fetch = e.fetch
    BY DEF Entries
  <1>2. f = Begun(s) \/ (f = s /\ (e.fetch # "idle" \/ e.fresh))
    BY DEF Observed
  <1> HIDE DEF s
  <1>3. CASE f = Begun(s)
    BY <1>1, <1>3 DEF Begun, Entries
  <1>4. CASE f = s /\ (e.fetch # "idle" \/ e.fresh)
    BY <1>1, <1>4
  <1> QED
    BY <1>2, <1>3, <1>4

LEMMA ShowInv == ASSUME CoverRule, Inv, Noted, NEW k \in panel.views, Show(k) PROVE Inv'
  <1>1. PICK e \in Observed(entry[k]) : entry' = [entry EXCEPT ![k] = e]
    BY DEF Show
  <1>2. entry'[k] = e
    BY <1>1, InvFacts
  <1>3. RowsGoOn /\ Heard' = Heard /\ Done(k)' = Done(k)
    BY SameRows, InvFacts DEF Show
  <1>4. e.fetch = "idle" => Counted(k)
    BY <1>1, InvFacts, ObservedFacts DEF Counted
  <1>5. News(k)
    BY <1>3, NoNews
  <1>6. e.read \subseteq Done(k)'
    BY <1>1, <1>3, InvFacts, ObservedFacts DEF Inv, Good
  <1>7. GoesOn(k)
    BY <1>1, <1>2, <1>3, <1>4, <1>5, <1>6, InvFacts, ObservedFacts, SameData DEF Show
  <1> QED
    BY <1>1, <1>7, InvFacts, OneView DEF Show

LEMMA HideInv == ASSUME Inv, Noted, NEW k \in panel.views, Hide(k) PROVE Inv'
  <1> DEFINE e == [entry[k] EXCEPT !.shown = FALSE]
  <1>1. entry' = [entry EXCEPT ![k] = e] /\ entry'[k] = e
    BY InvFacts DEF Hide
  <1>2. RowsGoOn /\ Heard' = Heard /\ Done(k)' = Done(k)
    BY SameRows, InvFacts DEF Hide
  <1>3. /\ e \in Entries /\ e.has = entry[k].has /\ e.read = entry[k].read
        /\ e.fetch = entry[k].fetch
    BY InvFacts DEF Entries
  <1>4. Counted(k)
    BY DEF Hide, Counted
  <1>5. GoesOn(k)
    <2> HIDE DEF e
    <2> QED
      BY <1>1, <1>2, <1>3, <1>4, NoNews, SameData DEF Hide, Inv, Good
  <1> HIDE DEF e
  <1> QED
    BY <1>1, <1>5, InvFacts, OneView DEF Hide

LEMMA SelectInv == ASSUME CoverRule, Inv, Noted, NEW k \in panel.views, Select(k) PROVE Inv'
  <1>1. PICK e \in Observed(entry[k]) :
          entry' = [j \in panel.views |->
                      IF j = k THEN e ELSE [entry[j] EXCEPT !.shown = @ /\ j # sel]]
    BY DEF Select
  <1>2. RowsGoOn /\ Heard' = Heard /\ \A j \in panel.views : Done(j)' = Done(j)
    BY SameRows, InvFacts DEF Select
  <1>3. Cache
    BY <1>1 DEF Cache
  <1>4. ASSUME NEW j \in panel.views PROVE GoesOn(j)
    <2>1. News(j) /\ FamilyOK(j) /\ Good(j) /\ k \in panel.family /\ sel' = k /\ panel' = panel
      BY <1>2, NoNews DEF Inv, Select
    <2>2. CASE j = k
      <3>1. entry'[j] = e
        BY <1>1, <2>2
      <3>2. e.fetch = "idle" => Counted(j)
        BY <1>1, <2>2, InvFacts, ObservedFacts DEF Counted
      <3>3. e.read \subseteq Done(j)'
        BY <1>1, <1>2, <2>1, <2>2, InvFacts, ObservedFacts DEF Good
      <3> QED
        <4>1. /\ e \in Entries /\ e.has = entry[j].has /\ e.shown
              /\ e.read \subseteq entry[j].read
              /\ e.fetch = "read" => entry[j].fetch = "read" /\ e.read = entry[j].read
          BY <1>1, <2>2, InvFacts, ObservedFacts
        <4> QED
          BY <1>2, <2>1, <2>2, <3>1, <3>2, <3>3, <4>1, SameData
    <2>3. CASE j # k
      <3> DEFINE f == [entry[j] EXCEPT !.shown = @ /\ j # sel]
      <3>1. entry'[j] = f
        BY <1>1, <2>3
      <3>2. /\ f \in Entries /\ f.has = entry[j].has /\ f.read = entry[j].read
            /\ f.fetch = entry[j].fetch /\ f.fresh = entry[j].fresh
            /\ f.shown = (entry[j].shown /\ j # sel)
        BY InvFacts DEF Entries
      <3>3. Counted(j)' => Counted(j)
        BY <2>1, <3>1, <3>2 DEF Counted
      <3>4. j \in panel.family => f.shown = (j = sel')
        BY <2>1, <2>3, <3>2 DEF FamilyOK
      <3> HIDE DEF f
      <3> QED
        BY <1>2, <2>1, <3>1, <3>2, <3>3, <3>4, SameData DEF Good
    <2> QED
      BY <2>2, <2>3
  <1> QED
    BY <1>2, <1>3, <1>4, StepInv

LEMMA ReadInv == ASSUME Inv, Noted, NEW k \in panel.views, Read(k) PROVE Inv'
  <1> DEFINE e == [entry[k] EXCEPT !.fetch = "read", !.read = Done(k)]
  <1>1. entry' = [entry EXCEPT ![k] = e] /\ entry'[k] = e
    BY InvFacts DEF Read
  <1>2. RowsGoOn /\ Done(k)' = Done(k)
    BY SameRows, InvFacts DEF Read
  <1>3. /\ e \in Entries /\ e.has = entry[k].has /\ e.read = Done(k)
        /\ e.fetch = "read" /\ e.shown = entry[k].shown
    BY InvFacts DEF Entries, Done
  <1>4. GoesOn(k)
    <2> HIDE DEF e
    <2> QED
      BY <1>1, <1>2, <1>3, SameData DEF Read, Inv, FamilyOK
  <1> HIDE DEF e
  <1> QED
    BY <1>1, <1>4, InvFacts, OneView DEF Read

LEMMA LandInv == ASSUME Inv, Noted, NEW k \in panel.views, Land(k) PROVE Inv'
  <1> DEFINE e == [entry[k] EXCEPT !.fetch = "idle", !.read = {}, !.held = TRUE,
                                   !.has = entry[k].read, !.fresh = TRUE]
  <1>1. entry' = [entry EXCEPT ![k] = e] /\ entry'[k] = e
    BY InvFacts DEF Land
  <1>2. RowsGoOn /\ Done(k)' = Done(k) /\ MayShow' = MayShow
    BY SameRows, InvFacts DEF Land
  <1>3. /\ e \in Entries /\ e.has = entry[k].read /\ e.read = {}
        /\ e.fetch = "idle" /\ e.shown = entry[k].shown
    BY InvFacts DEF Entries
  <1>4. entry[k].read \subseteq Done(k) /\ Done(k) \subseteq MayShow
    BY DEF Inv, Good, Done, MayShow
  <1>5. FamilyOK(k)'
    <2> HIDE DEF e
    <2> QED
      BY <1>1, <1>2, <1>3, <1>4 DEF Inv, FamilyOK, Land
  <1>6. GoesOn(k)
    <2> HIDE DEF e
    <2> QED
      BY <1>1, <1>2, <1>3, <1>4, <1>5 DEF GoesOn, Land
  <1> HIDE DEF e
  <1> QED
    BY <1>1, <1>6, InvFacts, OneView DEF Land

LEMMA FetchFailsInv == ASSUME Inv, Noted, NEW k \in panel.views, FetchFails(k) PROVE Inv'
  <1> DEFINE e == [entry[k] EXCEPT !.fetch = "idle", !.read = {}, !.failed = TRUE]
  <1>1. entry' = [entry EXCEPT ![k] = e] /\ entry'[k] = e
    BY InvFacts DEF FetchFails
  <1>2. faults' \in 0..MaxFaults
    BY InvFacts, BoundAssumption DEF FetchFails
  <1>3. RowsGoOn
    BY <1>2, SameRows, InvFacts DEF FetchFails
  <1>4. /\ e \in Entries /\ e.has = entry[k].has /\ e.read = {}
        /\ e.fetch = "idle" /\ e.shown = entry[k].shown
    BY InvFacts DEF Entries
  <1>5. GoesOn(k)
    <2> HIDE DEF e
    <2> QED
      BY <1>1, <1>3, <1>4, SameData DEF FetchFails, Inv, FamilyOK
  <1> HIDE DEF e
  <1> QED
    BY <1>1, <1>2, <1>5, InvFacts, OneView DEF FetchFails

LEMMA RefreshInv == ASSUME Inv, Noted, NEW k \in panel.views, Refresh(k) PROVE Inv'
  <1> DEFINE e == Begun(entry[k])
  <1>1. entry' = [entry EXCEPT ![k] = e] /\ entry'[k] = e
    BY InvFacts DEF Refresh
  <1>2. RowsGoOn
    BY SameRows, InvFacts DEF Refresh
  <1>3. /\ e \in Entries /\ e.has = entry[k].has /\ e.read = {}
        /\ e.fetch = "sent" /\ e.shown = entry[k].shown
    BY InvFacts DEF Entries, Begun
  <1>4. GoesOn(k)
    <2> HIDE DEF e
    <2> QED
      BY <1>1, <1>2, <1>3, SameData DEF Refresh, Inv, FamilyOK
  <1> HIDE DEF e
  <1> QED
    BY <1>1, <1>4, InvFacts, OneView DEF Refresh

-----------------------------------------------------------------------------
(* The steps of a request.                                                    *)

(* One row r replaces that of w; nothing that was made or settled is undone.  *)
LEMMA OneRow ==
    ASSUME Inv, UNCHANGED <<panel, sel>>, faults' \in 0..MaxFaults,
           NEW w \in Writes, NEW r \in Changes, write' = [write EXCEPT ![w] = r],
           RowOK(r),
           r.prev \subseteq MayShow,
           w \in MayShow => \/ r.stage \notin {"none", "sent", "refused"}
                            \/ r.stage \in {"sent", "refused"} /\ panel.ops[r.op].optimistic,
           write[w].stage \in MadeStages => r.stage \in MadeStages /\ r.keys = write[w].keys,
           w \in Settled => write[w].stage = "unsure" /\ r.stage = "silent"
    PROVE  /\ RowsGoOn
           /\ \A v \in Writes \ {w} : v \in Heard' <=> v \in Heard
           /\ w \in Heard' <=> r.stage \in {"told", "failed", "unsure"}
           /\ write'[w] = r
  <1>1. \A v \in Writes : write'[v] = IF v = w THEN r ELSE write[v]
    BY InvFacts
  <1>2. \A v \in Writes \ {w} : Op(v)' = Op(v) /\ Unmade(v)' = Unmade(v)
    BY <1>1 DEF Op, Unmade
  <1>3. Op(w)' = panel.ops[r.op]
    BY <1>1 DEF Op
  <1>4. write' \in [Writes -> Changes]
    BY InvFacts
  <1>5. RowsOK'
    BY <1>1 DEF Inv, RowsOK, RowOK, Reach
  <1>6. MayShow \subseteq MayShow'
    BY <1>1, <1>2, <1>3 DEF MayShow
  <1>7. \A v \in Writes : write'[v].prev \subseteq MayShow'
    BY <1>1, <1>6 DEF Inv, ShowsOK
  <1>8. \A k \in panel.views : Done(k) \subseteq Done(k)'
    BY <1>1 DEF Done, MadeStages
  <1>9. \A v \in Settled : /\ v \in Settled'
                           /\ write'[v].stage = "told" => write[v].stage = "told"
                                                          /\ write'[v].keys = write[v].keys
                           /\ Unmade(v)' => Unmade(v)
    <2> SUFFICES ASSUME NEW v \in Settled
                 PROVE  /\ v \in Settled'
                        /\ write'[v].stage = "told" => write[v].stage = "told"
                                                       /\ write'[v].keys = write[v].keys
                        /\ Unmade(v)' => Unmade(v)
      OBVIOUS
    <2>1. CASE v = w
      BY <1>1, <2>1 DEF Settled, Unmade
    <2>2. CASE v # w
      BY <1>1, <1>2, <2>2 DEF Settled
    <2> QED
      BY <2>1, <2>2
  <1>10. RowsGoOn
    BY <1>4, <1>5, <1>6, <1>7, <1>8, <1>9, InvFacts DEF RowsGoOn
  <1> QED
    BY <1>1, <1>10 DEF Heard

LEMMA RowFacts ==
    ASSUME Inv, NEW w \in Writes
    PROVE  /\ write[w].prev \subseteq MayShow /\ write[w].stage \in Stages
           /\ write[w].stage \in Open =>
                /\ write[w].op \in DOMAIN panel.ops /\ Op(w) = panel.ops[write[w].op]
                /\ Op(w).affects \subseteq write[w].keys
                /\ write[w].keys \subseteq Reach(Op(w))
           /\ RowOK(write[w])
  BY InvFacts DEF Inv, ShowsOK, RowsOK, RowOK, Op, Changes

(* Requests the page hears nothing of: the cache stays as it is.              *)
LEMMA QuietStep ==
    ASSUME Inv, Noted, RowsGoOn, UNCHANGED <<sel, entry>>, Heard' \subseteq Heard
    PROVE  Inv'
  <1>1. Cache
    BY InvFacts DEF Cache
  <1>2. \A k \in panel.views : GoesOn(k)
    BY SameView, NoNews
  <1> QED
    BY <1>1, <1>2, StepInv

LEMMA ApplyInv == ASSUME Inv, Noted, NEW w \in Writes, Apply(w) PROVE Inv'
  <1> DEFINE r == [write[w] EXCEPT !.stage = IF @ = "sent" THEN "done" ELSE "silent"]
  <1>1. write' = [write EXCEPT ![w] = r]
    BY InvFacts DEF Apply
  <1>2. /\ r \in Changes /\ r.keys = write[w].keys /\ r.prev = write[w].prev /\ r.op = write[w].op
        /\ r.stage = IF write[w].stage = "sent" THEN "done" ELSE "silent"
    BY InvFacts DEF Changes, Stages
  <1> HIDE DEF r
  <1>3. RowsGoOn /\ Heard' \subseteq Heard
    <2>1. /\ RowsGoOn
          /\ \A v \in Writes \ {w} : v \in Heard' <=> v \in Heard
          /\ w \in Heard' <=> r.stage \in {"told", "failed", "unsure"}
      <3>1. CASE write[w].stage = "sent"
        <4>1. /\ w \notin Settled /\ write[w].stage \notin MadeStages
              /\ RowOK(r) /\ r.prev \subseteq MayShow
          BY <1>2, <3>1, RowFacts DEF RowOK, Open, MadeStages, Settled
        <4> QED
          BY <1>1, <1>2, <3>1, <4>1, OneRow, InvFacts DEF Apply
      <3>2. CASE write[w].stage = "unsure"
        BY <1>1, <1>2, <3>2, RowFacts, OneRow, InvFacts DEF Apply, RowOK, Open, MadeStages, Settled
      <3> QED
        BY <3>1, <3>2 DEF Apply
    <2> QED
      BY <1>2, <2>1 DEF Heard, Apply
  <1> QED
    BY <1>3, QuietStep DEF Apply

LEMMA RefuseInv == ASSUME Inv, Noted, NEW w \in Writes, Refuse(w) PROVE Inv'
  <1> DEFINE r == [write[w] EXCEPT !.stage = "refused"]
  <1>1. write' = [write EXCEPT ![w] = r]
    BY InvFacts DEF Refuse
  <1>2. /\ r \in Changes /\ r.keys = write[w].keys /\ r.prev = write[w].prev /\ r.op = write[w].op
        /\ r.stage = "refused"
    BY InvFacts DEF Changes, Stages
  <1> HIDE DEF r
  <1>3. RowsGoOn /\ Heard' \subseteq Heard
    <2>1. /\ RowsGoOn
          /\ \A v \in Writes \ {w} : v \in Heard' <=> v \in Heard
          /\ w \in Heard' <=> r.stage \in {"told", "failed", "unsure"}
      <3>1. write[w].stage = "sent" /\ Op(w) = panel.ops[write[w].op]
        BY DEF Refuse, Op
      <3>2. w \in MayShow => panel.ops[r.op].optimistic
        BY <1>2, <3>1 DEF MayShow
      <3>3. w \notin Settled /\ write[w].stage \notin MadeStages
        BY <3>1 DEF Settled, MadeStages
      <3>4. RowOK(r) /\ r.prev \subseteq MayShow
        BY <1>2, <3>1, RowFacts DEF RowOK, Open
      <3> QED
        BY <1>1, <1>2, <3>2, <3>3, <3>4, OneRow, InvFacts DEF Refuse
    <2> QED
      BY <1>2, <2>1 DEF Heard, Refuse
  <1> QED
    BY <1>3, QuietStep DEF Refuse

LEMMA NextWriteFacts ==
    ASSUME Unused # {}
    PROVE  NextWrite \in Writes /\ write[NextWrite].stage = "none"
  BY DEF Unused, NextWrite

LEMMA ForeignInv == ASSUME Inv, Noted, NEW k \in panel.views, Foreign(k) PROVE Inv'
  <1> DEFINE r == [NoWrite EXCEPT !.keys = {k}, !.stage = "news"]
  <1>1. PICK w \in Writes : w = NextWrite /\ write[w].stage = "none"
    BY NextWriteFacts DEF Foreign
  <1>2. write' = [write EXCEPT ![w] = r]
    BY <1>1 DEF Foreign
  <1>3. r \in Changes /\ r.stage = "news" /\ r.prev = {}
    BY DEF NoWrite, Changes, Stages
  <1> HIDE DEF r
  <1>4. RowsGoOn /\ Heard' \subseteq Heard
    <2>1. /\ RowsGoOn
          /\ \A v \in Writes \ {w} : v \in Heard' <=> v \in Heard
          /\ w \in Heard' <=> r.stage \in {"told", "failed", "unsure"}
      BY <1>1, <1>2, <1>3, OneRow, InvFacts DEF Foreign, RowOK, Open, MadeStages, Settled
    <2> QED
      BY <1>3, <2>1 DEF Heard
  <1> QED
    BY <1>4, QuietStep DEF Foreign

-----------------------------------------------------------------------------
(* Invalidations.                                                             *)

LEMMA InvalidatedFacts ==
    ASSUME NEW e \in Entries, NEW f, f = Invalidated(e)
    PROVE  /\ f \in Entries /\ f.has = e.has /\ f.shown = e.shown
           /\ f.read \subseteq e.read
           /\ f.fetch = "read" => e.fetch = "read" /\ f.read = e.read
           /\ e.fetch = "idle" /\ f.fetch = "idle" => ~f.shown /\ ~f.fresh
           /\ f.fetch = "idle" => e.fetch = "idle"
  BY DEF Invalidated, Restarts, Begun, Entries

(* A view that is invalidated: its fetch is begun, or will be when it is       *)
(* opened; e is what the step has written into it before.                     *)
LEMMA InvalidatedView ==
    ASSUME Inv, RowsGoOn, NEW k \in panel.views, NEW e \in Entries,
           entry'[k] = Invalidated(e),
           e.shown = entry[k].shown, e.fetch = entry[k].fetch, e.read = entry[k].read,
           e.has \subseteq MayShow',
           k \notin panel.family => e.has \subseteq Done(k)',
           k \notin OnlySet(panel) \/ (e.has = entry[k].has /\ News(k)),
           sel' = sel
    PROVE  GoesOn(k)
  <1> DEFINE f == Invalidated(e)
  <1>1. /\ f \in Entries /\ f.has = e.has /\ f.shown = e.shown
        /\ f.read \subseteq e.read
        /\ f.fetch = "read" => e.fetch = "read" /\ f.read = e.read
        /\ e.fetch = "idle" /\ f.fetch = "idle" => ~f.shown /\ ~f.fresh
    BY InvalidatedFacts
  <1>2. entry'[k] = f
    OBVIOUS
  <1> HIDE DEF f
  <1>3. f.read \subseteq Done(k)'
    BY <1>1 DEF Inv, Good, RowsGoOn
  <1>4. FamilyOK(k)'
    BY <1>1, <1>2 DEF Inv, FamilyOK, RowsGoOn
  <1>5. ASSUME entry[k].fetch = "idle", f.fetch = "idle", Counted(k)'
        PROVE  k \in OnlySet(panel)
    BY <1>1, <1>2, <1>5 DEF Counted, RowsGoOn
  <1> QED
    BY <1>1, <1>2, <1>3, <1>4, <1>5 DEF GoesOn, Counted

LEMMA PokeInv == ASSUME Inv, Noted, NEW w \in Writes, Poke(w) PROVE Inv'
  <1> DEFINE r == [write[w] EXCEPT !.stage = "silent"]
  <1>1. write' = [write EXCEPT ![w] = r]
    BY InvFacts DEF Poke
  <1>2. /\ r \in Changes /\ r.stage = "silent" /\ r.keys = write[w].keys /\ r.prev = write[w].prev
    BY InvFacts DEF Changes, Stages
  <1>3. RowsGoOn /\ Heard' \subseteq Heard
    <2> HIDE DEF r
    <2>1. /\ RowsGoOn
          /\ \A v \in Writes \ {w} : v \in Heard' <=> v \in Heard
          /\ w \in Heard' <=> r.stage \in {"told", "failed", "unsure"}
      <3>1. /\ w \notin Settled /\ RowOK(r) /\ r.prev \subseteq MayShow /\ r.stage \in MadeStages
        BY <1>2, RowFacts DEF Poke, RowOK, Open, MadeStages, Settled
      <3> QED
        BY <1>1, <1>2, <3>1, OneRow, InvFacts DEF Poke
    <2> QED
      BY <1>2, <2>1 DEF Heard
  <1>4. Cache
    BY DEF Poke, Cache
  <1>5. ASSUME NEW k \in panel.views PROVE GoesOn(k)
    <2>1. News(k) /\ sel' = sel
      BY <1>3, NoNews DEF Poke
    <2>2. CASE entry'[k] = entry[k]
      BY <1>3, <2>1, <2>2, SameView
    <2>3. CASE entry'[k] = Invalidated(entry[k])
      <3>1. entry[k].has \subseteq MayShow' /\ (k \notin panel.family => entry[k].has \subseteq Done(k)')
        BY <1>3 DEF Inv, ShowsOK, FamilyOK, RowsGoOn
      <3> QED
        BY <1>3, <2>1, <2>3, <3>1, InvFacts, InvalidatedView
    <2> QED
      BY <2>2, <2>3 DEF Poke
  <1> QED
    BY <1>3, <1>4, <1>5, StepInv

-----------------------------------------------------------------------------
(* The steps that settle a request, which need the rule of the tables.        *)

LEMMA RefetchedFacts ==
    ASSUME CoverRule, Inv, NEW n \in DOMAIN panel.ops, NEW k \in Refetched(panel.ops[n]),
           k \in panel.views
    PROVE  k \notin OnlySet(panel)
  <1>1. k \in panel.ops[n].refetches \/ k = sel
    BY DEF Refetched
  <1> QED
    BY <1>1, InvFacts, PanelFacts

LEMMA AnswerInv == ASSUME CoverRule, Inv, Noted, NEW w \in Writes, Answer(w) PROVE Inv'
  <1> DEFINE o == Op(w)
             cache == [k \in panel.views |-> IF k \in o.sets
                                             THEN Written(entry[k], entry[k].has \union {w})
                                             ELSE entry[k]]
             inv == Refetched(o)
             r == [write[w] EXCEPT !.stage = "told"]
  <1>1. /\ entry' = [k \in panel.views |-> IF k \in inv THEN Invalidated(cache[k]) ELSE cache[k]]
        /\ write[w].stage = "done" /\ UNCHANGED <<panel, sel, faults>>
    BY DEF Answer, Settle
  <1>2. write' = [write EXCEPT ![w] = r]
    BY InvFacts DEF Answer
  <1>3. /\ r \in Changes /\ r.stage = "told" /\ r.keys = write[w].keys /\ r.prev = write[w].prev
        /\ write[w].op \in DOMAIN panel.ops /\ o = panel.ops[write[w].op]
        /\ o.affects \subseteq write[w].keys /\ write[w].keys \subseteq Reach(o)
        /\ r.op = write[w].op
    BY <1>1, RowFacts, InvFacts DEF Changes, Stages, Open
  <1>4. /\ RowsGoOn
        /\ \A v \in Writes \ {w} : v \in Heard' <=> v \in Heard
        /\ write'[w] = r
    <2> HIDE DEF r
    <2> QED
      <3>1. /\ w \notin Settled /\ RowOK(r) /\ r.prev \subseteq MayShow /\ r.stage \in MadeStages
        BY <1>1, <1>3, RowFacts DEF RowOK, Open, MadeStages, Settled
      <3> QED
        BY <1>1, <1>2, <1>3, <3>1, OneRow, InvFacts
  <1>5. Cache
    BY <1>1 DEF Cache
  <1>6. ASSUME NEW k \in panel.views PROVE GoesOn(k)
    <2>1. /\ w \notin sure[k] /\ sure[k] \subseteq Settled
          /\ entry[k].has \subseteq MayShow' /\ w \in MayShow'
          /\ k \in write[w].keys => w \in Done(k)'
          /\ k \notin panel.family => entry[k].has \subseteq Done(k)'
          /\ ~Unmade(w)'
      <3>1. w \notin sure[k] /\ sure[k] \subseteq Settled
        BY <1>1 DEF Inv, Good, Settled
      <3>2. entry[k].has \subseteq MayShow' /\ (k \notin panel.family => entry[k].has \subseteq Done(k)')
        BY <1>4 DEF Inv, ShowsOK, FamilyOK, RowsGoOn
      <3>3. w \in MayShow' /\ (k \in write[w].keys => w \in Done(k)') /\ ~Unmade(w)'
        BY <1>3, <1>4 DEF MayShow, Done, Unmade
      <3> QED
        BY <3>1, <3>2, <3>3
    <2>2. ASSUME k \notin o.sets, k \in write[w].keys, Reaches(w, k) PROVE k \in inv
      BY <1>3, <2>2, InvFacts, PanelFacts DEF Inv, FamilyOK, Reaches, Refetched, Reach
    <2>3. CASE k \notin o.sets
      <3>1. cache[k] = entry[k]
        BY <2>3
      <3>2. CASE k \in inv
        <4>1. entry'[k] = Invalidated(entry[k])
          BY <1>1, <3>1, <3>2
        <4> QED
          BY <1>1, <1>3, <1>4, <2>1, <3>2, <4>1, InvFacts, InvalidatedView, RefetchedFacts
      <3>3. CASE k \notin inv
        <4>1. entry'[k] = entry[k]
          BY <1>1, <3>1, <3>3
        <4>2. News(k)
          <5>1. ASSUME NEW v \in Heard' \ Heard, Reaches(v, k)
                PROVE  /\ write'[v].stage = "told" /\ k \in write'[v].keys => v \in entry'[k].has
                       /\ Unmade(v)' => v \notin entry'[k].has
            <6>1. v = w
              BY <1>4, <5>1 DEF Heard
            <6>2. k \notin write'[w].keys
              BY <1>3, <1>4, <2>2, <2>3, <3>3, <5>1, <6>1
            <6> QED
              BY <2>1, <6>1, <6>2
          <5> QED
            BY <5>1 DEF News
        <4> QED
          BY <1>1, <1>4, <4>1, <4>2, SameView
      <3> QED
        BY <3>2, <3>3
    <2>4. CASE k \in o.sets
      <3> DEFINE e == Written(entry[k], entry[k].has \union {w})
      <3>1. cache[k] = e
        BY <2>4
      <3>2. /\ e \in Entries /\ e.has = entry[k].has \union {w} /\ e.shown = entry[k].shown
            /\ e.fetch = entry[k].fetch /\ e.read = entry[k].read
        BY InvFacts DEF Written, Entries
      <3>3. w \in Done(k)'
        <4>1. k \in write[w].keys
          BY <1>3, <2>4, InvFacts, PanelFacts
        <4> QED
          BY <2>1, <4>1
      <3> HIDE DEF e
      <3>4. CASE k \in inv
        <4>1. entry'[k] = Invalidated(e)
          BY <1>1, <3>1, <3>4
        <4> QED
          BY <1>1, <1>3, <1>4, <2>1, <3>2, <3>3, <3>4, <4>1, InvalidatedView, RefetchedFacts
      <3>5. CASE k \notin inv
        <4>1. entry'[k] = e
          BY <1>1, <3>1, <3>5
        <4>2. k \in OnlySet(panel) /\ k \notin panel.family
          BY <1>3, <2>4, <3>5, InvFacts, PanelFacts DEF Refetched
        <4>3. News(k)
          <5>1. ASSUME NEW v \in Heard' \ Heard PROVE v = w
            BY <1>4, <5>1 DEF Heard
          <5> QED
            BY <2>1, <3>2, <4>1, <5>1 DEF News
        <4>4. FamilyOK(k)'
          BY <1>1, <2>1, <3>2, <3>3, <4>1, <4>2 DEF FamilyOK
        <4>5. e.read \subseteq Done(k)'
          BY <1>4, <3>2 DEF Inv, Good, RowsGoOn
        <4> QED
          BY <2>1, <3>2, <4>1, <4>2, <4>3, <4>4, <4>5 DEF GoesOn, Counted
      <3> QED
        BY <3>4, <3>5
    <2> QED
      BY <2>3, <2>4
  <1> QED
    BY <1>4, <1>5, <1>6, StepInv

-----------------------------------------------------------------------------
LEMMA PrevFacts ==
    ASSUME NEW e \in Entries, NEW h \in SUBSET Writes
    PROVE  LET f == Written(e, h) IN
           f \in Entries /\ f.has = h /\ f.shown = e.shown /\ f.fetch = e.fetch /\ f.read = e.read
  BY DEF Written, Entries

(* An error, or no answer: r is the row of w from now on.                     *)
LEMMA FailsStep ==
    ASSUME CoverRule, Inv, Noted, RowsGoOn, UNCHANGED sel,
           NEW w \in Writes, write[w].stage \in Open, Fails(w),
           \A v \in Writes \ {w} : v \in Heard' <=> v \in Heard,
           write'[w].stage # "told",
           Unmade(w)' => write[w].stage \in {"sent", "refused"}
    PROVE  Inv'
  <1> DEFINE o == Op(w)
             cache == RolledBack(w)
             inv == Refetched(o)
  <1>1. /\ write[w].op \in DOMAIN panel.ops /\ o = panel.ops[write[w].op]
        /\ write[w].prev \subseteq MayShow /\ write[w].prev \subseteq Writes
        /\ write[w].keys \subseteq Reach(o)
    BY RowFacts, InvFacts DEF Changes
  <1>2. o.optimistic => o.keyed /\ o.settled
    BY <1>1, InvFacts, PanelFacts
  <1>3. \A v \in Heard' \ Heard : v = w
    BY DEF Heard
  <1>4. ASSUME NEW k \in panel.views PROVE entry[k].has \subseteq MayShow'
                                           /\ (k \notin panel.family => entry[k].has \subseteq Done(k)')
    BY DEF Inv, ShowsOK, FamilyOK, RowsGoOn
  <1>5. ASSUME NEW k \in panel.views, k \notin inv \/ ~o.settled, Reaches(w, k), Unmade(w)'
        PROVE  w \notin entry[k].has
    <2>1. write[w].stage \in {"sent", "refused"}
      BY <1>5
    <2>2. CASE o.optimistic
      <3>1. k \notin panel.family
        BY <1>2, <1>5, <2>2 DEF Inv, FamilyOK, Reaches, Refetched
      <3>2. w \notin Done(k)
        BY <2>1 DEF Done
      <3> QED
        BY <3>1, <3>2 DEF Inv, FamilyOK
    <2>3. CASE ~o.optimistic
      <3>1. w \notin MayShow
        BY <2>1, <2>3 DEF MayShow
      <3> QED
        BY <3>1 DEF Inv, ShowsOK
    <2> QED
      BY <2>2, <2>3
  <1>6. ASSUME NEW k \in panel.views, entry'[k] = entry[k], k \notin inv \/ ~o.settled
        PROVE  GoesOn(k)
    <2>1. News(k)
      BY <1>3, <1>5, <1>6 DEF News
    <2> QED
      BY <1>6, <2>1, SameView
  <1>7. CASE ~o.settled
    <2>1. entry' = entry
      BY <1>2, <1>7 DEF Fails, RolledBack
    <2>2. Cache
      BY <2>1, InvFacts DEF Cache
    <2> QED
      BY <1>6, <1>7, <2>1, <2>2, StepInv
  <1>8. CASE o.settled
    <2>1. entry' = [k \in panel.views |-> IF k \in inv THEN Invalidated(cache[k]) ELSE cache[k]]
      BY <1>8 DEF Fails, Settle
    <2>2. Cache
      BY <2>1 DEF Cache
    <2>3. ASSUME NEW k \in panel.views PROVE GoesOn(k)
      <3>1. CASE o.optimistic /\ k = sel
        <4> DEFINE e == Written(entry[k], write[w].prev)
        <4>1. cache[k] = e
          BY <3>1, InvFacts DEF RolledBack
        <4>2. k \in inv /\ k \in panel.family
          BY <1>2, <3>1, InvFacts, PanelFacts DEF Refetched
        <4>3. /\ e \in Entries /\ e.has = write[w].prev /\ e.shown = entry[k].shown
              /\ e.fetch = entry[k].fetch /\ e.read = entry[k].read
          BY <1>1, InvFacts, PrevFacts
        <4>4. entry'[k] = Invalidated(e)
          BY <2>1, <4>1, <4>2
        <4>5. write[w].prev \subseteq MayShow'
          BY <1>1 DEF RowsGoOn
        <4>6. k \notin OnlySet(panel)
          BY <1>1, <4>2, RefetchedFacts
        <4> HIDE DEF e, inv, cache
        <4> QED
          BY <4>2, <4>3, <4>4, <4>5, <4>6, InvalidatedView
      <3>2. CASE ~(o.optimistic /\ k = sel)
        <4>1. cache[k] = entry[k]
          BY <3>2, InvFacts DEF RolledBack
        <4>2. CASE k \in inv
          <5>1. entry'[k] = Invalidated(entry[k])
            BY <2>1, <4>1, <4>2
          <5>2. k \notin OnlySet(panel)
            BY <1>1, <4>2, RefetchedFacts
          <5> HIDE DEF inv, cache
          <5> QED
            BY <1>4, <5>1, <5>2, InvFacts, InvalidatedView
        <4>3. CASE k \notin inv
          BY <1>6, <2>1, <4>1, <4>3
        <4> QED
          BY <4>2, <4>3
      <3> QED
        BY <3>1, <3>2
    <2> QED
      BY <2>2, <2>3, StepInv
  <1> QED
    BY <1>7, <1>8

LEMMA ErrorInv == ASSUME CoverRule, Inv, Noted, NEW w \in Writes, Error(w) PROVE Inv'
  <1> DEFINE r == [NoWrite EXCEPT !.stage = "failed"]
  <1>1. write' = [write EXCEPT ![w] = r] /\ write[w].stage = "refused"
    BY DEF Error
  <1>2. r \in Changes /\ r.stage = "failed" /\ r.prev = {}
    BY DEF NoWrite, Changes, Stages
  <1> HIDE DEF r
  <1>3. RowsGoOn /\ (\A v \in Writes \ {w} : v \in Heard' <=> v \in Heard) /\ write'[w] = r
    BY <1>1, <1>2, OneRow, InvFacts DEF Error, RowOK, Open, MadeStages, Settled
  <1> QED
    BY <1>1, <1>2, <1>3, FailsStep DEF Error, Open

LEMMA GiveUpInv == ASSUME CoverRule, Inv, Noted, NEW w \in Writes, GiveUp(w) PROVE Inv'
  <1> DEFINE r == [write[w] EXCEPT !.stage = IF @ = "sent" THEN "unsure" ELSE "silent"]
  <1>1. write' = [write EXCEPT ![w] = r] /\ write[w].stage \in {"sent", "done"}
    BY InvFacts DEF GiveUp
  <1>2. /\ r \in Changes /\ r.keys = write[w].keys /\ r.prev = write[w].prev
        /\ r.stage = IF write[w].stage = "sent" THEN "unsure" ELSE "silent"
    BY <1>1, InvFacts DEF Changes, Stages
  <1>3. faults' \in 0..MaxFaults
    BY InvFacts, BoundAssumption DEF GiveUp
  <1> HIDE DEF r
  <1>4. RowsGoOn /\ (\A v \in Writes \ {w} : v \in Heard' <=> v \in Heard) /\ write'[w] = r
    <2>1. CASE write[w].stage = "sent"
      BY <1>1, <1>2, <1>3, <2>1, RowFacts, OneRow DEF GiveUp, RowOK, Open, MadeStages, Settled
    <2>2. CASE write[w].stage = "done"
      BY <1>1, <1>2, <1>3, <2>2, RowFacts, OneRow DEF GiveUp, RowOK, Open, MadeStages, Settled
    <2> QED
      BY <1>1, <2>1, <2>2
  <1>5. write'[w].stage # "told" /\ (Unmade(w)' => write[w].stage \in {"sent", "refused"})
    BY <1>1, <1>2, <1>4 DEF Unmade
  <1> QED
    BY <1>1, <1>4, <1>5, FailsStep DEF GiveUp, Open

LEMMA MutateInv ==
    ASSUME CoverRule, Inv, Noted, NEW n \in DOMAIN panel.ops, Mutate(n) PROVE Inv'
  <1> DEFINE o == panel.ops[n]
  <1>1. PICK w \in Writes : w = NextWrite /\ write[w].stage = "none"
    BY NextWriteFacts DEF Mutate
  <1>2. /\ o.keyed => sel \in panel.family /\ sel \in panel.views
        /\ o.optimistic => o.keyed
    BY InvFacts, PanelFacts DEF Mutate
  <1>3. PICK r \in Changes :
          /\ write' = [write EXCEPT ![w] = r]
          /\ r.op = n /\ r.stage = "sent" /\ r.keys = o.affects \union Chosen(o)
          /\ r.prev \subseteq MayShow
    <2>1. o.affects \union Chosen(o) \in SUBSET panel.views
      BY <1>2, InvFacts, PanelFacts DEF Chosen
    <2>2. PICK prev \in SUBSET Writes : /\ prev = IF o.optimistic THEN entry[sel].has ELSE {}
                                        /\ prev \subseteq MayShow
      <3>1. CASE o.optimistic
        BY <1>2, <3>1, InvFacts DEF Inv, ShowsOK, Entries
      <3>2. CASE ~o.optimistic
        <4>1. {} \in SUBSET Writes /\ {} \subseteq MayShow
          OBVIOUS
        <4> QED
          BY <3>2, <4>1
      <3> QED
        BY <3>1, <3>2
    <2>3. PICK keys \in SUBSET panel.views : keys = o.affects \union Chosen(o)
      BY <2>1
    <2>4. write' = [write EXCEPT ![w] = [op |-> n, keys |-> keys, stage |-> "sent", prev |-> prev]]
      BY <1>1, <2>2, <2>3 DEF Mutate
    <2>5. [op |-> n, keys |-> keys, stage |-> "sent", prev |-> prev] \in Changes
      BY DEF Changes, Stages
    <2> QED
      BY <2>2, <2>3, <2>4, <2>5
  <1>4. RowsGoOn /\ Heard' \subseteq Heard /\ write'[w] = r
    <2>1. RowOK(r)
      BY <1>2, <1>3 DEF RowOK, Reach, Chosen
    <2>2. /\ RowsGoOn /\ write'[w] = r
          /\ \A v \in Writes \ {w} : v \in Heard' <=> v \in Heard
          /\ w \in Heard' <=> r.stage \in {"told", "failed", "unsure"}
      BY <1>1, <1>3, <2>1, OneRow, InvFacts DEF Mutate, Open, MadeStages, Settled, MayShow
    <2> QED
      BY <1>3, <2>2 DEF Heard
  <1>5. UNCHANGED <<panel, sel>>
    BY DEF Mutate
  <1>6. CASE ~o.optimistic
    BY <1>4, <1>5, <1>6, QuietStep DEF Mutate
  <1>7. CASE o.optimistic
    <2> DEFINE e == [Written(entry[sel], entry[sel].has \union {w})
                        EXCEPT !.fetch = "idle", !.read = {}]
    <2>1. entry' = [entry EXCEPT ![sel] = e]
      BY <1>1, <1>7 DEF Mutate
    <2>2. /\ e \in Entries /\ e.has = entry[sel].has \union {w} /\ e.shown = entry[sel].shown
          /\ e.fetch = "idle" /\ e.read = {}
      <3> DEFINE f == Written(entry[sel], entry[sel].has \union {w})
      <3>1. entry[sel] \in Entries /\ entry[sel].has \union {w} \in SUBSET Writes
        BY <1>2, <1>7, InvFacts DEF Entries
      <3>2. /\ f \in Entries /\ f.has = entry[sel].has \union {w}
            /\ f.shown = entry[sel].shown
        BY <3>1, PrevFacts
      <3>3. e = [f EXCEPT !.fetch = "idle", !.read = {}]
        OBVIOUS
      <3> HIDE DEF f, e
      <3> QED
        BY <3>2, <3>3 DEF Entries
    <2>3. Cache
      BY <2>1, InvFacts DEF Cache
    <2>4. ASSUME NEW k \in panel.views PROVE GoesOn(k)
      <3>1. News(k)
        BY <1>4, NoNews
      <3>2. CASE k = sel
        <4>1. entry'[k] = e
          BY <2>1, <3>2, InvFacts
        <4> HIDE DEF e
        <4>2. k \in panel.family /\ entry[k].shown = (k = sel)
          BY <1>2, <1>7, <3>2 DEF Inv, FamilyOK
        <4>3. FamilyOK(k)'
          BY <1>5, <2>2, <3>2, <4>1, <4>2 DEF FamilyOK
        <4>4. w \in MayShow'
          BY <1>3, <1>4, <1>5, <1>7 DEF MayShow, Op
        <4>5. e.has \subseteq MayShow'
          BY <1>4, <2>2, <3>2, <4>4 DEF Inv, ShowsOK, RowsGoOn
        <4>6. w \notin sure[k]
          BY <1>1 DEF Inv, Good, Settled
        <4> QED
          BY <2>2, <3>1, <3>2, <4>1, <4>2, <4>3, <4>5, <4>6 DEF GoesOn, Counted
      <3>3. CASE k # sel
        <4>1. entry'[k] = entry[k]
          BY <2>1, <3>3, InvFacts
        <4> QED
          BY <1>4, <1>5, <3>1, <4>1, SameView
      <3> QED
        BY <3>2, <3>3
    <2> QED
      BY <1>4, <2>3, <2>4, StepInv
  <1> QED
    BY <1>6, <1>7

LEMMA NextInv == ASSUME CoverRule, Inv, [Next]_vars PROVE Inv'
  <1>1. CASE UNCHANGED vars
    <2>1. \A w \in Writes : Op(w)' = Op(w) /\ Unmade(w)' = Unmade(w)
      BY <1>1 DEF vars, Op, Unmade
    <2>2. MayShow' = MayShow /\ Settled' = Settled /\ \A k \in panel.views : Done(k)' = Done(k)
      BY <1>1, <2>1 DEF vars, MayShow, Settled, Done
    <2>3. ConsoleTypeOK'
      BY <1>1 DEF vars, Inv, ConsoleTypeOK
    <2>4. RowsOK' /\ ShowsOK'
      BY <1>1, <2>2 DEF vars, Inv, RowsOK, RowOK, Reach, ShowsOK
    <2>5. \A k \in panel.views : FamilyOK(k)' /\ Good(k)'
      <3> SUFFICES ASSUME NEW k \in panel.views PROVE FamilyOK(k)' /\ Good(k)'
        BY <1>1 DEF vars
      <3>1. FamilyOK(k) /\ Good(k)
        BY DEF Inv
      <3>2. FamilyOK(k)'
        BY <1>1, <2>2, <3>1 DEF vars, FamilyOK
      <3>3. Counted(k)' = Counted(k)
        BY <1>1 DEF vars, Counted
      <3>4. Good(k)'
        <4>1. entry' = entry /\ sure' = sure /\ write' = write /\ sure[k] \subseteq Writes
          BY <1>1, InvFacts DEF vars
        <4>2. \A w \in sure[k] : Unmade(w)' = Unmade(w)
          BY <2>1, <4>1
        <4>3. Done(k)' = Done(k) /\ Settled' = Settled
          BY <2>2
        <4> QED
          BY <3>1, <3>3, <4>1, <4>2, <4>3 DEF Good
      <3> QED
        BY <3>2, <3>4
    <2> QED
      BY <1>1, <2>3, <2>4, <2>5 DEF vars, Inv
  <1>2. ASSUME Noted, NEW k \in panel.views,
               \/ Show(k) \/ Hide(k) \/ Select(k) \/ Foreign(k) \/ Read(k) \/ Land(k)
               \/ FetchFails(k) \/ Poll(k) \/ Focus(k)
        PROVE  Inv'
    BY <1>2, ShowInv, HideInv, SelectInv, ForeignInv, ReadInv, LandInv, FetchFailsInv, RefreshInv
    DEF Poll, Focus
  <1>3. ASSUME Noted, NEW n \in DOMAIN panel.ops, Mutate(n) PROVE Inv'
    BY <1>3, MutateInv
  <1>4. ASSUME Noted, NEW w \in Writes,
               Apply(w) \/ Refuse(w) \/ Answer(w) \/ Error(w) \/ GiveUp(w) \/ Poke(w)
        PROVE  Inv'
    BY <1>4, ApplyInv, RefuseInv, AnswerInv, ErrorInv, GiveUpInv, PokeInv
  <1> QED
    BY <1>1, <1>2, <1>3, <1>4 DEF Next, Steps

-----------------------------------------------------------------------------
(* The cache, the requests and the selection keep their shape, for every     *)
(* tables that keep the rule.                                               *)
THEOREM CacheTyped == CoverRule => (Spec => []ConsoleTypeOK)
  <1> SUFFICES ASSUME CoverRule PROVE Spec => []ConsoleTypeOK
    OBVIOUS
  <1>1. Init => Inv
    BY InitInv
  <1>2. Inv /\ [Next]_vars => Inv'
    BY NextInv
  <1>3. Inv => ConsoleTypeOK
    BY DEF Inv
  <1> QED
    BY <1>1, <1>2, <1>3, PTL DEF Spec

(* If every request fetches again, or writes, what it changes, then a view   *)
(* at rest shows every change that its panel was told of before the last    *)
(* fetch of it or, save those it forgets and those of a member of a family  *)
(* not on screen any more, since, while none was under way: the useMutation  *)
(* and invalidateQueries of any page of client/app.                         *)
THEOREM OwnWrites == CoverRule => (Spec => []OwnWritesShown)
  <1> SUFFICES ASSUME CoverRule PROVE Spec => []OwnWritesShown
    OBVIOUS
  <1>1. Init => Inv
    BY InitInv
  <1>2. Inv /\ [Next]_vars => Inv'
    BY NextInv
  <1>3. Inv => OwnWritesShown
    BY DEF Inv, Good, Counted, OwnWritesShown, Rests
  <1> QED
    BY <1>1, <1>2, <1>3, PTL DEF Spec

(* However optimistic requests overlap and fail, and whichever member is      *)
(* selected when an error puts a list back (onMutate and onError of the       *)
(* pages of client/app), a view at rest shows no change that its panel knew  *)
(* had failed before the last fetch of it, or has heard of since while it    *)
(* was on screen.                                                            *)
THEOREM NoPhantoms == CoverRule => (Spec => []NoPhantom)
  <1> SUFFICES ASSUME CoverRule PROVE Spec => []NoPhantom
    OBVIOUS
  <1>1. Init => Inv
    BY InitInv
  <1>2. Inv /\ [Next]_vars => Inv'
    BY NextInv
  <1>3. Inv => NoPhantom
    BY DEF Inv, Good, Counted, NoPhantom, Rests
  <1> QED
    BY <1>1, <1>2, <1>3, PTL DEF Spec
=============================================================================
