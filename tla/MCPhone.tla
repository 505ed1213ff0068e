------------------------------- MODULE MCPhone -------------------------------
(* The screens of the phone by kind: those that the app treats by name keep  *)
(* theirs, of the others those that ask, poll and do neither are merged, with*)
(* the links of all of them.  A link to a screen that is not there keeps its *)
(* name.                                                                     *)
EXTENDS PhoneApp, PhonePublic, PhoneLearner, PhoneTutor

All == PublicScreens \union LearnerScreens \union TutorScreens
Known == {"index", "login", "home", "lms", "account", "edit-profile", "onboarding", "wizard",
          "wizard/goals"}
Kind(r) == IF r.name \in Known THEN r.name
           ELSE IF r.asks = "never" THEN "quiet" ELSE IF r.polled THEN "polled" ELSE "asking"
Row(n) == CHOOSE r \in All : r.name = n
Exist == {r.name : r \in All}
KindOf == [n \in Exist |-> Kind(Row(n))]
OfLink(n) == IF n \in Exist THEN KindOf[n] ELSE n
Alike(k) == {r \in All : KindOf[r.name] = k}
Merge(rows) ==
    [asks |-> (CHOOSE r \in rows : TRUE).asks, polled |-> \E r \in rows : r.polled,
     links |-> {OfLink(l[2]) : l \in UNION {r.links : r \in rows}},
     instead |-> {OfLink(n) : n \in UNION {r.instead : r \in rows}}]
Kinds == {KindOf[n] : n \in Exist}
Merged == [k \in Kinds |-> Merge(Alike(k))]
(* TLC evaluates Merged once, and what a configuration names at every use.   *)
ByKind == Merged
=============================================================================
