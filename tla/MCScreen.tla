------------------------------ MODULE MCScreen -------------------------------
(* The screens of the phone that show a list; those that are treated alike   *)
(* are explored once.                                                        *)
EXTENDS PhoneScreen, PhonePublic, PhoneLearner, PhoneTutor

Shape(r) == [load |-> r.load, scoped |-> r.scoped, cancels |-> r.cancels, onFail |-> r.onFail,
             polled |-> r.polled, live |-> r.live, ops |-> r.ops]
Shapes == {Shape(r) : r \in {r \in PublicScreens \union LearnerScreens \union TutorScreens :
                             r.load # "never"}}

(* The rows keep the rule the proofs rest on.                               *)
ASSUME RowsKeepRule == ScreenRule
=============================================================================
