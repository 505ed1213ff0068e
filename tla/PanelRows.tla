------------------------------ MODULE PanelRows ------------------------------
(* How the rows of the panel tables are written; QueryCache has the fields.  *)
EXTENDS FiniteSets

(* A useMutation, or a handler with a busy flag, that changes nothing.       *)
Request == [affects |-> {}, refetches |-> {}, sets |-> {}, gate |-> {}, forgets |-> {},
            keyed |-> FALSE, settled |-> FALSE, single |-> TRUE, optimistic |-> FALSE]

(* It changes what K shows, and its answer invalidates K.                    *)
Changing(K) == [Request EXCEPT !.affects = K, !.refetches = K]

(* It also changes what K shows, which nobody fetches again.                 *)
Forgetting(o, K) == [o EXCEPT !.affects = @ \union K, !.forgets = @ \union K]

(* Its control is shown with the data of K, and dead while it is under way;  *)
(* or it can be used again at once.                                         *)
Guarded(o, K) == [o EXCEPT !.gate = K]
Unguarded(o, K) == [o EXCEPT !.gate = K, !.single = FALSE]

(* The answer is written into K, not fetched.                                *)
Setting(K) == [Request EXCEPT !.affects = K, !.sets = K]

(* onSettled: an error invalidates as well.                                 *)
Settling(o) == [o EXCEPT !.settled = TRUE]

(* It changes the member of the family that is selected.                     *)
Keyed(o) == [o EXCEPT !.keyed = TRUE]

Panel(views, ops) == [views |-> views, family |-> {}, polled |-> {}, live |-> {}, ops |-> ops]
=============================================================================
