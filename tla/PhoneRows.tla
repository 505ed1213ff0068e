------------------------------ MODULE PhoneRows ------------------------------
(* How the rows of the phone's screen tables are written.                    *)
EXTENDS FiniteSets

Viewers == {"guest", "student", "parent", "tutor", "admin"}
SignedIn == Viewers \ {"guest"}

(* A link is what a press of one viewer leads to: a screen put on top of this *)
(* one, or in its place.                                                     *)
To(S) == Viewers \X S
For(V, S) == V \X S

(* What a press asks of the server.  changes: it changes what the screen     *)
(* shows; after: what its answer does (reload the screen, set the answer     *)
(* into the list, leave, stay); busy: its control is dead while it is under  *)
(* way; waits: its reload included; optimistic: the list shows a guess       *)
(* meanwhile; swallows: the client's function catches every error.            *)
Request == [changes |-> FALSE, after |-> "stay", busy |-> FALSE, waits |-> FALSE,
            optimistic |-> FALSE, swallows |-> FALSE]
Reloads == [Request EXCEPT !.changes = TRUE, !.after = "reload"]
SetsList == [Request EXCEPT !.changes = TRUE, !.after = "local"]
Leaves == [Request EXCEPT !.after = "leave"]

(* if (busy) return, or disabled={busy}; released when the answer came, or   *)
(* only when the reload that it started has landed (await load()).           *)
Busy(o) == [o EXCEPT !.busy = TRUE]
BusyUntilReloaded(o) == [o EXCEPT !.busy = TRUE, !.waits = TRUE]

(* load: "focus" whenever the screen gets the focus, "mount" once, "never";  *)
(* asks: when the load talks to the server with the token of the phone;      *)
(* scoped: it asks for the learner that is selected; onFail: what a load      *)
(* that fails leaves on the screen; cancels: leaving drops the answer;       *)
(* polled, live: an interval, events.                                       *)
Static(name, links) ==
    [name |-> name, load |-> "never", asks |-> "never", scoped |-> FALSE, cancels |-> FALSE,
     onFail |-> "keep", polled |-> FALSE, live |-> FALSE, ops |-> {},
     links |-> links, instead |-> {}]
Instead(r, names) == [r EXCEPT !.instead = names]

Loads(name, fail, ops, links) ==
    [Static(name, links) EXCEPT !.load = "focus", !.asks = "always", !.onFail = fail, !.ops = ops]

(* The load reads the token first and asks nothing without one.              *)
IfSignedIn(r) == [r EXCEPT !.asks = "signed in"]
OnMount(r) == [r EXCEPT !.load = "mount"]
Cancels(r) == [r EXCEPT !.cancels = TRUE]
Scoped(r) == [r EXCEPT !.scoped = TRUE]
Live(r) == [r EXCEPT !.polled = TRUE, !.live = TRUE]

(* The bar at the foot of the main screens.                                  *)
TabBar == To({"home", "lms", "search", "notifications", "account"})
=============================================================================
