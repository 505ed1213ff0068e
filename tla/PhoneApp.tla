------------------------------ MODULE PhoneApp -------------------------------
(***************************************************************************)
(* The phone app as a whole: the stack of screens, the token that the      *)
(* phone has stored, and the requests under way, each with the token that  *)
(* was stored when it was begun.  A 401 answer to a request that carried a *)
(* token clears the store and leads to the login screen (apiFetch and the  *)
(* handler of _layout); the store itself is written later than the code    *)
(* goes on.  Which screens ask the server and what they link to is data:   *)
(* PhonePublic, PhoneLearner and PhoneTutor have the tables.               *)
(***************************************************************************)
EXTENDS Naturals, Sequences, SequencesExt, FiniteSets

CONSTANTS ScreenTable, \* the rows, by name, with the links that any viewer has
          Sessions,  \* bound: sign-ins
          MaxStack,  \* bound: screens on top of each other
          MaxCalls,  \* bound: requests under way
          MaxFlows,  \* bound: presses under way that sign in or out
          MaxWrites, \* bound: writes of the store under way
          NoToken

ASSUME AppAssumption ==
    /\ {MaxStack, MaxCalls, MaxFlows, MaxWrites} \subseteq Nat /\ MaxStack # 0
    /\ NoToken \notin Sessions

VARIABLES
    stack,      \* the screens on top of each other
    due,        \* the screen on top has just got the focus, and loads then
    store,      \* the token in SecureStore
    writing,    \* the writes of it that were begun, with what waits for each
    opened,     \* the sessions there have been
    alive,      \* those of them the server accepts
    calls,      \* the loads under way
    flows       \* the presses under way that sign in or out, or end the setup

appVars == <<stack, due, store, writing, opened, alive, calls, flows>>
session == <<opened, alive>>

Names == DOMAIN ScreenTable
Top == Last(stack)
TopRow == ScreenTable[Top]
Loading(n) == n \in Names /\ ScreenTable[n].asks # "never"
Tokens == Sessions \union {NoToken}

(* A press that awaits its request, with the token this carries; "who" asks   *)
(* where a Google sign-in, of session .of, leads.                            *)
Signing == {"login", "confirm", "setup", "logout", "delete"}
Flow(step, t, s) == [step |-> step, token |-> t, of |-> s]
Flows == [step : Signing \union {"who"}, token : Tokens, of : Tokens]
StoreWrites == [token : Tokens, then : {"nothing", "who", "leave"}]

PhoneTypeOK ==
    /\ due \in BOOLEAN
    /\ stack # <<>> /\ Len(stack) <= MaxStack
    /\ store \in Tokens /\ writing \in Seq(StoreWrites)
    /\ opened \subseteq Sessions /\ alive \subseteq opened
    /\ \A c \in calls : c.token \in {NoToken} \union opened
    /\ flows \subseteq Flows

AppInit ==
    /\ stack = <<"index">> /\ due = Loading("index")
    /\ store = NoToken /\ writing = <<>>
    /\ opened = {} /\ alive = {}
    /\ calls = {} /\ flows = {}

InPlace(n) == ReplaceAt(stack, Len(stack), n)
GoesTo(n) == stack' = InPlace(n) /\ due' = Loading(n)
Stays == UNCHANGED <<stack, due>>

(* setToken begins a write; what awaits it goes on when it is done.          *)
Saves(t, then) ==
    Len(writing) < MaxWrites /\ writing' = Append(writing, [token |-> t, then |-> then])
Stored(w) == {w[i].token : i \in DOMAIN w}

-----------------------------------------------------------------------------
(* Moving about.                                                            *)

Push(n) ==
    /\ Len(stack) < MaxStack
    /\ stack' = Append(stack, n) /\ due' = Loading(n)
    /\ UNCHANGED <<store, writing, session, calls, flows>>

Replace(n) ==
    /\ GoesTo(n)
    /\ UNCHANGED <<store, writing, session, calls, flows>>

Back ==
    /\ Len(stack) > 1
    /\ stack' = Front(stack) /\ due' = Loading(Last(Front(stack)))
    /\ UNCHANGED <<store, writing, session, calls, flows>>

(* The app is killed and opened again; a write that was begun may be done.   *)
Restart ==
    /\ stack' = <<"index">> /\ due' = Loading("index")
    /\ store' \in {store} \union Stored(writing)
    /\ writing' = <<>> /\ calls' = {} /\ flows' = {}
    /\ UNCHANGED session

-----------------------------------------------------------------------------
(* Requests.                                                                *)

(* Only two screens go elsewhere when their load is over.                    *)
Steering == {"index", "wizard"}
Call(n, t) == [at |-> IF n \in Steering THEN n ELSE "other", token |-> t]

(* The screen loads when it gets the focus, and in intervals.                *)
AsksOnce ==  \* mutant
    /\ Loading(Top) /\ Cardinality(calls) < MaxCalls
    /\ due
    /\ due' = FALSE
    /\ IF TopRow.asks = "signed in" /\ store = NoToken
       THEN UNCHANGED calls
       ELSE calls' = calls \union {Call(Top, store)}
    /\ UNCHANGED <<stack, store, writing, session, flows>>
Ask ==
    /\ Loading(Top) /\ Cardinality(calls) < MaxCalls
    /\ due \/ TopRow.polled
    /\ due' = FALSE
    /\ IF TopRow.asks = "signed in" /\ store = NoToken
       THEN UNCHANGED calls
       ELSE calls' = calls \union {Call(Top, store)}
    /\ UNCHANGED <<stack, store, writing, session, flows>>

(* A press whose request needs a session, or registerDevice after a sign-in:  *)
(* what its handler does on that screen shows in no other.                  *)
Send ==
    /\ store # NoToken /\ Cardinality(calls) < MaxCalls
    /\ calls' = calls \union {Call("other", store)}
    /\ UNCHANGED <<stack, due, store, writing, session, flows>>

(* fireUnauthorized, for a request that carried a token: the store is         *)
(* cleared, later, and the screen that is on top now is replaced.  The       *)
(* request fails after that, with the body of the answer.                   *)
Unauthorized(t) == t # NoToken
Bounce == Saves(NoToken, "nothing") /\ GoesTo("login")

(* Where a role lands, and the wizard for those who have not been there.  The *)
(* start screen gives its load up when it is covered, the wizard when it is  *)
(* gone.                                                                    *)
Landings == {"home", "lms"}
Accepted(c) ==
    \/ Stays /\ (c.at = "index" => Top # "index")
    \/ c.at = "index" /\ Top = "index" /\ \E n \in {"wizard"} \union Landings : GoesTo(n)
    \/ c.at = "wizard" /\ c.at \in Range(stack) /\ GoesTo("home")

(* A load that fails: the wizard leads to the login screen, from whatever is  *)
(* on top and though it is gone; the others stay what they are.             *)
Unanswered(c) == IF c.at = "wizard" THEN GoesTo("login") ELSE Stays

Reply(c) ==
    /\ \/ /\ c.token \in alive
          /\ Accepted(c)
          /\ calls' = calls \ {c} /\ UNCHANGED writing
       \/ /\ c.token \notin alive /\ Unauthorized(c.token)
          /\ Bounce
          /\ calls' = (calls \ {c}) \union
                      (IF c.at = "wizard" THEN {[c EXCEPT !.token = NoToken]} ELSE {})
       \/ /\ c.token \notin alive /\ ~Unauthorized(c.token)
          /\ Unanswered(c)
          /\ calls' = calls \ {c} /\ UNCHANGED writing
    /\ UNCHANGED <<store, session, flows>>

(* Neither try of apiFetch was answered, or not as it should be.             *)
NoReply(c) ==
    /\ calls' = calls \ {c}
    /\ Unanswered(c)
    /\ UNCHANGED <<store, writing, session, flows>>

(* SecureStore gets to the next write, and what awaited it goes on: /auth/me  *)
(* reads the token that is stored by then.                                  *)
Store ==
    /\ writing # <<>>
    /\ store' = Head(writing).token /\ writing' = Tail(writing)
    /\ IF Head(writing).then = "leave" THEN GoesTo("login") ELSE Stays
    /\ IF Head(writing).then = "who"
       THEN \E t \in {store'} \union Stored(writing') : flows' = flows \union {Flow("who", t, store')}
       ELSE UNCHANGED flows
    /\ UNCHANGED <<session, calls>>

(* A session runs out or is revoked.                                         *)
Expire(s) ==
    /\ s \in alive
    /\ alive' = alive \ {s}
    /\ UNCHANGED <<stack, due, store, writing, opened, calls, flows>>

-----------------------------------------------------------------------------
(* Signing in and out.  The screen may be left while its request is under     *)
(* way: what follows the answer replaces whatever is on top by then.        *)

Opens(s) == opened' = opened \union {s} /\ alive' = alive \union {s}
Over(f) == flows' = flows \ {f}

Awaiting == {i \in DOMAIN writing : writing[i].then # "nothing"}
OnePressMore == Cardinality(flows) + Cardinality(Awaiting) < MaxFlows

PressedOn == [login |-> "login", confirm |-> "onboarding", setup |-> "wizard/goals",
              logout |-> "account", delete |-> "edit-profile"]
Signs(step) ==
    /\ Top = PressedOn[step] /\ OnePressMore
    /\ flows' = flows \union {Flow(step, store, NoToken)}
    /\ UNCHANGED <<stack, due, store, writing, session, calls>>

(* finishSession: the token is stored and the screen replaced, neither        *)
(* waiting for the other.                                                   *)
Finish(s, landings) == Saves(s, "nothing") /\ \E n \in landings : GoesTo(n)

(* The password or the code is right; the phone's own registration goes on    *)
(* on its screen.                                                           *)
SignInDone(f, s) ==
    /\ f.step \in {"login", "confirm"}
    /\ Opens(s)
    /\ IF f.step = "login" THEN Finish(s, Landings) ELSE Saves(s, "nothing") /\ Stays
    /\ Over(f)
    /\ UNCHANGED <<store, calls>>

(* A wrong password or code is a 401 as well, whatever session the request    *)
(* carried; a code that has to be typed in elsewhere (mfa_required), another *)
(* error and no answer leave an alert.                                      *)
SignInFails(f) ==
    /\ f.step \in {"login", "confirm"}
    /\ \/ Unauthorized(f.token) /\ Bounce
       \/ Stays /\ UNCHANGED writing
    /\ Over(f)
    /\ UNCHANGED <<store, session, calls>>

(* Google: the token is stored first, then /auth/me is asked where to go.     *)
Google(s) ==
    /\ Top = "login" /\ OnePressMore
    /\ Opens(s)
    /\ Saves(s, "who")
    /\ UNCHANGED <<stack, due, store, calls, flows>>

(* It is home without an answer; a 401 clears the store first.               *)
GoogleLands(f) ==
    /\ f.step = "who"
    /\ \/ f.token \in alive /\ Finish(f.of, Landings) /\ Over(f)
       \/ Finish(f.of, {"home"}) /\ Over(f)
       \/ /\ f.token \notin alive /\ Unauthorized(f.token)
          /\ Bounce
          /\ flows' = (flows \ {f}) \union {[f EXCEPT !.token = NoToken]}
    /\ UNCHANGED <<store, session, calls>>

(* A request of a press is refused for its session, or fails otherwise.      *)
PressFails(f) ==
    /\ f.step \in {"setup", "delete"}
    /\ \/ f.token \notin alive /\ Unauthorized(f.token) /\ Bounce
       \/ Stays /\ UNCHANGED writing
    /\ Over(f)
    /\ UNCHANGED <<store, session, calls>>

FinishSetup(f) ==
    /\ f.step = "setup" /\ f.token \in alive
    /\ GoesTo("home")
    /\ Over(f)
    /\ UNCHANGED <<store, writing, session, calls>>

(* The answer to a logout may be lost or the request, the store is cleared in *)
(* any case, and the screen replaced when it is; a deletion has to succeed.  *)
Logout(f) ==
    /\ f.step = "logout"
    /\ alive' \in {alive, alive \ {f.token}}
    /\ Saves(NoToken, "leave")
    /\ Over(f)
    /\ UNCHANGED <<stack, due, store, opened, calls>>

ConfirmDelete(f) ==
    /\ f.step = "delete" /\ f.token \in alive
    /\ alive' = alive \ {f.token}
    /\ Saves(NoToken, "leave")
    /\ Over(f)
    /\ UNCHANGED <<stack, due, store, opened, calls>>

-----------------------------------------------------------------------------
(* A token is a new one: which of the unused ones makes no difference.       *)
NextSession == {s \in Sessions \ opened : s = CHOOSE u \in Sessions \ opened : TRUE}
Tap ==
    /\ Top \in Names
    /\ \/ \E n \in TopRow.links : Push(n)
       \/ \E n \in TopRow.instead : Replace(n)
Pressed(f) ==
    \/ SignInFails(f) \/ GoogleLands(f) \/ PressFails(f) \/ FinishSetup(f)
    \/ Logout(f) \/ ConfirmDelete(f)
    \/ \E s \in NextSession : SignInDone(f, s)
AppNext ==
    \/ Tap \/ Back \/ Restart \/ Ask \/ Send \/ Store
    \/ \E c \in calls : Reply(c) \/ NoReply(c)
    \/ \E s \in Sessions : Expire(s)
    \/ \E step \in Signing : Signs(step)
    \/ \E f \in flows : Pressed(f)
    \/ \E s \in NextSession : Google(s)

AppSpec == AppInit /\ [][AppNext]_appVars

(* Writes are done, a screen in front loads, and the server does not stay out *)
(* of reach for ever.                                                       *)
Replies == \E c \in calls : Reply(c)
AppFairness == SF_appVars(Replies) /\ WF_appVars(Store) /\ WF_appVars(Ask)
AppFairSpec == AppSpec /\ AppFairness

-----------------------------------------------------------------------------
(* Every link leads to a screen there is: `as never` has switched the        *)
(* compiler's check of them off.                                             *)
NoDeadLink == \A i \in DOMAIN stack : stack[i] \in Names

(* A session that is over is noticed in the end wherever the screen in front  *)
(* goes on asking, though requests are lost and others are under way.       *)
AsksOn == Top \in Names /\ TopRow.polled
DeadSessionNoticed == []<>~(store # NoToken /\ store \notin alive /\ AsksOn)

(* A 401 means that the session that is stored is over.                      *)
(* It does not hold.                                                        *)
Bounced == \E c \in calls : Reply(c) /\ Bounce
ClearsDeadSession == [][Bounced => store \notin alive]_appVars
=============================================================================
