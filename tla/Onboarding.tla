----------------------------- MODULE Onboarding -----------------------------
(***************************************************************************)
(* Signing up in one browser: the seven steps of client/app/onboarding/    *)
(* page.tsx with the draft they keep in localStorage, the wizard of        *)
(* client/app/onboarding/wizard/page.tsx, and the accounts behind them     *)
(* (internal/service/auth_service.go, auth_magiclink.go).  People share    *)
(* the browser; its session may end under the page, pages are reloaded and *)
(* requests fail.                                                          *)
(***************************************************************************)
EXTENDS Naturals, FiniteSets

CONSTANTS People, NoOne,
          Known,     \* people who have an account, made with Google
          Slots,     \* bound: requests under way at once
          Overlap,   \* bound: operations begun while another is under way
          MaxFaults  \* bound: requests lost, sessions ended, codes expired

ASSUME OnboardingAssumption ==
    /\ NoOne \notin People /\ Known \subseteq People /\ MaxFaults \in Nat
    /\ Slots \subseteq Nat /\ IsFiniteSet(Slots)

Person == People \union {NoOne}
Steps == 1..7
VARIABLES
    acct,    \* server: an account per address
    cookie,  \* whose session the browser holds
    who,     \* who sits at the browser
    disk,    \* the draft in localStorage
    tab,     \* the page
    call,    \* requests under way
    faults

vars == <<acct, cookie, who, disk, tab, call, faults>>

(* typed: who typed the name and address; owner: its userId.                *)
Drafts == [typed: Person, owner: Person, verified: BOOLEAN, role: BOOLEAN]
EmptyDraft == [typed |-> NoOne, owner |-> NoOne, verified |-> FALSE, role |-> FALSE]

(* code: the account has an unused login code; gen: its password is the one   *)
(* this page generated last (generatedPwRef).                               *)
Accounts == [st: {"none", "pending", "active"}, gen: BOOLEAN, code: BOOLEAN,
             onboarded: BOOLEAN]
NoAccount == [st |-> "none", gen |-> FALSE, code |-> FALSE,
              onboarded |-> FALSE]

(* A code is the last one mailed, or a superseded one.                      *)
Codes == {"none", "last", "old"}

Operations == {"none", "register", "again", "send", "verify", "recover",
               "reverify", "role",
               "password", "finish", "done"}

(* gen: it carries the password generated last.                             *)
(* "profile" and "mark" are the requests of a finish, one after the other.   *)
CallRecords == [op: Operations, to: Person, typed: Person, gen: BOOLEAN,
                code: Codes,
                stage: {"sent", "profile", "mark", "ok", "exists", "denied", "failed"}]
FreeCall == [op |-> "none", to |-> NoOne, typed |-> NoOne, gen |-> FALSE,
             code |-> "none", stage |-> "sent"]

Users == [id: Person, onboarded: BOOLEAN]
NoUser == [id |-> NoOne, onboarded |-> FALSE]

(* user, loaded: the cached session; url: the step parameter (0: none);     *)
(* due: effects a commit has still to run, after a change of step or not;      *)
(* proven: verifiedRef; saving, tries: the wizard's flag and its reads of    *)
(* the session.                                                             *)
TabRecords == [page: {"away", "flow", "wizard", "login", "home"}, user: Users, loaded: BOOLEAN,
               url: 0..7,
               due: {"no", "commit", "arrived"}, draft: Drafts, code: Codes,
               codeSent: BOOLEAN, submitting: BOOLEAN, proven: BOOLEAN,
               saving: BOOLEAN, tries: 0..1]
Closed == [page |-> "away", user |-> NoUser, loaded |-> FALSE, url |-> 0,
           due |-> "no", draft |-> EmptyDraft, code |-> "none", codeSent |-> FALSE,
           submitting |-> FALSE, proven |-> FALSE,
           saving |-> FALSE, tries |-> 0]

OnboardingTypeOK ==
    /\ acct \in [People -> Accounts] /\ cookie \in Person /\ who \in People
    /\ disk \in Drafts /\ tab \in TabRecords /\ call \in [Slots -> CallRecords]
    /\ faults \in 0..MaxFaults

Init ==
    /\ acct = [p \in People |-> [NoAccount EXCEPT !.st = IF p \in Known THEN "active" ELSE @]]
    /\ cookie = NoOne /\ who \in People
    /\ disk = EmptyDraft /\ tab = Closed
    /\ call = [s \in Slots |-> FreeCall] /\ faults = 0

-----------------------------------------------------------------------------
(* Without a parameter the step follows from the draft.                     *)
Step == IF tab.url # 0 THEN tab.url
        ELSE IF ~tab.draft.verified THEN 1
        ELSE IF ~tab.draft.role THEN 3 ELSE 5

InFlow == tab.page = "flow"
SignedIn == tab.user # NoUser

(* The draft belongs to somebody else, or to a session that is gone.        *)
NoMismatch == FALSE  \* mutant
Mismatch == SignedIn /\ tab.draft.owner \notin {NoOne, tab.user.id}
Orphaned == ~SignedIn /\ tab.draft.owner # NoOne /\ tab.draft.verified
StaleWhenProven == tab.loaded /\ (Mismatch \/ Orphaned)  \* mutant
StaleDraft == tab.loaded /\ ~tab.proven /\ (Mismatch \/ Orphaned)

Sessionless == tab.loaded /\ ~SignedIn /\ ~tab.proven /\ Step \in 3..6
ShowsNothing == InFlow /\ (StaleDraft \/ Sessionless)

(* Events are handled between renders, when the effects have run.           *)
FreeSlots == {s \in Slots : call[s].op = "none"}
Idle == tab.due = "no"
InForm(n) == InFlow /\ Idle /\ ~ShowsNothing /\ Step = n

(* The bound on requests: people leave two slots to the effects.            *)
CanBegin(op) == \/ FreeSlots = Slots \/ op \in {"send", "recover"}
                \/ op \in Overlap /\ Cardinality(FreeSlots) > 2
Waiting(op) == \E s \in Slots : call[s].op = op

SendAfter(calls, request) ==
    /\ CanBegin(request.op)
    /\ \E s \in FreeSlots : /\ \A r \in FreeSlots : s <= r
                            /\ call' = [calls EXCEPT ![s] = request]
Send(request) == SendAfter(call, request)

Mail(op) == [FreeCall EXCEPT !.op = op, !.to = tab.draft.typed]
AsUser(op) == [FreeCall EXCEPT !.op = op, !.to = cookie]

(* save: the whole draft, in memory and on disk.                            *)
SaveWith(t, draft) == tab' = [t EXCEPT !.draft = draft] /\ disk' = draft

-----------------------------------------------------------------------------
(* The browser.                                                             *)

(* A mount reads the draft from disk.  What an earlier page awaited is not   *)
(* heard (it has been served by then, or is lost), and what it generated is *)
(* gone.                                                                    *)
NoCalls == [s \in Slots |-> FreeCall]
ForgetGenerated == acct' = [p \in People |-> [acct[p] EXCEPT !.gen = FALSE]]

Mounted(t, url) == [Closed EXCEPT !.page = "flow", !.url = url, !.user = t.user,
                                  !.loaded = t.loaded, !.draft = disk, !.due = "arrived"]

Open ==
    /\ tab.page = "away" /\ tab' = Mounted(Closed, 0)
    /\ UNCHANGED <<acct, cookie, who, disk, call, faults>>

OpenLogin ==
    /\ tab.page = "away" /\ tab' = [Closed EXCEPT !.page = "login"]
    /\ UNCHANGED <<acct, cookie, who, disk, call, faults>>

Reload ==
    /\ InFlow /\ tab.due = "no" /\ tab' = Mounted(Closed, tab.url)
    /\ call' = NoCalls /\ ForgetGenerated
    /\ UNCHANGED <<cookie, who, disk, faults>>

Close ==
    /\ tab.page # "away" /\ tab' = Closed
    /\ call' = NoCalls /\ ForgetGenerated
    /\ UNCHANGED <<cookie, who, disk, faults>>

(* Somebody else sits down.                                                 *)
NextPerson ==
    /\ tab.page = "away" /\ who' \in People \ {who}
    /\ UNCHANGED <<acct, cookie, disk, tab, call, faults>>

(* useLogout: the draft goes with the session, and the document with both.  *)
Logout ==
    /\ tab.page = "home" /\ tab' = Closed
    /\ disk' = EmptyDraft /\ cookie' = NoOne
    /\ call' = NoCalls /\ ForgetGenerated
    /\ UNCHANGED <<who, faults>>

(* The login pages, with a password, a code or Google, which makes the       *)
(* account it does not find.                                                *)
SignIn ==
    /\ tab.page = "login"
    /\ cookie' = who
    /\ acct' = [acct EXCEPT ![who].st = "active"]
    /\ tab' = [Closed EXCEPT !.user = [id |-> who, onboarded |-> acct[who].onboarded],
                             !.page = IF acct[who].onboarded THEN "home" ELSE "wizard"]
    /\ UNCHANGED <<who, disk, call, faults>>

(* The session ends behind the page's back.                                 *)
Expire ==
    /\ cookie # NoOne /\ faults < MaxFaults
    /\ cookie' = NoOne /\ faults' = faults + 1
    /\ UNCHANGED <<acct, who, disk, tab, call>>

(* The cached session is read: at first, and again whenever the cache is     *)
(* stale.  A request that fails reads as "signed out".                      *)
SessionOf(p) == IF p = NoOne THEN NoUser ELSE [id |-> p, onboarded |-> acct[p].onboarded]
ReadsSession == tab.page \in {"flow", "wizard"} /\ tab.due = "no"

ReadSession ==
    /\ ReadsSession
    /\ tab.loaded => tab.user # SessionOf(cookie)
    /\ tab' = [tab EXCEPT !.user = IF SignedIn /\ ~tab.loaded THEN @ ELSE SessionOf(cookie),
                          !.loaded = TRUE, !.due = "commit"]
    /\ UNCHANGED <<acct, cookie, who, disk, call, faults>>

ReadFails ==
    /\ ReadsSession /\ faults < MaxFaults /\ (tab.loaded <=> SignedIn)
    /\ tab' = [tab EXCEPT !.user = NoUser, !.loaded = TRUE, !.due = "commit"]
    /\ faults' = faults + 1
    /\ UNCHANGED <<acct, cookie, who, disk, call>>

-----------------------------------------------------------------------------
(* The effects of a commit, in the order they are declared.                 *)

(* Another page: what this one awaited is not heard.                        *)
Left(page) == [Closed EXCEPT !.page = page, !.user = tab.user, !.loaded = tab.loaded,
                             !.due = IF page = "wizard" THEN "commit" ELSE "no"]
Leave(page) == tab' = Left(page) /\ call' = NoCalls /\ ForgetGenerated

(* go: another step of this page.                                           *)
GoTo(t, n) == [t EXCEPT !.url = n, !.due = IF Step = n THEN @ ELSE "arrived"]

(* The verify step mails the code the moment it opens.                      *)
AutoSends == /\ tab.due = "arrived" /\ Step = 2 /\ ~tab.codeSent /\ ~tab.submitting
             /\ tab.draft.typed # NoOne

(* A lost session is recovered with a fresh code.                           *)
Recovers == ~StaleDraft /\ Sessionless /\ tab.draft.typed # NoOne

(* Finished accounts go home, and without an address to mail to there is     *)
(* the wizard.                                                              *)
Redirects ==
    /\ InFlow /\ tab.due # "no"
    /\ \/ tab.loaded /\ tab.user.onboarded /\ Leave("home")
       \/ ~StaleDraft /\ Sessionless /\ tab.draft.typed = NoOne /\ Leave("wizard")
    /\ UNCHANGED <<cookie, who, disk, faults>>

(* A session on step 1 has no account to create (it is ACTIVE): step 3.      *)
SkipsAccount == tab.loaded /\ SignedIn /\ Step = 1

RunEffects ==
    /\ InFlow /\ tab.due # "no" /\ ~(tab.loaded /\ tab.user.onboarded)
    /\ StaleDraft \/ ~Sessionless \/ tab.draft.typed # NoOne
    /\ CASE AutoSends -> Send(Mail("send"))
         [] Recovers  -> Send(Mail("recover"))
         [] OTHER     -> UNCHANGED call
    /\ LET ran == [tab EXCEPT !.due = "no", !.submitting = @ \/ AutoSends]
           t == IF SkipsAccount THEN GoTo(ran, 3) ELSE ran IN
       IF StaleDraft
       THEN SaveWith([t EXCEPT !.proven = FALSE, !.code = "none", !.codeSent = FALSE,
                               !.due = IF SkipsAccount THEN "arrived" ELSE "commit"], EmptyDraft)
       ELSE tab' = t /\ UNCHANGED disk
    /\ UNCHANGED <<acct, cookie, who, faults>>

-----------------------------------------------------------------------------
(* What a person does in the steps.                                         *)

TypeIn ==
    /\ InForm(1) /\ tab.draft.typed # who
    /\ SaveWith(tab, [tab.draft EXCEPT !.typed = who])
    /\ UNCHANGED <<acct, cookie, who, call, faults>>

(* "Continue" is dead while a request is under way, Enter is not.  A new     *)
(* password takes the place of the last.                                    *)
Continue ==
    /\ InForm(1) /\ tab.draft.typed # NoOne
    /\ \/ /\ SignedIn /\ tab' = GoTo(tab, 3)
          /\ UNCHANGED <<acct, call>>
       \/ /\ ~SignedIn /\ tab' = [tab EXCEPT !.submitting = TRUE] /\ ForgetGenerated
          /\ SendAfter([c \in Slots |-> [call[c] EXCEPT !.gen = FALSE]],
                       [Mail("register") EXCEPT !.gen = TRUE])
    /\ UNCHANGED <<cookie, who, disk, faults>>

Resend ==
    /\ InForm(2) /\ ~tab.submitting /\ CanBegin("resend")
    /\ Send(Mail("send")) /\ tab' = [tab EXCEPT !.submitting = TRUE]
    /\ UNCHANGED <<acct, cookie, who, disk, faults>>

(* verifyCode: one at a time, by verifyingRef.                              *)
NotVerifying == ~Waiting("verify")

Verify(code) ==
    /\ Send([Mail("verify") EXCEPT !.code = code])
    /\ tab' = [tab EXCEPT !.code = code, !.submitting = TRUE]

(* The sixth digit verifies by itself.  People read their own mail.         *)
EnterCode ==
    /\ InForm(2) /\ who = tab.draft.typed
    /\ \E code \in Codes \ {"none"} :
          /\ code = "last" => acct[who].code
          /\ IF tab.submitting \/ ~NotVerifying
             THEN tab' = [tab EXCEPT !.code = code] /\ UNCHANGED call
             ELSE Verify(code)
    /\ UNCHANGED <<acct, cookie, who, disk, faults>>

(* Enter, or "Verify email".                                                *)
PressVerify ==
    /\ InForm(2) /\ tab.code # "none" /\ NotVerifying /\ Verify(tab.code)
    /\ UNCHANGED <<acct, cookie, who, disk, faults>>

PickRole ==
    /\ InForm(3) /\ ~tab.submitting
    /\ Send(AsUser("role"))
    /\ tab' = [tab EXCEPT !.submitting = TRUE]
    /\ UNCHANGED <<acct, cookie, who, disk, faults>>

SetPassword ==
    /\ InForm(5) /\ ~tab.submitting
    /\ Send([AsUser("password") EXCEPT !.gen = TRUE])
    /\ tab' = [tab EXCEPT !.submitting = TRUE]
    /\ UNCHANGED <<acct, cookie, who, disk, faults>>

Skippable == 4..6

(* The steps that only note things in the draft: the answers that go with a  *)
(* role, which there must be, and what people tell about themselves.        *)
ContinuePath == InForm(4) /\ tab.draft.role /\ tab' = GoTo(tab, 5)
ContinueAbout == InForm(6) /\ tab' = GoTo(tab, 7)
Skip == \E n \in Skippable : InForm(n) /\ tab' = GoTo(tab, n + 1)
Back == \E n \in 2..6 : InForm(n) /\ tab' = GoTo(tab, n - 1)

(* None of them looks at what is under way.                                 *)
Move ==
    /\ \/ /\ ContinuePath \/ ContinueAbout \/ Skip \/ Back
          /\ UNCHANGED <<acct, call>>
       \/ InForm(3) /\ Leave("home")
    /\ UNCHANGED <<cookie, who, disk, faults>>

(* "Go to my dashboard": the profile, then the flag.  (Before them a learner *)
(* may be recorded, which nothing here depends on.)                         *)
ShowsFinish == InForm(7)

Finish ==
    /\ ShowsFinish
    /\ Send([AsUser("finish") EXCEPT !.typed = tab.draft.typed, !.stage = "profile"])
    /\ UNCHANGED <<acct, cookie, who, disk, tab, faults>>

-----------------------------------------------------------------------------
(* What the page does with an answer.                                       *)

Answered(c, op, stage) ==
    call[c].op = op /\ call[c].stage = stage /\ tab.due = "no"
Take(c) == call' = [call EXCEPT ![c] = FreeCall]
Then(c, op) == call' = [call EXCEPT ![c] = Mail(op)]
Settled == [tab EXCEPT !.submitting = FALSE]

(* A draft that thereby becomes another account's is an effect's business.   *)
Registered(c) ==
    /\ Answered(c, "register", "ok") /\ Take(c)
    /\ LET t == GoTo(Settled, 2)
           foreign == tab.loaded /\ SignedIn /\ ~tab.proven /\ tab.user.id # call[c].to IN
       SaveWith([t EXCEPT !.due = IF foreign /\ @ = "no" THEN "commit" ELSE @],
                [tab.draft EXCEPT !.owner = call[c].to, !.verified = FALSE])
    /\ UNCHANGED <<acct, cookie, who, faults>>

(* The account exists: a fresh code, and on to the verify step.             *)
Exists(c) ==
    /\ Answered(c, "register", "exists") /\ Then(c, "again") /\ tab' = Settled
    /\ UNCHANGED <<acct, cookie, who, disk, faults>>

Mailed(c) ==
    /\ \/ Answered(c, "again", "ok") /\ tab' = GoTo(Settled, 2)
       \/ Answered(c, "send", "ok") /\ tab' = [Settled EXCEPT !.codeSent = TRUE]
       \/ /\ \/ Answered(c, "recover", "ok")
             \/ Answered(c, "reverify", "ok")
          /\ tab' = GoTo([tab EXCEPT !.code = "none", !.codeSent = TRUE,
                                     !.submitting = @ /\ call[c].op = "recover"], 2)
    /\ Take(c)
    /\ UNCHANGED <<acct, cookie, who, disk, faults>>

(* The session is planted, and the page knows it before it asks.            *)
Verified(c) ==
    /\ Answered(c, "verify", "ok") /\ Take(c)
    /\ cookie' = call[c].to
    /\ SaveWith([GoTo(Settled, 3) EXCEPT !.user = SessionOf(call[c].to), !.loaded = SignedIn,
                                         !.due = "arrived", !.proven = TRUE],
                [tab.draft EXCEPT !.owner = call[c].to, !.verified = TRUE])
    /\ UNCHANGED <<acct, who, faults>>

RoleSaved(c) ==
    /\ Answered(c, "role", "ok") /\ Take(c)
    /\ SaveWith(GoTo(Settled, 4), [tab.draft EXCEPT !.role = TRUE])
    /\ UNCHANGED <<acct, cookie, who, faults>>

PasswordSet(c) ==
    /\ Answered(c, "password", "ok") /\ Take(c)
    /\ cookie' = call[c].to /\ tab' = GoTo(Settled, 6)
    /\ UNCHANGED <<acct, who, disk, faults>>

(* The session is gone: reverify, still submitting.                         *)
Unauthorized(c) ==
    /\ Answered(c, "role", "denied") \/ Answered(c, "password", "denied")
    /\ Then(c, "reverify")
    /\ UNCHANGED <<acct, cookie, who, disk, tab, faults>>

(* An error is shown; a recovery whose mail fails ends at the login page.    *)
Failed(c) ==
    /\ \/ /\ \/ \E op \in {"register", "again", "send", "verify", "role", "password"} :
                   Answered(c, op, "failed")
             \/ Answered(c, "verify", "denied")
          /\ tab' = Settled /\ Take(c) /\ UNCHANGED acct
       \/ /\ \E op \in {"recover", "reverify"} : Answered(c, op, "failed")
          /\ Leave("login")
    /\ UNCHANGED <<cookie, who, disk, faults>>

(* Nobody is trapped on the finish line.                                    *)
Finished(c) ==
    /\ \E stage \in {"ok", "failed"} : Answered(c, "finish", stage)
    /\ disk' = EmptyDraft /\ Leave("home")
    /\ UNCHANGED <<cookie, who, faults>>

-----------------------------------------------------------------------------
(* The wizard.                                                              *)

WizardEffects ==
    /\ tab.page = "wizard" /\ tab.due # "no"
    /\ tab' = IF tab.loaded /\ tab.user.onboarded
              THEN [Closed EXCEPT !.page = "home"] ELSE [tab EXCEPT !.due = "no"]
    /\ UNCHANGED <<acct, cookie, who, disk, call, faults>>

(* Without a session it reads again a few times (here once), then gives up.  *)
WizardRetries ==
    /\ tab.page = "wizard" /\ tab.due = "no" /\ tab.loaded /\ ~SignedIn
    /\ tab' = IF tab.tries = 0
              THEN [tab EXCEPT !.tries = 1, !.user = SessionOf(cookie), !.due = "commit"]
              ELSE [Closed EXCEPT !.page = "login"]
    /\ UNCHANGED <<acct, cookie, who, disk, call, faults>>

ShowsWizard == tab.page = "wizard" /\ Idle /\ tab.loaded /\ SignedIn

(* "Choose a different role": the steps, with the draft found on disk.      *)
ChooseRole ==
    /\ ShowsWizard /\ tab' = Mounted(tab, 3) /\ call' = NoCalls /\ ForgetGenerated
    /\ UNCHANGED <<cookie, who, disk, faults>>

(* The flag "saving" goes up when the learner, if there is one, is recorded. *)
WizardFinish ==
    /\ ShowsWizard /\ ~tab.saving
    /\ \E stage \in {"sent", "mark"} :
          /\ Send([AsUser("done") EXCEPT !.stage = stage])
          /\ tab' = [tab EXCEPT !.saving = stage = "mark"]
    /\ UNCHANGED <<acct, cookie, who, disk, faults>>

WizardSaving(c) ==
    /\ Answered(c, "done", "sent")
    /\ tab' = [tab EXCEPT !.saving = TRUE] /\ call' = [call EXCEPT ![c].stage = "mark"]
    /\ UNCHANGED <<acct, cookie, who, disk, faults>>

WizardDone(c) ==
    /\ Answered(c, "done", "ok")
    /\ tab' = [Closed EXCEPT !.page = "home"] /\ call' = NoCalls
    /\ UNCHANGED <<acct, cookie, who, disk, faults>>

(* "Could not save - please try again": the flag stays.                     *)
WizardFails(c) ==
    /\ Answered(c, "done", "failed") /\ Take(c)
    /\ UNCHANGED <<acct, cookie, who, disk, tab, faults>>

-----------------------------------------------------------------------------
(* The server.                                                              *)

Reply(c, stage) == [call[c] EXCEPT !.stage = stage, !.gen = FALSE, !.code = "none"]
Authorized(c) == call[c].to # NoOne /\ call[c].to = cookie

ServeRegister(c) ==
    LET p == call[c].to IN
    /\ call[c].op = "register" /\ call[c].stage = "sent"
    /\ IF acct[p].st = "none"
       THEN /\ acct' = [acct EXCEPT ![p].st = "pending", ![p].gen = call[c].gen]
            /\ call' = [call EXCEPT ![c] = Reply(c, "ok")]
       ELSE call' = [call EXCEPT ![c] = Reply(c, "exists")] /\ UNCHANGED acct
    /\ UNCHANGED <<cookie, who, disk, tab, faults>>

(* A new code; the ones before it are void.  To an address without account   *)
(* the answer is the same, an empty one is refused.                         *)
Aged(code) == IF code = "last" THEN "old" ELSE code

ServeMail(c) ==
    LET p == call[c].to IN
    /\ call[c].op \in {"again", "send", "recover", "reverify"} /\ call[c].stage = "sent"
    /\ CASE p = NoOne ->
              call' = [call EXCEPT ![c] = Reply(c, "failed")] /\ UNCHANGED <<acct, tab>>
         [] p # NoOne /\ acct[p].st = "none" ->
              call' = [call EXCEPT ![c] = Reply(c, "ok")] /\ UNCHANGED <<acct, tab>>
         [] OTHER ->
              /\ acct' = [acct EXCEPT ![p].code = TRUE]
              /\ tab' = IF tab.draft.typed = p THEN [tab EXCEPT !.code = Aged(@)] ELSE tab
              /\ call' = [s \in Slots |->
                    CASE s = c                    -> Reply(c, "ok")
                      [] s # c /\ call[s].to = p -> [call[s] EXCEPT !.code = Aged(@)]
                      [] OTHER                    -> call[s]]
    /\ UNCHANGED <<cookie, who, disk, faults>>

(* The code is used up, and proves the address.                             *)
ServeVerify(c) ==
    LET p == call[c].to IN
    /\ call[c].op = "verify" /\ call[c].stage = "sent"
    /\ IF acct[p].code /\ call[c].code = "last"
       THEN /\ acct' = [acct EXCEPT ![p].code = FALSE, ![p].st = "active"]
            /\ call' = [call EXCEPT ![c] = Reply(c, "ok")]
       ELSE call' = [call EXCEPT ![c] = Reply(c, "denied")] /\ UNCHANGED acct
    /\ UNCHANGED <<cookie, who, disk, tab, faults>>

ServeRole(c) ==
    /\ call[c].op = "role" /\ call[c].stage = "sent"
    /\ call' = [call EXCEPT ![c] = Reply(c, IF Authorized(c) THEN "ok" ELSE "denied")]
    /\ UNCHANGED <<acct, cookie, who, disk, tab, faults>>

(* The sessions are rotated: the browser has none until it has the answer.   *)
ServePassword(c) ==
    LET p == call[c].to IN
    /\ call[c].op = "password" /\ call[c].stage = "sent"
    /\ IF Authorized(c) /\ call[c].gen /\ acct[p].gen
       THEN /\ acct' = [acct EXCEPT ![p].gen = FALSE] /\ cookie' = NoOne
            /\ call' = [call EXCEPT ![c] = Reply(c, "ok")]
       ELSE /\ call' = [call EXCEPT ![c] = Reply(c, IF Authorized(c) THEN "failed" ELSE "denied")]
            /\ UNCHANGED <<acct, cookie>>
    /\ UNCHANGED <<who, disk, tab, faults>>

Ends(c, written) == Reply(c, IF written THEN "ok" ELSE "failed")

(* The requests of a finish.  An error of the first is swallowed.           *)
ServeFinish(c) ==
    /\ call[c].op \in {"finish", "done"}
    /\ \/ /\ call[c].stage = "profile" /\ UNCHANGED acct
          /\ call' = [call EXCEPT ![c] = [Reply(c, "mark") EXCEPT !.typed = NoOne]]
       \/ /\ call[c].stage = "mark"
          /\ acct' = IF Authorized(c) THEN [acct EXCEPT ![call[c].to].onboarded = TRUE] ELSE acct
          /\ call' = [call EXCEPT ![c] = Ends(c, Authorized(c))]
    /\ UNCHANGED <<cookie, who, disk, tab, faults>>

(* A request or its answer is lost, or the mail cannot be sent.             *)
Lost(c) ==
    /\ call[c].op # "none" /\ faults < MaxFaults
    /\ call[c].stage \notin {"failed", "denied", "profile"}
    /\ call[c].op = "done" => call[c].stage # "sent"
    /\ call' = [call EXCEPT ![c] = Reply(c, "failed")]
    /\ faults' = faults + 1
    /\ UNCHANGED <<acct, cookie, who, disk, tab>>

CodeExpires(p) ==
    /\ acct[p].code /\ faults < MaxFaults
    /\ acct' = [acct EXCEPT ![p].code = FALSE] /\ faults' = faults + 1
    /\ UNCHANGED <<cookie, who, disk, tab, call>>

-----------------------------------------------------------------------------
Serve(c) == \/ ServeRegister(c) \/ ServeMail(c) \/ ServeVerify(c)
            \/ ServeRole(c) \/ ServePassword(c) \/ ServeFinish(c)
Hear(c) == \/ Registered(c) \/ Exists(c) \/ Mailed(c) \/ Verified(c) \/ RoleSaved(c)
           \/ PasswordSet(c) \/ Unauthorized(c) \/ Failed(c) \/ Finished(c)
           \/ WizardSaving(c) \/ WizardDone(c) \/ WizardFails(c)
Page == RunEffects \/ Redirects \/ WizardEffects \/ WizardRetries
Browser == Open \/ OpenLogin \/ Reload \/ Close \/ NextPerson \/ Logout \/ SignIn
User == TypeIn \/ Continue \/ Resend \/ EnterCode \/ PressVerify \/ PickRole
        \/ SetPassword \/ Move \/ Finish \/ ChooseRole \/ WizardFinish

Next ==
    \/ Page \/ Browser \/ User \/ ReadSession \/ ReadFails \/ Expire
    \/ \E c \in Slots : Serve(c) \/ Hear(c) \/ Lost(c)
    \/ \E p \in People : CodeExpires(p)

Spec == Init /\ [][Next]_vars

-----------------------------------------------------------------------------
(* Once the session is known, what an account is given at the end does not  *)
(* come from a draft of another account ("discard a draft that belongs to a  *)
(* different account", page.tsx:1009), wherever the people before left off.  *)
OwnDraftOnly ==
    \A c \in Slots : /\ call[c].stage = "profile" /\ Authorized(c)
                      /\ tab.loaded /\ SignedIn /\ Idle
                        => tab.draft.owner \in {NoOne, call[c].to}

(* Whoever has verified on this page keeps the draft until leaving it,       *)
(* whatever the session cache reads in between.                             *)
ProvenKeepsDraft ==
    [][InFlow /\ tab.proven /\ tab'.page = "flow" => tab'.draft # EmptyDraft]_vars

(* "... so the next person on this browser starts from step 1 clean"         *)
(* (page.tsx:1010): people who finish in their own session do not give their *)
(* account the name that somebody else typed into this browser.             *)
(* It does not hold.                                                        *)
NameIsOwn ==
    \A c \in Slots :
        call[c].stage = "profile" /\ Authorized(c) /\ who = call[c].to
            => call[c].typed \in {NoOne, who}
=============================================================================
