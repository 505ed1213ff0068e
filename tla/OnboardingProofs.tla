--------------------------- MODULE OnboardingProofs ---------------------------
(***************************************************************************)
(* The sign-up, for any people, accounts, number of requests at once and   *)
(* number of lost answers: every state is well typed; whoever has verified *)
(* on the page keeps the draft until leaving it; and what an account is    *)
(* given at the end comes from its own draft.  The last one says in its    *)
(* hypothesis what it needs: that a code is verified only while no other   *)
(* request of the page is under way.                                       *)
(***************************************************************************)
EXTENDS Onboarding, TLAPS

USE OnboardingAssumption DEF Person

(* How far a request has come. *)
Stages == {"sent", "profile", "mark", "ok", "exists", "denied", "failed"}

-----------------------------------------------------------------------------
(* Types: the tab, a request, an account after each helper of the page.    *)
LEMMA StepRange == ASSUME OnboardingTypeOK PROVE Step \in Steps
  BY DEF OnboardingTypeOK, TabRecords, Step, Steps

LEMMA ClosedTyped == Closed \in TabRecords /\ EmptyDraft \in Drafts /\ NoUser \in Users
                     /\ FreeCall \in CallRecords /\ NoCalls \in [Slots -> CallRecords]
  BY DEF Closed, TabRecords, EmptyDraft, Drafts, NoUser, Users, FreeCall, CallRecords, NoCalls,
         Operations, Codes

LEMMA GoToTyped ==
    ASSUME NEW t \in TabRecords, NEW n \in 0..7
    PROVE  GoTo(t, n) \in TabRecords
  <1>1. PICK due \in {"no", "commit", "arrived"} : due = IF Step = n THEN t.due ELSE "arrived"
    BY DEF TabRecords
  <1>2. GoTo(t, n) = [t EXCEPT !.url = n, !.due = due]
    BY <1>1, Zenon DEF GoTo
  <1>3. [t EXCEPT !.url = n, !.due = due] \in TabRecords
    BY DEF TabRecords
  <1> QED
    BY <1>2, <1>3

LEMMA MountedTyped ==
    ASSUME OnboardingTypeOK, NEW t \in TabRecords, NEW u \in 0..7
    PROVE  Mounted(t, u) \in TabRecords
  BY ClosedTyped DEF OnboardingTypeOK, TabRecords, Mounted

LEMMA LeftTyped ==
    ASSUME OnboardingTypeOK, NEW page \in {"away", "flow", "wizard", "login", "home"}
    PROVE  Left(page) \in TabRecords
  BY ClosedTyped DEF OnboardingTypeOK, TabRecords, Left

LEMMA ForgetTyped == ASSUME OnboardingTypeOK, ForgetGenerated PROVE acct' \in [People -> Accounts]
  BY DEF OnboardingTypeOK, ForgetGenerated, Accounts

LEMMA SessionTyped ==
    ASSUME OnboardingTypeOK, NEW p \in Person
    PROVE  SessionOf(p) \in Users
  BY ClosedTyped DEF OnboardingTypeOK, SessionOf, Users, Accounts

LEMMA MailTyped ==
    ASSUME OnboardingTypeOK, NEW op \in Operations
    PROVE  Mail(op) \in CallRecords /\ AsUser(op) \in CallRecords
  BY DEF OnboardingTypeOK, Mail, AsUser, CallRecords, FreeCall, TabRecords, Drafts, Codes

LEMMA ReplyTyped ==
    ASSUME OnboardingTypeOK, NEW c \in Slots, NEW stage \in Stages
    PROVE  Reply(c, stage) \in CallRecords
  <1>1. call[c] \in CallRecords
    BY DEF OnboardingTypeOK
  <1> QED
    BY <1>1 DEF Reply, CallRecords, Codes, Stages

LEMMA SettledTyped == ASSUME OnboardingTypeOK PROVE Settled \in TabRecords
  BY DEF OnboardingTypeOK, TabRecords, Settled

LEMMA SendTyped ==
    ASSUME NEW calls \in [Slots -> CallRecords], NEW r \in CallRecords, SendAfter(calls, r)
    PROVE  call' \in [Slots -> CallRecords]
  BY DEF SendAfter, FreeSlots

LEMMA SlotTyped ==
    ASSUME OnboardingTypeOK, NEW c \in Slots, NEW r \in CallRecords,
           call' = [call EXCEPT ![c] = r]
    PROVE  call' \in [Slots -> CallRecords]
  BY DEF OnboardingTypeOK

LEMMA TakeTyped == ASSUME OnboardingTypeOK, NEW c \in Slots, Take(c)
                   PROVE  call' \in [Slots -> CallRecords]
  BY ClosedTyped, SlotTyped DEF Take

LEMMA LeaveTyped ==
    ASSUME OnboardingTypeOK, NEW page \in {"away", "flow", "wizard", "login", "home"},
           Leave(page)
    PROVE  tab' \in TabRecords /\ call' \in [Slots -> CallRecords] /\ acct' \in [People -> Accounts]
  BY LeftTyped, ClosedTyped, ForgetTyped DEF Leave

(* The browser's own steps. *)
LEMMA BrowserTyped ==
    ASSUME OnboardingTypeOK, Browser \/ ReadSession \/ ReadFails \/ Expire
    PROVE  OnboardingTypeOK'
<1> USE DEF OnboardingTypeOK
<1>0. Closed \in TabRecords /\ EmptyDraft \in Drafts /\ NoUser \in Users
      /\ NoCalls \in [Slots -> CallRecords]
  BY ClosedTyped
<1>1. CASE Open
  BY <1>0, <1>1, MountedTyped DEF Open
<1>2. CASE OpenLogin
  <2>1. [Closed EXCEPT !.page = "login"] \in TabRecords
    BY <1>0 DEF TabRecords
  <2> QED BY <1>2, <2>1 DEF OpenLogin
<1>3. CASE Reload
  <2>1. tab.url \in 0..7
    BY DEF TabRecords
  <2>2. Mounted(Closed, tab.url) \in TabRecords
    BY <1>0, <2>1, MountedTyped
  <2> QED BY <1>0, <1>3, <2>2, ForgetTyped DEF Reload
<1>4. CASE Close
  BY <1>0, <1>4, ForgetTyped DEF Close
<1>5. CASE NextPerson
  BY <1>5 DEF NextPerson
<1>6. CASE Logout
  BY <1>0, <1>6, ForgetTyped DEF Logout
<1>7. CASE SignIn
  <2>1. acct' \in [People -> Accounts]
    BY <1>7 DEF SignIn, Accounts
  <2>2. PICK u \in Users, page \in {"home", "wizard"} :
          tab' = [Closed EXCEPT !.user = u, !.page = page]
    <3>1. who \in People /\ acct[who].onboarded \in BOOLEAN
      BY DEF Accounts
    <3>2. [id |-> who, onboarded |-> acct[who].onboarded] \in Users
      BY <3>1 DEF Users
    <3> QED BY <1>7, <3>2 DEF SignIn
  <2>3. tab' \in TabRecords
    BY <1>0, <2>2 DEF TabRecords
  <2> QED BY <1>7, <2>1, <2>3 DEF SignIn
<1>8. CASE ReadSession
  <2>1. PICK u \in Users : tab' = [tab EXCEPT !.user = u, !.loaded = TRUE, !.due = "commit"]
    <3>1. SessionOf(cookie) \in Users /\ tab.user \in Users
      BY SessionTyped DEF TabRecords
    <3> QED BY <1>8, <3>1 DEF ReadSession
  <2>2. tab' \in TabRecords
    BY <2>1 DEF TabRecords
  <2> QED BY <1>8, <2>2 DEF ReadSession
<1>9. CASE ReadFails
  <2>1. tab' \in TabRecords
    BY <1>0, <1>9 DEF ReadFails, TabRecords
  <2> QED BY <1>9, <2>1 DEF ReadFails
<1>10. CASE Expire
  BY <1>10 DEF Expire
<1> QED BY <1>1, <1>2, <1>3, <1>4, <1>5, <1>6, <1>7, <1>8, <1>9, <1>10 DEF Browser

(* The effects of a commit, and of the wizard's. *)
LEMMA PageTyped ==
    ASSUME OnboardingTypeOK, Page
    PROVE  OnboardingTypeOK'
<1> USE DEF OnboardingTypeOK
<1>0. Closed \in TabRecords /\ EmptyDraft \in Drafts /\ NoUser \in Users
      /\ NoCalls \in [Slots -> CallRecords]
  BY ClosedTyped
<1>1. CASE RunEffects
  <2>1. call' \in [Slots -> CallRecords]
    <3>1. Mail("send") \in CallRecords /\ Mail("recover") \in CallRecords
      BY MailTyped DEF Operations
    <3> QED BY <1>1, <3>1, SendTyped DEF RunEffects, Send
  <2> DEFINE ran == [tab EXCEPT !.due = "no", !.submitting = @ \/ AutoSends]
             t == IF SkipsAccount THEN GoTo(ran, 3) ELSE ran
  <2>2. ran \in TabRecords
    <3>1. PICK b \in BOOLEAN : b = (tab.submitting \/ AutoSends)
      OBVIOUS
    <3>2. [tab EXCEPT !.due = "no", !.submitting = b] \in TabRecords
      BY DEF TabRecords
    <3> QED BY <3>1, <3>2
  <2>3. t \in TabRecords
    BY <2>2, GoToTyped
  <2> HIDE DEF t
  <2>4. tab' \in TabRecords /\ disk' \in Drafts
    <3>1. CASE StaleDraft
      <4>1. PICK due \in {"arrived", "commit"} :
              tab' = [[t EXCEPT !.proven = FALSE, !.code = "none", !.codeSent = FALSE,
                                !.due = due] EXCEPT !.draft = EmptyDraft]
        BY <1>1, <3>1 DEF RunEffects, SaveWith, t
      <4>2. [t EXCEPT !.proven = FALSE, !.code = "none", !.codeSent = FALSE, !.due = due]
              \in TabRecords
        BY <2>3 DEF TabRecords, Codes
      <4>3. tab' \in TabRecords
        BY <1>0, <4>1, <4>2 DEF TabRecords
      <4> QED BY <1>0, <1>1, <3>1, <4>3 DEF RunEffects, SaveWith
    <3>2. CASE ~StaleDraft
      BY <1>1, <2>3, <3>2 DEF RunEffects, t
    <3> QED BY <3>1, <3>2
  <2> QED BY <1>1, <2>1, <2>4 DEF RunEffects
<1>2. CASE Redirects
  BY <1>2, LeaveTyped DEF Redirects
<1>3. CASE WizardEffects
  <2>1. [Closed EXCEPT !.page = "home"] \in TabRecords /\ [tab EXCEPT !.due = "no"] \in TabRecords
    BY <1>0 DEF TabRecords
  <2> QED BY <1>3, <2>1 DEF WizardEffects
<1>4. CASE WizardRetries
  <2>1. SessionOf(cookie) \in Users
    BY SessionTyped
  <2>2. [Closed EXCEPT !.page = "login"] \in TabRecords
    BY <1>0 DEF TabRecords
  <2>3. [tab EXCEPT !.tries = 1, !.user = SessionOf(cookie), !.due = "commit"] \in TabRecords
    <3>1. ASSUME NEW u \in Users, NEW n \in 0..1
          PROVE  [tab EXCEPT !.tries = n, !.user = u, !.due = "commit"] \in TabRecords
      BY DEF TabRecords
    <3>2. 1 \in 0..1
      OBVIOUS
    <3> QED BY <2>1, <3>1, <3>2, Zenon
  <2> QED BY <1>4, <2>2, <2>3 DEF WizardRetries
<1> QED BY <1>1, <1>2, <1>3, <1>4 DEF Page

(* What people do in the steps. *)
LEMMA UserTyped ==
    ASSUME OnboardingTypeOK, User
    PROVE  OnboardingTypeOK'
<1> USE DEF OnboardingTypeOK
<1>0. \A op \in Operations : Mail(op) \in CallRecords /\ AsUser(op) \in CallRecords
  BY MailTyped
<1>1. CASE TypeIn
  <2>1. [tab.draft EXCEPT !.typed = who] \in Drafts
    BY DEF TabRecords, Drafts
  <2>2. \A d \in Drafts : [tab EXCEPT !.draft = d] \in TabRecords
    BY DEF TabRecords
  <2> QED BY <1>1, <2>1, <2>2 DEF TypeIn, SaveWith
<1>2. CASE Continue
  <2>1. CASE SignedIn /\ tab' = GoTo(tab, 3) /\ UNCHANGED <<acct, call>>
    BY <1>2, <2>1, GoToTyped DEF Continue
  <2>2. CASE /\ tab' = [tab EXCEPT !.submitting = TRUE] /\ ForgetGenerated
             /\ SendAfter([c \in Slots |-> [call[c] EXCEPT !.gen = FALSE]],
                          [Mail("register") EXCEPT !.gen = TRUE])
    <3>1. tab' \in TabRecords
      BY <2>2 DEF TabRecords
    <3>2. [Mail("register") EXCEPT !.gen = TRUE] \in CallRecords
      <4>1. Mail("register") \in CallRecords
        BY <1>0 DEF Operations
      <4> QED BY <4>1 DEF CallRecords
    <3>3. [c \in Slots |-> [call[c] EXCEPT !.gen = FALSE]] \in [Slots -> CallRecords]
      <4>1. ASSUME NEW c \in Slots PROVE [call[c] EXCEPT !.gen = FALSE] \in CallRecords
        <5>1. call[c] \in CallRecords
          OBVIOUS
        <5> QED BY <5>1 DEF CallRecords
      <4> QED BY <4>1
    <3>4. call' \in [Slots -> CallRecords]
      BY <2>2, <3>2, <3>3, SendTyped
    <3> QED BY <1>2, <2>2, <3>1, <3>4, ForgetTyped DEF Continue
  <2> QED BY <1>2, <2>1, <2>2 DEF Continue
<1>3. CASE Resend
  <2>1. tab' \in TabRecords
    BY <1>3 DEF Resend, TabRecords
  <2>2. Mail("send") \in CallRecords
    BY <1>0 DEF Operations
  <2> QED BY <1>3, <2>1, <2>2, SendTyped DEF Resend, Send
<1>4. ASSUME NEW code \in Codes, Verify(code)
      PROVE  tab' \in TabRecords /\ call' \in [Slots -> CallRecords]
  <2>1. tab' \in TabRecords
    BY <1>4 DEF Verify, TabRecords
  <2>2. [Mail("verify") EXCEPT !.code = code] \in CallRecords
    <3>1. Mail("verify") \in CallRecords
      BY <1>0 DEF Operations
    <3> QED BY <3>1 DEF CallRecords
  <2> QED BY <1>4, <2>1, <2>2, SendTyped DEF Verify, Send
<1>5. CASE EnterCode
  <2>1. PICK code \in Codes :
          IF tab.submitting \/ ~NotVerifying
          THEN tab' = [tab EXCEPT !.code = code] /\ UNCHANGED call ELSE Verify(code)
    BY <1>5 DEF EnterCode
  <2>2. [tab EXCEPT !.code = code] \in TabRecords
    BY DEF TabRecords
  <2> QED BY <1>4, <1>5, <2>1, <2>2 DEF EnterCode
<1>6. CASE PressVerify
  <2>1. tab.code \in Codes
    BY DEF TabRecords
  <2> QED BY <1>4, <1>6, <2>1 DEF PressVerify
<1>7. CASE PickRole
  <2>1. tab' \in TabRecords
    BY <1>7 DEF PickRole, TabRecords
  <2>2. AsUser("role") \in CallRecords
    BY <1>0 DEF Operations
  <2> QED BY <1>7, <2>1, <2>2, SendTyped DEF PickRole, Send
<1>8. CASE SetPassword
  <2>1. tab' \in TabRecords
    BY <1>8 DEF SetPassword, TabRecords
  <2>2. AsUser("password") \in CallRecords
    BY <1>0 DEF Operations
  <2>3. [AsUser("password") EXCEPT !.gen = TRUE] \in CallRecords
    BY <2>2 DEF CallRecords
  <2> QED BY <1>8, <2>1, <2>3, SendTyped DEF SetPassword, Send
<1>9. CASE Move
  <2>1. CASE /\ ContinuePath \/ ContinueAbout \/ Skip \/ Back
             /\ UNCHANGED <<acct, call>>
    <3>1. PICK n \in 0..7 : tab' = GoTo(tab, n)
      BY <2>1 DEF ContinuePath, ContinueAbout, Skip, Back, Skippable
    <3> QED BY <1>9, <2>1, <3>1, GoToTyped DEF Move
  <2>2. CASE Leave("home")
    BY <1>9, <2>2, LeaveTyped DEF Move
  <2> QED BY <1>9, <2>1, <2>2 DEF Move
<1>10. CASE Finish
  <2>1. tab.draft.typed \in Person
    BY DEF TabRecords, Drafts
  <2>2. AsUser("finish") \in CallRecords
    BY <1>0 DEF Operations
  <2>3. [AsUser("finish") EXCEPT !.typed = tab.draft.typed, !.stage = "profile"] \in CallRecords
    BY <2>1, <2>2 DEF CallRecords
  <2> QED BY <1>10, <2>3, SendTyped DEF Finish, Send
<1>11. CASE ChooseRole
  BY <1>11, MountedTyped, ClosedTyped, ForgetTyped DEF ChooseRole
<1>12. CASE WizardFinish
  <2>1. PICK stage \in {"sent", "mark"} :
          /\ Send([AsUser("done") EXCEPT !.stage = stage])
          /\ tab' = [tab EXCEPT !.saving = stage = "mark"]
    BY <1>12 DEF WizardFinish
  <2>2. AsUser("done") \in CallRecords
    BY <1>0 DEF Operations
  <2>3. [AsUser("done") EXCEPT !.stage = stage] \in CallRecords
    BY <2>2 DEF CallRecords
  <2>4. tab' \in TabRecords
    BY <2>1 DEF TabRecords
  <2> QED BY <1>12, <2>1, <2>3, <2>4, SendTyped DEF WizardFinish, Send
<1> QED BY <1>1, <1>2, <1>3, <1>5, <1>6, <1>7, <1>8, <1>9, <1>10, <1>11, <1>12 DEF User

(* What the page does with an answer. *)
LEMMA HearTyped ==
    ASSUME OnboardingTypeOK, NEW c \in Slots, Hear(c)
    PROVE  OnboardingTypeOK'
<1> USE DEF OnboardingTypeOK
<1>0. /\ Settled \in TabRecords /\ Closed \in TabRecords /\ EmptyDraft \in Drafts
      /\ call[c].to \in Person /\ tab.draft \in Drafts
      /\ NoCalls \in [Slots -> CallRecords]
  <2>1. call[c] \in CallRecords
    OBVIOUS
  <2>2. call[c].to \in Person /\ tab.draft \in Drafts
    BY <2>1 DEF CallRecords, TabRecords
  <2> QED BY <2>2, SettledTyped, ClosedTyped
<1>1. \A n \in 0..7 : GoTo(Settled, n) \in TabRecords
  BY <1>0, GoToTyped
<1>2. \A t \in TabRecords, d \in Drafts : [t EXCEPT !.draft = d] \in TabRecords
  BY DEF TabRecords
<1>3. CASE Registered(c)
  <2> DEFINE t == GoTo(Settled, 2)
  <2>1. t \in TabRecords
    BY <1>1
  <2> HIDE DEF t
  <2>2. PICK due \in {"no", "commit", "arrived"} :
          tab' = [[t EXCEPT !.due = due] EXCEPT
                    !.draft = [tab.draft EXCEPT !.owner = call[c].to, !.verified = FALSE]]
    <3>1. t.due \in {"no", "commit", "arrived"}
      BY <2>1 DEF TabRecords
    <3> QED BY <1>3, <3>1 DEF Registered, SaveWith, t
  <2>3. [tab.draft EXCEPT !.owner = call[c].to, !.verified = FALSE] \in Drafts
    BY <1>0 DEF Drafts
  <2>4. [t EXCEPT !.due = due] \in TabRecords
    BY <2>1 DEF TabRecords
  <2>5. tab' \in TabRecords
    BY <1>2, <2>2, <2>3, <2>4
  <2>6. disk' \in Drafts
    BY <1>3, <2>3 DEF Registered, SaveWith
  <2> QED BY <1>3, <2>5, <2>6, TakeTyped DEF Registered
<1>4. CASE Exists(c)
  <2>1. Mail("again") \in CallRecords
    BY MailTyped DEF Operations
  <2> QED BY <1>0, <1>4, <2>1, SlotTyped DEF Exists, Then
<1>5. CASE Mailed(c)
  <2>1. CASE tab' = GoTo(Settled, 2)
    BY <1>1, <1>5, <2>1, TakeTyped DEF Mailed
  <2>2. CASE tab' = [Settled EXCEPT !.codeSent = TRUE]
    <3>1. tab' \in TabRecords
      BY <1>0, <2>2 DEF TabRecords
    <3> QED BY <1>5, <3>1, TakeTyped DEF Mailed
  <2>3. CASE tab' = GoTo([tab EXCEPT !.code = "none", !.codeSent = TRUE,
                                     !.submitting = @ /\ call[c].op = "recover"], 2)
    <3>1. PICK b \in BOOLEAN : b = (tab.submitting /\ call[c].op = "recover")
      OBVIOUS
    <3>2. [tab EXCEPT !.code = "none", !.codeSent = TRUE, !.submitting = b] \in TabRecords
      BY DEF TabRecords, Codes
    <3>3. tab' \in TabRecords
      BY <2>3, <3>1, <3>2, GoToTyped
    <3> QED BY <1>5, <3>3, TakeTyped DEF Mailed
  <2> QED BY <1>5, <2>1, <2>2, <2>3 DEF Mailed
<1>6. CASE Verified(c)
  <2> DEFINE t == GoTo(Settled, 3)
  <2>1. t \in TabRecords /\ SessionOf(call[c].to) \in Users
    BY <1>0, <1>1, SessionTyped
  <2> HIDE DEF t
  <2>2. PICK u \in Users, loaded \in BOOLEAN :
          tab' = [[t EXCEPT !.user = u, !.loaded = loaded, !.due = "arrived", !.proven = TRUE]
                    EXCEPT !.draft = [tab.draft EXCEPT !.owner = call[c].to, !.verified = TRUE]]
    <3>1. PICK loaded \in BOOLEAN : loaded = SignedIn
      BY DEF SignedIn
    <3> QED BY <1>6, <2>1, <3>1 DEF Verified, SaveWith, t
  <2>3. [tab.draft EXCEPT !.owner = call[c].to, !.verified = TRUE] \in Drafts
    BY <1>0 DEF Drafts
  <2>4. [t EXCEPT !.user = u, !.loaded = loaded, !.due = "arrived", !.proven = TRUE] \in TabRecords
    BY <2>1 DEF TabRecords
  <2>5. tab' \in TabRecords
    BY <1>2, <2>2, <2>3, <2>4
  <2>6. disk' \in Drafts
    BY <1>6, <2>3 DEF Verified, SaveWith
  <2> QED BY <1>0, <1>6, <2>5, <2>6, TakeTyped DEF Verified
<1>7. CASE RoleSaved(c)
  <2>1. [tab.draft EXCEPT !.role = TRUE] \in Drafts
    BY <1>0 DEF Drafts
  <2>2. GoTo(Settled, 4) \in TabRecords
    BY <1>1
  <2>3. tab' \in TabRecords /\ disk' \in Drafts
    BY <1>2, <1>7, <2>1, <2>2 DEF RoleSaved, SaveWith
  <2> QED BY <1>7, <2>3, TakeTyped DEF RoleSaved
<1>8. CASE PasswordSet(c)
  BY <1>0, <1>1, <1>8, TakeTyped DEF PasswordSet
<1>9. CASE Unauthorized(c)
  <2>1. Mail("reverify") \in CallRecords
    BY MailTyped DEF Operations
  <2> QED BY <1>9, <2>1, SlotTyped DEF Unauthorized, Then
<1>10. CASE Failed(c)
  <2>1. CASE tab' = Settled /\ Take(c) /\ UNCHANGED acct
    BY <1>0, <1>10, <2>1, TakeTyped DEF Failed
  <2>2. CASE Leave("login")
    BY <1>10, <2>2, LeaveTyped DEF Failed
  <2> QED BY <1>10, <2>1, <2>2 DEF Failed
<1>11. CASE Finished(c)
  BY <1>0, <1>11, LeaveTyped DEF Finished
<1>12. CASE WizardSaving(c)
  <2>1. tab' \in TabRecords
    BY <1>12 DEF WizardSaving, TabRecords
  <2>2. [call[c] EXCEPT !.stage = "mark"] \in CallRecords
    <3>1. call[c] \in CallRecords
      OBVIOUS
    <3> QED BY <3>1 DEF CallRecords
  <2>3. call' = [call EXCEPT ![c] = [call[c] EXCEPT !.stage = "mark"]]
    BY <1>12 DEF WizardSaving
  <2> QED BY <1>12, <2>1, <2>2, <2>3, SlotTyped DEF WizardSaving
<1>13. CASE WizardDone(c)
  <2>1. [Closed EXCEPT !.page = "home"] \in TabRecords
    BY <1>0 DEF TabRecords
  <2> QED BY <1>0, <1>13, <2>1 DEF WizardDone
<1>14. CASE WizardFails(c)
  BY <1>14, TakeTyped DEF WizardFails
<1> QED BY <1>3, <1>4, <1>5, <1>6, <1>7, <1>8, <1>9, <1>10, <1>11, <1>12, <1>13, <1>14 DEF Hear

(* The server. *)
LEMMA AccountTyped ==
    ASSUME OnboardingTypeOK, NEW p, NEW b \in BOOLEAN,
           NEW st \in {"none", "pending", "active"},
           \/ acct' = acct
           \/ acct' = [acct EXCEPT ![p].code = b]
           \/ acct' = [acct EXCEPT ![p].gen = b]
           \/ acct' = [acct EXCEPT ![p].onboarded = b]
           \/ acct' = [acct EXCEPT ![p].st = st]
           \/ acct' = [acct EXCEPT ![p].st = st, ![p].gen = b]
           \/ acct' = [acct EXCEPT ![p].code = b, ![p].st = st]
    PROVE  acct' \in [People -> Accounts]
<1>1. ASSUME NEW q \in People PROVE acct'[q] \in Accounts
  <2>1. acct[q] \in Accounts
    BY DEF OnboardingTypeOK
  <2>2. \/ acct'[q] = acct[q]
        \/ acct'[q] = [acct[q] EXCEPT !.code = b]
        \/ acct'[q] = [acct[q] EXCEPT !.gen = b]
        \/ acct'[q] = [acct[q] EXCEPT !.onboarded = b]
        \/ acct'[q] = [acct[q] EXCEPT !.st = st]
        \/ acct'[q] = [acct[q] EXCEPT !.st = st, !.gen = b]
        \/ acct'[q] = [acct[q] EXCEPT !.code = b, !.st = st]
    BY DEF OnboardingTypeOK
  <2> QED BY <2>1, <2>2 DEF Accounts
<1>2. acct' = [q \in People |-> acct'[q]]
  BY DEF OnboardingTypeOK
<1> QED BY <1>1, <1>2

LEMMA ServeTyped ==
    ASSUME OnboardingTypeOK, NEW c \in Slots, Serve(c) \/ Lost(c)
    PROVE  OnboardingTypeOK'
<1> USE DEF OnboardingTypeOK
<1>1. \A stage \in Stages : /\ Reply(c, stage) \in CallRecords
                            /\ [call EXCEPT ![c] = Reply(c, stage)] \in [Slots -> CallRecords]
  BY ReplyTyped
<1>2. CASE ServeRegister(c)
  <2>1. call' \in [Slots -> CallRecords]
    BY <1>1, <1>2 DEF ServeRegister, Stages
  <2>2. acct' \in [People -> Accounts]
    <3>1. ASSUME NEW p \in People PROVE acct'[p] \in Accounts
      <4>1. acct[p] \in Accounts /\ call[c] \in CallRecords
        OBVIOUS
      <4>2. acct'[p] = acct[p] \/ acct'[p] = [acct[p] EXCEPT !.st = "pending", !.gen = call[c].gen]
        BY <1>2, <4>1 DEF ServeRegister
      <4> QED BY <4>1, <4>2 DEF Accounts, CallRecords
    <3>2. DOMAIN acct' = People /\ acct' = [p \in People |-> acct'[p]]
      BY <1>2 DEF ServeRegister
    <3> QED BY <3>1, <3>2
  <2> QED BY <1>2, <2>1, <2>2 DEF ServeRegister
<1>3. CASE ServeMail(c)
  <2> DEFINE p == call[c].to
  <2>1. \A code \in Codes : Aged(code) \in Codes
    BY DEF Aged, Codes
  <2>2. CASE call' = [call EXCEPT ![c] = Reply(c, "failed")] /\ UNCHANGED <<acct, tab>>
    BY <1>1, <1>3, <2>2 DEF ServeMail, Stages
  <2>3. CASE call' = [call EXCEPT ![c] = Reply(c, "ok")] /\ UNCHANGED <<acct, tab>>
    BY <1>1, <1>3, <2>3 DEF ServeMail, Stages
  <2>4. CASE /\ acct' = [acct EXCEPT ![p].code = TRUE]
             /\ tab' = IF tab.draft.typed = p THEN [tab EXCEPT !.code = Aged(@)] ELSE tab
             /\ call' = [s \in Slots |->
                   CASE s = c                    -> Reply(c, "ok")
                     [] s # c /\ call[s].to = p -> [call[s] EXCEPT !.code = Aged(@)]
                     [] OTHER                    -> call[s]]
    <3>1. acct' \in [People -> Accounts]
      BY <2>4, AccountTyped
    <3>2. tab' \in TabRecords
      <4>1. Aged(tab.code) \in Codes
        BY <2>1 DEF TabRecords
      <4>2. \A code \in Codes : [tab EXCEPT !.code = code] \in TabRecords
        BY DEF TabRecords
      <4> QED BY <2>4, <4>1, <4>2
    <3>3. ASSUME NEW s \in Slots PROVE call'[s] \in CallRecords
      <4>1. call[s] \in CallRecords
        OBVIOUS
      <4>2. Aged(call[s].code) \in Codes
        BY <2>1, <4>1 DEF CallRecords
      <4>3. \A code \in Codes : [call[s] EXCEPT !.code = code] \in CallRecords
        BY <4>1 DEF CallRecords
      <4>4. Reply(c, "ok") \in CallRecords
        BY <1>1 DEF Stages
      <4>5. CASE s = c
        BY <2>4, <4>4, <4>5
      <4>6. CASE s # c /\ call[s].to = p
        BY <2>4, <4>2, <4>3, <4>6
      <4>7. CASE s # c /\ call[s].to # p
        BY <2>4, <4>1, <4>7
      <4> QED BY <4>5, <4>6, <4>7
    <3>4. call' \in [Slots -> CallRecords]
      BY <2>4, <3>3
    <3> QED BY <1>3, <3>1, <3>2, <3>4 DEF ServeMail
  <2> QED BY <1>3, <2>2, <2>3, <2>4 DEF ServeMail
<1>4. CASE ServeVerify(c)
  <2>1. call' \in [Slots -> CallRecords]
    BY <1>1, <1>4 DEF ServeVerify, Stages
  <2>2. acct' \in [People -> Accounts]
    BY <1>4, AccountTyped DEF ServeVerify
  <2> QED BY <1>4, <2>1, <2>2 DEF ServeVerify
<1>5. CASE ServeRole(c)
  BY <1>1, <1>5 DEF ServeRole, Stages
<1>6. CASE ServePassword(c)
  <2>1. call' \in [Slots -> CallRecords]
    BY <1>1, <1>6 DEF ServePassword, Stages
  <2>2. acct' \in [People -> Accounts]
    BY <1>6, AccountTyped DEF ServePassword
  <2> QED BY <1>6, <2>1, <2>2 DEF ServePassword
<1>7. CASE ServeFinish(c)
  <2>1. call' \in [Slots -> CallRecords]
    <3>1. Reply(c, "mark") \in CallRecords
      BY <1>1 DEF Stages
    <3>2. [Reply(c, "mark") EXCEPT !.typed = NoOne] \in CallRecords
      BY <3>1 DEF CallRecords
    <3> QED BY <1>1, <1>7, <3>2 DEF ServeFinish, Ends, Stages
  <2>2. acct' \in [People -> Accounts]
    BY <1>7, AccountTyped DEF ServeFinish
  <2> QED BY <1>7, <2>1, <2>2 DEF ServeFinish
<1>8. CASE Lost(c)
  BY <1>1, <1>8 DEF Lost, Stages
<1> QED BY <1>2, <1>3, <1>4, <1>5, <1>6, <1>7, <1>8 DEF Serve

(* Every variable keeps to its type, for any people, slots and overlaps. *)
THEOREM OnboardingTyped == Spec => []OnboardingTypeOK
<1>1. Init => OnboardingTypeOK
  <2> SUFFICES ASSUME Init PROVE OnboardingTypeOK
    OBVIOUS
  <2>1. NoAccount \in Accounts
    BY DEF NoAccount, Accounts
  <2>2. ASSUME NEW p \in People
        PROVE  [NoAccount EXCEPT !.st = IF p \in Known THEN "active" ELSE @] \in Accounts
    BY <2>1 DEF Accounts
  <2>3. acct \in [People -> Accounts]
    BY <2>2 DEF Init
  <2> QED BY <2>3, ClosedTyped DEF Init, OnboardingTypeOK, NoCalls
<1>2. OnboardingTypeOK /\ [Next]_vars => OnboardingTypeOK'
  <2> SUFFICES ASSUME OnboardingTypeOK, [Next]_vars PROVE OnboardingTypeOK'
    OBVIOUS
  <2>1. CASE UNCHANGED vars
    BY <2>1 DEF vars, OnboardingTypeOK
  <2>2. ASSUME NEW p \in People, CodeExpires(p) PROVE OnboardingTypeOK'
    <3>1. acct' \in [People -> Accounts]
      BY <2>2, AccountTyped DEF CodeExpires
    <3> QED BY <2>2, <3>1 DEF CodeExpires, OnboardingTypeOK
  <2> QED BY <2>1, <2>2, PageTyped, BrowserTyped, UserTyped, HearTyped, ServeTyped DEF Next
<1> QED BY <1>1, <1>2, PTL DEF Spec

-----------------------------------------------------------------------------
(* The draft.  Every request but the wizard's last is the steps' own, and    *)
(* there is none of those where they are not shown.                          *)
CallsOfPage ==
    \A c \in Slots : /\ call[c].op \notin {"none", "done"} => InFlow
                     /\ call[c].op = "done" => tab.page \notin {"flow", "away"}

(* What is registered is an address, and a code is its owner's.              *)
Addressed ==
    \A c \in Slots : /\ call[c].op = "register" => call[c].to # NoOne
                     /\ call[c].op = "verify" => call[c].to = who
OwnCode == tab.code # "none" => InFlow /\ tab.draft.typed = who

(* Whoever has verified on this page has a draft of their own, also on disk. *)
ProvenDraft == tab.proven => InFlow /\ disk = tab.draft /\ tab.draft.owner # NoOne

(* A profile is written by a finish alone.                                  *)
ProfileOfFinish == \A c \in Slots : call[c].stage = "profile" => call[c].op = "finish"

DraftInv == CallsOfPage /\ Addressed /\ OwnCode /\ ProvenDraft /\ ProfileOfFinish

(* A page just shown, or none of the steps.                                 *)
Clean ==
    /\ tab.code = "none" /\ ~tab.proven /\ (InFlow => ~Idle)
    /\ \A c \in Slots : /\ call[c].op \in {"none", "done"} /\ call[c].stage # "profile"
                        /\ call[c].op = "done" => tab.page \notin {"flow", "away"}

(* The steps are left, or were not shown.                                   *)
Parts ==
    /\ Clean' /\ ~(InFlow /\ InFlow') /\ UNCHANGED <<cookie, who>>
    /\ tab'.user \in {tab.user, NoUser}
    /\ ForgetGenerated \/ (UNCHANGED acct /\ ~InFlow /\ ~InFlow')

LEMMA CleanDraft == ASSUME Clean' PROVE DraftInv'
  BY DEF Clean, DraftInv, CallsOfPage, Addressed, OwnCode, ProvenDraft, ProfileOfFinish, InFlow

LEMMA GoToKeeps ==
    ASSUME NEW t \in TabRecords, NEW n \in 0..7
    PROVE  /\ GoTo(t, n).page = t.page /\ GoTo(t, n).user = t.user
           /\ GoTo(t, n).loaded = t.loaded /\ GoTo(t, n).draft = t.draft
           /\ GoTo(t, n).code = t.code /\ GoTo(t, n).proven = t.proven
           /\ GoTo(t, n).due \in {t.due, "arrived"}
  BY DEF TabRecords, GoTo

LEMMA SettledKeeps ==
    ASSUME OnboardingTypeOK
    PROVE  /\ Settled.page = tab.page /\ Settled.user = tab.user
           /\ Settled.loaded = tab.loaded /\ Settled.draft = tab.draft
           /\ Settled.code = tab.code /\ Settled.proven = tab.proven
           /\ Settled.due = tab.due
  BY DEF OnboardingTypeOK, TabRecords, Settled

LEMMA NoCallsFree == \A s \in Slots : NoCalls[s].op = "none" /\ NoCalls[s].stage = "sent"
  BY DEF NoCalls, FreeCall

LEMMA LeaveClean ==
    ASSUME NEW page \in {"wizard", "login", "home"}, Leave(page)
    PROVE  Clean' /\ tab'.page = page /\ tab'.user = tab.user /\ call' = NoCalls
  BY NoCallsFree DEF Leave, Left, Closed, Clean, InFlow

LEMMA MountedClean ==
    ASSUME NEW t, NEW u, tab' = Mounted(t, u), 
           \A s \in Slots : call'[s].op = "none" /\ call'[s].stage # "profile"
    PROVE  Clean' /\ tab'.page = "flow" /\ tab'.user = t.user
  BY DEF Mounted, Closed, Clean, InFlow, Idle

LEMMA SendCalls ==
    ASSUME NEW calls \in [Slots -> CallRecords], NEW r, SendAfter(calls, r)
    PROVE  /\ \A s \in Slots : call'[s] \in {calls[s], r}
           /\ CanBegin(r.op)
  BY DEF SendAfter

LEMMA TakeCalls ==
    ASSUME OnboardingTypeOK, NEW c \in Slots, Take(c)
    PROVE  \A s \in Slots : call'[s] \in {call[s], FreeCall}
  BY DEF Take, OnboardingTypeOK

LEMMA ThenCalls ==
    ASSUME OnboardingTypeOK, NEW c \in Slots, NEW op, Then(c, op)
    PROVE  \A s \in Slots : call'[s] \in {call[s], Mail(op)}
  BY DEF Then, OnboardingTypeOK

LEMMA MailFields ==
    ASSUME NEW op
    PROVE  /\ Mail(op).op = op /\ Mail(op).to = tab.draft.typed /\ Mail(op).stage = "sent"
           /\ AsUser(op).op = op /\ AsUser(op).to = cookie /\ AsUser(op).stage = "sent"
  BY DEF Mail, AsUser, FreeCall

(* Whoever uses the browser outside the steps leaves them clean.             *)
LEMMA OutsideDraft ==
    ASSUME OnboardingTypeOK, DraftInv, Browser \/ WizardEffects \/ WizardRetries \/ Redirects
    PROVE  Clean'
<1> USE DEF DraftInv, CallsOfPage, OwnCode, ProvenDraft, ProfileOfFinish, InFlow
<1>1. CASE Open
  BY <1>1, MountedClean DEF Open
<1>2. CASE OpenLogin
  BY <1>2 DEF OpenLogin, Closed, Clean
<1>3. CASE Reload
  BY <1>3, MountedClean, NoCallsFree DEF Reload
<1>4. CASE Close
  BY <1>4, NoCallsFree DEF Close, Closed, Clean
<1>5. CASE NextPerson
  BY <1>5 DEF NextPerson, Clean
<1>6. CASE Logout
  BY <1>6, NoCallsFree DEF Logout, Closed, Clean
<1>7. CASE SignIn
  BY <1>7 DEF SignIn, Closed, Clean
<1>8. CASE WizardEffects
  <2>1. \A t \in TabRecords : LET u == [t EXCEPT !.due = "no"] IN
          u.page = t.page /\ u.code = t.code /\ u.proven = t.proven
    BY DEF TabRecords
  <2>2. CASE tab' = [tab EXCEPT !.due = "no"]
    BY <1>8, <2>1, <2>2 DEF WizardEffects, OnboardingTypeOK, Clean
  <2>3. CASE tab' = [Closed EXCEPT !.page = "home"]
    BY <1>8, <2>3 DEF WizardEffects, Closed, Clean
  <2> QED BY <1>8, <2>2, <2>3 DEF WizardEffects
<1>9. CASE WizardRetries
  <2>1. ASSUME NEW t \in TabRecords, NEW u, NEW n
        PROVE LET v == [t EXCEPT !.tries = n, !.user = u, !.due = "commit"] IN
              v.page = t.page /\ v.code = t.code /\ v.proven = t.proven
    BY DEF TabRecords
  <2>2. CASE tab' = [tab EXCEPT !.tries = 1, !.user = SessionOf(cookie), !.due = "commit"]
    <3>1. tab'.page = tab.page /\ tab'.code = tab.code /\ tab'.proven = tab.proven
      BY <2>1, <2>2 DEF OnboardingTypeOK
    <3> QED BY <1>9, <3>1 DEF WizardRetries, Clean
  <2>3. CASE tab' = [Closed EXCEPT !.page = "login"]
    BY <1>9, <2>3 DEF WizardRetries, Closed, Clean
  <2> QED BY <1>9, <2>2, <2>3 DEF WizardRetries
<1>10. CASE Redirects
  BY <1>10, LeaveClean DEF Redirects
<1> QED BY <1>1, <1>2, <1>3, <1>4, <1>5, <1>6, <1>7, <1>8, <1>9, <1>10 DEF Browser

LEMMA SessionKeeps ==
    ASSUME OnboardingTypeOK, ReadSession \/ ReadFails \/ Expire
    PROVE  /\ UNCHANGED <<acct, who, disk, call>>
           /\ tab'.page = tab.page /\ tab'.code = tab.code /\ tab'.proven = tab.proven
           /\ tab'.draft = tab.draft
           /\ \/ cookie' = NoOne /\ tab' = tab
              \/ /\ cookie' = cookie /\ tab'.due = "commit"
                 /\ tab'.user \in {tab.user, SessionOf(cookie), NoUser}
<1>1. ASSUME NEW u, NEW l, tab' = [tab EXCEPT !.user = u, !.loaded = l, !.due = "commit"]
      PROVE  tab'.page = tab.page /\ tab'.code = tab.code /\ tab'.proven = tab.proven
             /\ tab'.draft = tab.draft /\ tab'.due = "commit" /\ tab'.user = u
  BY <1>1 DEF OnboardingTypeOK, TabRecords
<1>2. CASE ReadSession
  <2>1. PICK u \in {tab.user, SessionOf(cookie)} :
          tab' = [tab EXCEPT !.user = u, !.loaded = TRUE, !.due = "commit"]
    BY <1>2 DEF ReadSession
  <2> QED BY <1>1, <1>2, <2>1 DEF ReadSession
<1>3. CASE ReadFails
  BY <1>1, <1>3 DEF ReadFails
<1>4. CASE Expire
  BY <1>4 DEF Expire
<1> QED BY <1>2, <1>3, <1>4

(* The session read again, or gone.                                         *)
LEMMA SessionDraft ==
    ASSUME OnboardingTypeOK, DraftInv, ReadSession \/ ReadFails \/ Expire
    PROVE  DraftInv'
  BY SessionKeeps DEF DraftInv, CallsOfPage, Addressed, OwnCode, ProvenDraft, ProfileOfFinish, InFlow

(* The effects of a commit drop no proven draft.                             *)
LEMMA EffectsDraft ==
    ASSUME OnboardingTypeOK, DraftInv, RunEffects
    PROVE  /\ tab'.page = tab.page /\ tab'.user = tab.user /\ tab'.loaded = tab.loaded
           /\ \/ /\ StaleDraft /\ tab'.draft = EmptyDraft /\ disk' = EmptyDraft
                 /\ ~tab'.proven /\ tab'.code = "none" /\ tab'.due # "no"
              \/ /\ ~StaleDraft /\ tab'.draft = tab.draft /\ disk' = disk
                 /\ tab'.proven = tab.proven /\ tab'.code = tab.code
           /\ \A s \in Slots : call'[s] \in {call[s], Mail("send"), Mail("recover")}
<1> DEFINE ran == [tab EXCEPT !.due = "no", !.submitting = @ \/ AutoSends]
           t == IF SkipsAccount THEN GoTo(ran, 3) ELSE ran
<1>1. ran \in TabRecords /\ ran.page = tab.page /\ ran.user = tab.user /\ ran.loaded = tab.loaded
      /\ ran.draft = tab.draft /\ ran.code = tab.code /\ ran.proven = tab.proven
  <2>1. PICK b \in BOOLEAN : b = (tab.submitting \/ AutoSends)
    OBVIOUS
  <2>2. ran = [tab EXCEPT !.due = "no", !.submitting = b]
    BY <2>1
  <2> QED BY <2>2 DEF OnboardingTypeOK, TabRecords
<1>2. t \in TabRecords /\ t.page = tab.page /\ t.user = tab.user /\ t.loaded = tab.loaded
      /\ t.draft = tab.draft /\ t.code = tab.code /\ t.proven = tab.proven
  <2> HIDE DEF ran
  <2>1. 3 \in 0..7
    OBVIOUS
  <2>2. CASE SkipsAccount
    <3>1. GoTo(ran, 3) \in TabRecords
      BY <1>1, <2>1, GoToTyped
    <3> QED BY <1>1, <2>1, <2>2, <3>1, GoToKeeps
  <2>3. CASE ~SkipsAccount
    BY <1>1, <2>3
  <2> QED BY <2>2, <2>3
<1>3. \A s \in Slots : call'[s] \in {call[s], Mail("send"), Mail("recover")}
  BY SendCalls DEF RunEffects, Send, OnboardingTypeOK
<1> HIDE DEF t
<1>4. CASE StaleDraft
  <2>1. PICK due \in {"arrived", "commit"} :
          /\ tab' = [[t EXCEPT !.proven = FALSE, !.code = "none", !.codeSent = FALSE,
                               !.due = due] EXCEPT !.draft = EmptyDraft]
          /\ disk' = EmptyDraft
    BY <1>4 DEF RunEffects, SaveWith, t
  <2> QED BY <1>2, <1>3, <1>4, <2>1 DEF TabRecords
<1>5. CASE ~StaleDraft
  BY <1>2, <1>3, <1>5 DEF RunEffects, t
<1> QED BY <1>4, <1>5

-----------------------------------------------------------------------------
(* What the steps of a person filling in the page, and most answers, have in *)
(* common: a request stands, or is new; page, session and owner stay.        *)
SameCall(s) == /\ call'[s].op = call[s].op /\ call'[s].to = call[s].to
               /\ call'[s].stage = call[s].stage
NewCall(s) ==
    \/ /\ call'[s].op = "register" /\ call'[s].stage = "sent"
       /\ call'[s].to = tab.draft.typed /\ tab.draft.typed # NoOne
    \/ /\ call'[s].op = "verify" /\ call'[s].stage = "sent" /\ CanBegin("verify")
       /\ call'[s].to = who /\ tab.draft.typed = who
    \/ /\ call'[s].op \in {"none", "send", "again", "reverify", "role", "password"}
       /\ call'[s].stage = "sent"
    \/ call'[s].op = "finish" /\ call'[s].stage = "profile"

Steady ==
    /\ InFlow /\ Idle /\ who' = who
    /\ tab'.page = tab.page /\ tab'.user = tab.user /\ tab'.loaded = tab.loaded
    /\ tab'.proven = tab.proven /\ tab'.due \in {"no", "arrived"}
    /\ tab'.draft.owner = tab.draft.owner
    /\ \/ disk' = tab'.draft
       \/ disk' = disk /\ tab'.draft = tab.draft
    /\ \/ tab'.draft.typed = who
       \/ tab'.draft.typed = tab.draft.typed /\ tab'.code \in {tab.code, "none"}
    /\ \A s \in Slots : SameCall(s) \/ NewCall(s)
    /\ \A p \in People : acct'[p].st = acct[p].st /\ (acct'[p].gen => acct[p].gen)

LEMMA SteadyDraft == ASSUME DraftInv, Steady PROVE DraftInv'
<1> USE DEF DraftInv, InFlow
<1>1. CallsOfPage' /\ Addressed' /\ ProfileOfFinish'
  BY DEF Steady, SameCall, NewCall, CallsOfPage, Addressed, ProfileOfFinish
<1>2. OwnCode' /\ ProvenDraft'
  BY DEF Steady, OwnCode, ProvenDraft
<1> QED BY <1>1, <1>2

LEMMA TabKeeps ==
    ASSUME NEW t \in TabRecords, NEW b, NEW code
    PROVE  LET same(u) == /\ u.page = t.page /\ u.user = t.user /\ u.loaded = t.loaded
                          /\ u.proven = t.proven /\ u.draft = t.draft /\ u.due = t.due IN
           /\ LET u == [t EXCEPT !.submitting = b] IN same(u) /\ u.code = t.code
           /\ LET u == [t EXCEPT !.codeSent = b] IN same(u) /\ u.code = t.code
           /\ LET u == [t EXCEPT !.code = code] IN same(u) /\ u.code = code
           /\ LET u == [t EXCEPT !.code = code, !.submitting = b] IN same(u) /\ u.code = code
  BY DEF TabRecords

LEMMA ForgetKeeps ==
    ASSUME OnboardingTypeOK, ForgetGenerated \/ UNCHANGED acct
    PROVE  \A p \in People : acct'[p].st = acct[p].st /\ (acct'[p].gen => acct[p].gen)
  BY DEF OnboardingTypeOK, ForgetGenerated, Accounts

LEMMA UserSteady ==
    ASSUME OnboardingTypeOK, DraftInv, User
    PROVE  UNCHANGED <<cookie, who>> /\ (Steady \/ Parts)
<1> USE DEF OnboardingTypeOK, InForm
<1>0. /\ tab \in TabRecords /\ tab.draft \in Drafts /\ tab.due \in {"no", "commit", "arrived"}
      /\ \A s \in Slots : call[s] \in CallRecords
  BY DEF TabRecords
<1>1. \A n \in 0..7 : GoTo(tab, n).due \in {tab.due, "arrived"}
  BY GoToKeeps
<1>2. \A s \in Slots : call'[s] = call[s] => SameCall(s)
  BY DEF SameCall
<1>3. ASSUME NEW r, Send(r)
      PROVE  (\A s \in Slots : SameCall(s) \/ call'[s] = r) /\ CanBegin(r.op)
  BY <1>2, <1>3, SendCalls DEF Send
<1>4. CASE TypeIn
  <2>1. [tab.draft EXCEPT !.typed = who].owner = tab.draft.owner
        /\ [tab.draft EXCEPT !.typed = who].typed = who
    BY <1>0 DEF Drafts
  <2>2. ASSUME NEW d PROVE LET u == [tab EXCEPT !.draft = d] IN
          /\ u.page = tab.page /\ u.user = tab.user /\ u.loaded = tab.loaded
          /\ u.proven = tab.proven /\ u.due = tab.due /\ u.draft = d
    BY <1>0 DEF TabRecords
  <2> DEFINE d == [tab.draft EXCEPT !.typed = who]
  <2>3. /\ InFlow /\ tab.due = "no" /\ tab' = [tab EXCEPT !.draft = d] /\ disk' = d
        /\ UNCHANGED <<acct, cookie, who, call>>
    BY <1>4 DEF TypeIn, SaveWith, Idle
  <2> HIDE DEF d
  <2>4. d.owner = tab.draft.owner /\ d.typed = who
    BY <2>1 DEF d
  <2>5. /\ tab'.page = tab.page /\ tab'.user = tab.user /\ tab'.loaded = tab.loaded
        /\ tab'.proven = tab.proven /\ tab'.due = tab.due /\ tab'.draft = d
    BY <2>2, <2>3
  <2>6. Steady
    BY <1>2, <2>3, <2>4, <2>5 DEF Steady, Idle
  <2> QED BY <2>3, <2>6
<1>5. CASE Continue
  <2>1. CASE SignedIn /\ tab' = GoTo(tab, 3) /\ UNCHANGED <<acct, call>>
    <3>1. Steady
      BY <1>0, <1>2, <1>5, <2>1, GoToKeeps DEF Continue, Steady, Idle
    <3> QED BY <1>5, <3>1 DEF Continue
  <2>2. CASE /\ tab' = [tab EXCEPT !.submitting = TRUE] /\ ForgetGenerated
             /\ SendAfter([c \in Slots |-> [call[c] EXCEPT !.gen = FALSE]],
                          [Mail("register") EXCEPT !.gen = TRUE])
    <3> DEFINE calls == [c \in Slots |-> [call[c] EXCEPT !.gen = FALSE]]
               r == [Mail("register") EXCEPT !.gen = TRUE]
    <3>1. ASSUME NEW s \in Slots
          PROVE  /\ calls[s] \in CallRecords /\ calls[s].op = call[s].op
                 /\ calls[s].to = call[s].to /\ calls[s].stage = call[s].stage
      BY <1>0 DEF CallRecords
    <3>2. r.op = "register" /\ r.to = tab.draft.typed /\ r.stage = "sent"
      BY DEF Mail, FreeCall
    <3>3. calls \in [Slots -> CallRecords]
      BY <3>1
    <3> HIDE DEF calls, r
    <3>4. \A s \in Slots : call'[s] \in {calls[s], r}
      BY <2>2, <3>3, SendCalls DEF calls, r
    <3>5. \A s \in Slots : SameCall(s) \/ NewCall(s)
      BY <1>5, <3>1, <3>2, <3>4 DEF SameCall, NewCall, Continue
    <3>6. Steady
      BY <1>0, <1>5, <2>2, <3>5, TabKeeps, ForgetKeeps DEF Continue, Steady, Idle
    <3> QED BY <1>5, <3>6 DEF Continue
  <2> QED BY <1>5, <2>1, <2>2 DEF Continue
<1>6. CASE Resend
  <2>1. \A s \in Slots : SameCall(s) \/ NewCall(s)
    BY <1>3, <1>6, MailFields DEF Resend, NewCall
  <2>2. Steady
    BY <1>0, <1>6, <2>1, TabKeeps DEF Resend, Steady, Idle
  <2> QED BY <1>6, <2>2 DEF Resend
<1>7. ASSUME NEW code, Verify(code), tab.draft.typed = who
      PROVE  \A s \in Slots : SameCall(s) \/ NewCall(s)
  <2> DEFINE r == [Mail("verify") EXCEPT !.code = code]
  <2>1. r.op = "verify" /\ r.to = who /\ r.stage = "sent"
    BY <1>7 DEF Mail, FreeCall
  <2> HIDE DEF r
  <2>2. \A s \in Slots : SameCall(s) \/ call'[s] = r
    BY <1>3, <1>7 DEF Verify, r
  <2>3. CanBegin("verify")
    BY <1>3, <1>7, <2>1 DEF Verify, r
  <2> QED BY <1>7, <2>1, <2>2, <2>3 DEF NewCall
<1>8. CASE EnterCode
  <2>1. PICK code :
          IF tab.submitting \/ ~NotVerifying
          THEN tab' = [tab EXCEPT !.code = code] /\ UNCHANGED call ELSE Verify(code)
    BY <1>8 DEF EnterCode
  <2>2. \A s \in Slots : SameCall(s) \/ NewCall(s)
    BY <1>2, <1>7, <1>8, <2>1 DEF EnterCode
  <2>3. tab' = [tab EXCEPT !.code = code] \/ tab' = [tab EXCEPT !.code = code, !.submitting = TRUE]
    BY <2>1 DEF Verify
  <2>4. /\ tab'.page = tab.page /\ tab'.user = tab.user /\ tab'.loaded = tab.loaded
        /\ tab'.proven = tab.proven /\ tab'.due = tab.due /\ tab'.draft = tab.draft
    BY <1>0, <2>3 DEF TabRecords
  <2>5. Steady
    BY <1>0, <1>8, <2>2, <2>4 DEF EnterCode, Steady, Idle
  <2> QED BY <1>8, <2>5 DEF EnterCode
<1>9. CASE PressVerify
  <2>1. tab.draft.typed = who
    BY <1>9 DEF PressVerify, DraftInv, OwnCode
  <2>2. \A s \in Slots : SameCall(s) \/ NewCall(s)
    BY <1>7, <1>9, <2>1 DEF PressVerify
  <2>3. Steady
    BY <1>0, <1>9, <2>2, TabKeeps DEF PressVerify, Verify, Steady, Idle
  <2> QED BY <1>9, <2>3 DEF PressVerify
<1>10. CASE PickRole
  <2>1. \A s \in Slots : SameCall(s) \/ NewCall(s)
    BY <1>3, <1>10, MailFields DEF PickRole, NewCall
  <2>2. Steady
    BY <1>0, <1>10, <2>1, TabKeeps DEF PickRole, Steady, Idle
  <2> QED BY <1>10, <2>2 DEF PickRole
<1>11. CASE SetPassword
  <2> DEFINE r == [AsUser("password") EXCEPT !.gen = TRUE]
  <2>1. r.op = "password" /\ r.stage = "sent"
    BY DEF AsUser, FreeCall
  <2> HIDE DEF r
  <2>2. \A s \in Slots : SameCall(s) \/ NewCall(s)
    BY <1>3, <1>11, <2>1 DEF SetPassword, NewCall, r
  <2>3. Steady
    BY <1>0, <1>11, <2>2, TabKeeps DEF SetPassword, Steady, Idle
  <2> QED BY <1>11, <2>3 DEF SetPassword
<1>12. CASE Move
  <2>1. CASE /\ ContinuePath \/ ContinueAbout \/ Skip \/ Back
             /\ UNCHANGED <<acct, call>>
    <3>1. PICK n \in 0..7 : tab' = GoTo(tab, n)
      BY <2>1 DEF ContinuePath, ContinueAbout, Skip, Back, Skippable
    <3>2. InFlow /\ Idle
      BY <2>1 DEF ContinuePath, ContinueAbout, Skip, Back, InForm
    <3>3. Steady
      BY <1>0, <1>2, <1>12, <2>1, <3>1, <3>2, GoToKeeps DEF Move, Steady, Idle
    <3> QED BY <1>12, <3>3 DEF Move
  <2>2. CASE Leave("home")
    BY <1>12, <2>2, LeaveClean DEF Move, Leave, Parts, InFlow
  <2> QED BY <1>12, <2>1, <2>2 DEF Move
<1>13. CASE Finish
  <2> DEFINE r == [AsUser("finish") EXCEPT !.typed = tab.draft.typed, !.stage = "profile"]
  <2>1. r.op = "finish" /\ r.stage = "profile"
    BY DEF AsUser, FreeCall
  <2> HIDE DEF r
  <2>2. \A s \in Slots : SameCall(s) \/ NewCall(s)
    BY <1>3, <1>13, <2>1 DEF Finish, NewCall, r
  <2>3. Steady
    BY <1>0, <1>13, <2>2 DEF Finish, ShowsFinish, Steady, Idle
  <2> QED BY <1>13, <2>3 DEF Finish
<1>14. CASE ChooseRole
  BY <1>14, MountedClean, NoCallsFree DEF ChooseRole, ShowsWizard, Parts, InFlow
<1>15. CASE WizardFinish
  <2>1. PICK stage \in {"sent", "mark"} :
          /\ Send([AsUser("done") EXCEPT !.stage = stage])
          /\ tab' = [tab EXCEPT !.saving = stage = "mark"]
    BY <1>15 DEF WizardFinish
  <2> DEFINE r == [AsUser("done") EXCEPT !.stage = stage]
  <2>2. r.op = "done" /\ r.stage # "profile"
    BY <2>1 DEF AsUser, FreeCall
  <2>3. tab'.user = tab.user /\ tab'.page = tab.page /\ tab'.code = tab.code /\ tab'.proven = tab.proven
    BY <1>0, <2>1 DEF TabRecords
  <2> HIDE DEF r
  <2>4. \A s \in Slots : SameCall(s) \/ call'[s] = r
    BY <1>3, <2>1 DEF r
  <2>5. Clean'
    BY <1>15, <2>2, <2>3, <2>4
       DEF WizardFinish, ShowsWizard, Clean, InFlow, SameCall,
           DraftInv, CallsOfPage, OwnCode, ProvenDraft, ProfileOfFinish
  <2> QED BY <1>15, <2>3, <2>5 DEF WizardFinish, ShowsWizard, Parts, InFlow
<1> QED BY <1>4, <1>5, <1>6, <1>8, <1>9, <1>10, <1>11, <1>12, <1>13, <1>14, <1>15 DEF User

(* The answers that settle nothing but the form: all but the registration's   *)
(* and the code's; a new password's plants its session.                     *)
LEMMA HearSteady ==
    ASSUME OnboardingTypeOK, DraftInv, NEW c \in Slots, Hear(c),
           ~Registered(c), ~Verified(c)
    PROVE  \/ /\ Steady
              /\ \/ cookie' = cookie
                 \/ /\ call[c].op = "password" /\ call[c].stage = "ok"
                    /\ cookie' = call[c].to
           \/ Parts
<1> USE DEF OnboardingTypeOK
<1>0. /\ tab \in TabRecords /\ tab.draft \in Drafts /\ Settled \in TabRecords
      /\ \A s \in Slots : call[s] \in CallRecords
  BY SettledTyped DEF TabRecords
<1>1. \A s \in Slots : call'[s] = call[s] => SameCall(s)
  BY DEF SameCall
<1>2. \A s \in Slots : call'[s] = FreeCall => NewCall(s)
  BY DEF NewCall, FreeCall
<1>3. \A s \in Slots : call'[s] \in {Mail("again"), Mail("reverify")} => NewCall(s)
  BY MailFields DEF NewCall
<1>4. Take(c) => \A s \in Slots : SameCall(s) \/ NewCall(s)
  BY <1>1, <1>2, TakeCalls
<1>5. \A op \in {"again", "reverify"} : Then(c, op) => \A s \in Slots : SameCall(s) \/ NewCall(s)
  BY <1>1, <1>3, ThenCalls
<1>6. ASSUME NEW op, NEW stage, Answered(c, op, stage)
      PROVE  Idle /\ tab.due = "no" /\ call[c].op = op /\ (op \notin {"none", "done"} => InFlow)
             /\ (op = "done" => ~InFlow)
  BY <1>6 DEF Answered, Idle, DraftInv, CallsOfPage, InFlow
<1>7. \A n \in 0..7 : /\ GoTo(Settled, n).page = tab.page /\ GoTo(Settled, n).user = tab.user
                      /\ GoTo(Settled, n).loaded = tab.loaded /\ GoTo(Settled, n).draft = tab.draft
                      /\ GoTo(Settled, n).code = tab.code /\ GoTo(Settled, n).proven = tab.proven
                      /\ GoTo(Settled, n).due \in {tab.due, "arrived"}
                      /\ GoTo(Settled, n) \in TabRecords
  BY <1>0, GoToKeeps, SettledKeeps, GoToTyped
<1>8. CASE Exists(c)
  <2>1. Steady
    BY <1>5, <1>6, <1>8, SettledKeeps DEF Exists, Steady
  <2> QED BY <1>8, <2>1 DEF Exists
<1>9. CASE Mailed(c)
  <2>1. InFlow /\ Idle /\ tab.due = "no"
    BY <1>6, <1>9 DEF Mailed
  <2>2. \A s \in Slots : SameCall(s) \/ NewCall(s)
    BY <1>4, <1>9 DEF Mailed
  <2>3. CASE tab' = GoTo(Settled, 2)
    <3>1. Steady
      BY <1>7, <1>9, <2>1, <2>2, <2>3 DEF Mailed, Steady
    <3> QED BY <1>9, <3>1 DEF Mailed
  <2>4. CASE tab' = [Settled EXCEPT !.codeSent = TRUE]
    <3>1. Steady
      BY <1>0, <1>9, <2>1, <2>2, <2>4, SettledKeeps, TabKeeps DEF Mailed, Steady
    <3> QED BY <1>9, <3>1 DEF Mailed
  <2>5. CASE tab' = GoTo([tab EXCEPT !.code = "none", !.codeSent = TRUE,
                                     !.submitting = @ /\ call[c].op = "recover"], 2)
    <3>1. PICK b \in BOOLEAN : b = (tab.submitting /\ call[c].op = "recover")
      OBVIOUS
    <3> DEFINE t == [tab EXCEPT !.code = "none", !.codeSent = TRUE, !.submitting = b]
    <3>2. /\ t \in TabRecords /\ t.page = tab.page /\ t.user = tab.user
          /\ t.loaded = tab.loaded /\ t.draft = tab.draft /\ t.code = "none"
          /\ t.proven = tab.proven /\ t.due = tab.due
      BY <1>0 DEF TabRecords, Codes
    <3>3. tab' = GoTo(t, 2)
      BY <2>5, <3>1
    <3> HIDE DEF t
    <3>4. Steady
      BY <1>9, <2>1, <2>2, <3>2, <3>3, GoToKeeps DEF Mailed, Steady
    <3> QED BY <1>9, <3>4 DEF Mailed
  <2> QED BY <1>9, <2>3, <2>4, <2>5 DEF Mailed
<1>10. CASE RoleSaved(c)
  <2> DEFINE d == [tab.draft EXCEPT !.role = TRUE]
  <2>1. d.owner = tab.draft.owner /\ d.typed = tab.draft.typed
    BY <1>0 DEF Drafts
  <2> HIDE DEF d
  <2>2. ASSUME NEW t \in TabRecords
        PROVE  LET u == [t EXCEPT !.draft = d] IN
               /\ u.page = t.page /\ u.user = t.user /\ u.loaded = t.loaded
               /\ u.proven = t.proven /\ u.due = t.due /\ u.code = t.code /\ u.draft = d
    BY DEF TabRecords
  <2>3. tab' = [GoTo(Settled, 4) EXCEPT !.draft = d] /\ disk' = d
    BY <1>10 DEF RoleSaved, SaveWith, d
  <2>4. /\ tab'.page = tab.page /\ tab'.user = tab.user /\ tab'.loaded = tab.loaded
        /\ tab'.proven = tab.proven /\ tab'.due \in {tab.due, "arrived"} /\ tab'.code = tab.code
        /\ tab'.draft = d
    BY <1>7, <2>2, <2>3
  <2>5. Steady
    BY <1>4, <1>6, <1>10, <2>1, <2>3, <2>4 DEF RoleSaved, Steady
  <2> QED BY <1>10, <2>5 DEF RoleSaved
<1>11. CASE PasswordSet(c)
  <2>1. Steady
    BY <1>4, <1>6, <1>7, <1>11 DEF PasswordSet, Steady
  <2> QED BY <1>11, <2>1 DEF PasswordSet, Answered
<1>12. CASE Unauthorized(c)
  <2>1. Steady
    BY <1>5, <1>6, <1>12 DEF Unauthorized, Steady
  <2> QED BY <1>12, <2>1 DEF Unauthorized
<1>13. CASE Failed(c)
  <2>1. CASE tab' = Settled /\ Take(c) /\ UNCHANGED acct
    <3>1. PICK op, stage : Answered(c, op, stage) /\ op \notin {"none", "done"}
      BY <1>13 DEF Failed
    <3>2. Steady
      BY <1>4, <1>6, <1>13, <2>1, <3>1, SettledKeeps DEF Failed, Steady
    <3> QED BY <1>13, <3>2 DEF Failed
  <2>2. CASE Leave("login")
    BY <1>13, <2>2, LeaveClean DEF Failed, Leave, Parts, InFlow
  <2> QED BY <1>13, <2>1, <2>2 DEF Failed
<1>14. CASE Finished(c)
  BY <1>14, LeaveClean DEF Finished, Leave, Parts, InFlow
<1>15. CASE WizardSaving(c)
  <2>1. /\ tab'.page = tab.page /\ tab'.code = tab.code /\ tab'.proven = tab.proven
        /\ tab'.user = tab.user
    BY <1>0, <1>15 DEF WizardSaving, TabRecords
  <2>2. \A s \in Slots : call'[s].op = call[s].op /\ call'[s].stage \in {call[s].stage, "mark"}
    BY <1>0, <1>15 DEF WizardSaving, CallRecords
  <2>3. Clean'
    BY <1>6, <1>15, <2>1, <2>2
       DEF WizardSaving, Clean, InFlow, DraftInv, CallsOfPage, OwnCode, ProvenDraft, ProfileOfFinish
  <2> QED BY <1>6, <1>15, <2>1, <2>3 DEF WizardSaving, Parts, InFlow
<1>16. CASE WizardDone(c)
  <2>1. Clean'
    BY <1>16, NoCallsFree DEF WizardDone, Closed, Clean, InFlow
  <2> QED BY <1>6, <1>16, <2>1 DEF WizardDone, Parts, InFlow, Closed
<1>17. CASE WizardFails(c)
  <2>1. \A s \in Slots : call'[s] \in {call[s], FreeCall}
    BY <1>17, TakeCalls DEF WizardFails
  <2>3. FreeCall.op = "none" /\ FreeCall.stage = "sent"
    BY DEF FreeCall
  <2>2. Clean'
    BY <1>6, <1>17, <2>1, <2>3
       DEF WizardFails, Clean, InFlow, DraftInv, CallsOfPage, OwnCode, ProvenDraft, ProfileOfFinish
  <2> QED BY <1>6, <1>17, <2>2 DEF WizardFails, Parts, InFlow
<1> QED BY <1>8, <1>9, <1>10, <1>11, <1>12, <1>13, <1>14, <1>15, <1>16, <1>17 DEF Hear

LEMMA DraftKeeps ==
    ASSUME NEW t \in TabRecords, NEW d
    PROVE  LET u == [t EXCEPT !.draft = d] IN
           /\ u.page = t.page /\ u.user = t.user /\ u.loaded = t.loaded
           /\ u.proven = t.proven /\ u.due = t.due /\ u.code = t.code /\ u.draft = d
  BY DEF TabRecords

(* A registration that is answered makes the draft its account's.            *)
LEMMA RegisteredStep ==
    ASSUME OnboardingTypeOK, NEW c \in Slots, Registered(c)
    PROVE  /\ call[c].op = "register" /\ UNCHANGED <<acct, cookie, who>>
           /\ tab'.page = tab.page /\ tab'.user = tab.user /\ tab'.loaded = tab.loaded
           /\ tab'.proven = tab.proven /\ tab'.code = tab.code
           /\ disk' = tab'.draft /\ tab'.draft.owner = call[c].to
           /\ tab'.draft.typed = tab.draft.typed
           /\ tab'.due = "no" => ~(tab.loaded /\ SignedIn /\ ~tab.proven /\ tab.user.id # call[c].to)
           /\ \A s \in Slots : call'[s] \in {call[s], FreeCall}
<1> DEFINE t == GoTo(Settled, 2)
           d == [tab.draft EXCEPT !.owner = call[c].to, !.verified = FALSE]
           foreign == tab.loaded /\ SignedIn /\ ~tab.proven /\ tab.user.id # call[c].to
           due == IF foreign /\ t.due = "no" THEN "commit" ELSE t.due
<1>1. /\ t \in TabRecords /\ t.page = tab.page /\ t.user = tab.user /\ t.loaded = tab.loaded
      /\ t.proven = tab.proven /\ t.code = tab.code
  BY GoToKeeps, GoToTyped, SettledKeeps, SettledTyped
<1>2. d.owner = call[c].to /\ d.typed = tab.draft.typed
  BY DEF OnboardingTypeOK, TabRecords, Drafts
<1>3. tab' = [[t EXCEPT !.due = due] EXCEPT !.draft = d] /\ disk' = d
  BY DEF Registered, SaveWith
<1>4. due \in {"no", "commit", "arrived"} /\ (due = "no" => ~foreign)
  <2>1. t.due \in {"no", "commit", "arrived"}
    BY <1>1 DEF TabRecords
  <2> QED BY <2>1
<1>5. \A s \in Slots : call'[s] \in {call[s], FreeCall}
  BY TakeCalls DEF Registered
<1>6. call[c].op = "register" /\ UNCHANGED <<acct, cookie, who>>
  BY DEF Registered, Answered
<1> HIDE DEF t, d, due
<1>7. /\ tab'.page = t.page /\ tab'.user = t.user /\ tab'.loaded = t.loaded
      /\ tab'.proven = t.proven /\ tab'.code = t.code /\ tab'.draft = d /\ tab'.due = due
  BY <1>1, <1>3, <1>4 DEF TabRecords
<1> QED BY <1>1, <1>2, <1>3, <1>4, <1>5, <1>6, <1>7

(* A code that is accepted plants the session of its address.                *)
LEMMA VerifiedStep ==
    ASSUME OnboardingTypeOK, NEW c \in Slots, Verified(c)
    PROVE  /\ call[c].op = "verify" /\ call[c].stage = "ok" /\ UNCHANGED <<acct, who>>
           /\ cookie' = call[c].to /\ tab'.user = SessionOf(call[c].to)
           /\ tab'.page = tab.page /\ tab'.proven /\ tab'.code = tab.code
           /\ tab'.due = "arrived"
           /\ disk' = tab'.draft /\ tab'.draft.owner = call[c].to
           /\ tab'.draft.typed = tab.draft.typed
           /\ \A s \in Slots : call'[s] \in {call[s], FreeCall}
<1> DEFINE t == GoTo(Settled, 3)
           d == [tab.draft EXCEPT !.owner = call[c].to, !.verified = TRUE]
<1>1. t \in TabRecords /\ t.page = tab.page /\ t.code = tab.code
  BY GoToKeeps, GoToTyped, SettledKeeps, SettledTyped
<1>2. d.owner = call[c].to /\ d.typed = tab.draft.typed
  BY DEF OnboardingTypeOK, TabRecords, Drafts
<1> HIDE DEF t
<1>3. /\ disk' = d
      /\ tab' = [[t EXCEPT !.user = SessionOf(call[c].to), !.loaded = SignedIn, !.due = "arrived",
                           !.proven = TRUE] EXCEPT !.draft = d]
  BY DEF Verified, SaveWith, t
<1>4. \A s \in Slots : call'[s] \in {call[s], FreeCall}
  BY TakeCalls DEF Verified
<1>5. /\ call[c].op = "verify" /\ call[c].stage = "ok" /\ UNCHANGED <<acct, who>>
      /\ cookie' = call[c].to
  BY DEF Verified, Answered
<1> HIDE DEF d
<1>6. ASSUME NEW u, NEW l,
             tab' = [[t EXCEPT !.user = u, !.loaded = l, !.due = "arrived", !.proven = TRUE]
                        EXCEPT !.draft = d]
      PROVE  /\ tab'.page = t.page /\ tab'.user = u /\ tab'.proven
             /\ tab'.code = t.code /\ tab'.draft = d /\ tab'.due = "arrived"
  BY <1>1, <1>6 DEF TabRecords
<1> QED BY <1>1, <1>2, <1>3, <1>4, <1>5, <1>6

(* The server answers: who asked what stands.                                *)
Quiet ==
    /\ UNCHANGED <<who, disk>>
    /\ tab'.page = tab.page /\ tab'.user = tab.user /\ tab'.loaded = tab.loaded
    /\ tab'.proven = tab.proven /\ tab'.due = tab.due /\ tab'.draft = tab.draft
    /\ tab'.code # "none" => tab.code # "none"
    /\ \A s \in Slots : call'[s].op = call[s].op /\ call'[s].to = call[s].to

LEMMA ReplyFields ==
    ASSUME OnboardingTypeOK, NEW c \in Slots, NEW stage \in Stages
    PROVE  /\ Reply(c, stage).op = call[c].op /\ Reply(c, stage).to = call[c].to
           /\ Reply(c, stage).stage = stage
           /\ \A s \in Slots : s # c => [call EXCEPT ![c] = Reply(c, stage)][s] = call[s]
           /\ [call EXCEPT ![c] = Reply(c, stage)][c] = Reply(c, stage)
<1>1. call[c] \in CallRecords /\ call \in [Slots -> CallRecords]
  BY DEF OnboardingTypeOK
<1> QED BY <1>1 DEF Reply, CallRecords, Stages

LEMMA ServeQuiet ==
    ASSUME OnboardingTypeOK, NEW c \in Slots, Serve(c) \/ Lost(c)
    PROVE  /\ Quiet
           /\ \A s \in Slots \ {c} : call'[s].stage = call[s].stage
           /\ call'[c].stage \in {"ok", "exists", "denied", "failed", "mark"}
           /\ call'[c].stage = "ok" => call[c].stage = "sent" \/ call[c].op \in {"finish", "done"}
<1>1. ASSUME NEW stage \in {"ok", "exists", "denied", "failed", "mark"},
             call' = [call EXCEPT ![c] = Reply(c, stage)]
      PROVE  /\ \A s \in Slots : call'[s].op = call[s].op /\ call'[s].to = call[s].to
             /\ \A s \in Slots \ {c} : call'[s].stage = call[s].stage
             /\ call'[c].stage = stage
  BY <1>1, ReplyFields DEF Stages
<1>2. CASE ServeRegister(c)
  BY <1>1, <1>2 DEF ServeRegister, Quiet
<1>3. CASE ServeMail(c)
  <2> DEFINE p == call[c].to
  <2>1. CASE call' = [call EXCEPT ![c] = Reply(c, "failed")] /\ UNCHANGED <<acct, tab>>
    BY <1>1, <1>3, <2>1 DEF ServeMail, Quiet
  <2>2. CASE call' = [call EXCEPT ![c] = Reply(c, "ok")] /\ UNCHANGED <<acct, tab>>
    BY <1>1, <1>3, <2>2 DEF ServeMail, Quiet
  <2>3. CASE /\ tab' = IF tab.draft.typed = p THEN [tab EXCEPT !.code = Aged(@)] ELSE tab
             /\ call' = [s \in Slots |->
                   CASE s = c                    -> Reply(c, "ok")
                     [] s # c /\ call[s].to = p -> [call[s] EXCEPT !.code = Aged(@)]
                     [] OTHER                    -> call[s]]
    <3>1. ASSUME NEW code, tab' = [tab EXCEPT !.code = code]
          PROVE  /\ tab'.page = tab.page /\ tab'.user = tab.user /\ tab'.loaded = tab.loaded
                 /\ tab'.proven = tab.proven /\ tab'.due = tab.due /\ tab'.draft = tab.draft
                 /\ tab'.code = code
      BY <3>1 DEF OnboardingTypeOK, TabRecords
    <3>2. Aged("none") = "none"
      BY DEF Aged
    <3>3. /\ tab'.page = tab.page /\ tab'.user = tab.user /\ tab'.loaded = tab.loaded
          /\ tab'.proven = tab.proven /\ tab'.due = tab.due /\ tab'.draft = tab.draft
          /\ tab'.code # "none" => tab.code # "none"
      <4>1. CASE tab' = tab
        BY <4>1
      <4>2. CASE tab' = [tab EXCEPT !.code = Aged(@)]
        BY <3>1, <3>2, <4>2
      <4> QED BY <2>3, <4>1, <4>2
    <3>4. ASSUME NEW s \in Slots, s # c
          PROVE  call'[s].op = call[s].op /\ call'[s].to = call[s].to
                 /\ call'[s].stage = call[s].stage
      <4>1. ASSUME NEW code
            PROVE  LET r == [call[s] EXCEPT !.code = code] IN
                   r.op = call[s].op /\ r.to = call[s].to /\ r.stage = call[s].stage
        BY DEF OnboardingTypeOK, CallRecords
      <4>2. call'[s] = call[s] \/ call'[s] = [call[s] EXCEPT !.code = Aged(@)]
        <5>1. CASE call[s].to = p
          BY <2>3, <3>4, <5>1
        <5>2. CASE call[s].to # p
          BY <2>3, <3>4, <5>2
        <5> QED BY <5>1, <5>2
      <4> QED BY <4>1, <4>2
    <3>5. call'[c] = Reply(c, "ok")
      BY <2>3
    <3>6. call'[c].op = call[c].op /\ call'[c].to = call[c].to /\ call'[c].stage = "ok"
      BY <3>5, ReplyFields DEF Stages
    <3>7. Quiet
      BY <1>3, <3>3, <3>4, <3>6 DEF ServeMail, Quiet
    <3> QED BY <1>3, <3>4, <3>6, <3>7 DEF ServeMail
  <2> QED BY <1>3, <2>1, <2>2, <2>3 DEF ServeMail
<1>4. CASE ServeVerify(c)
  BY <1>1, <1>4 DEF ServeVerify, Quiet
<1>5. CASE ServeRole(c)
  BY <1>1, <1>5 DEF ServeRole, Quiet
<1>6. CASE ServePassword(c)
  BY <1>1, <1>6 DEF ServePassword, Quiet
<1>7. CASE ServeFinish(c)
  <2>1. ASSUME call' = [call EXCEPT ![c] = [Reply(c, "mark") EXCEPT !.typed = NoOne]]
        PROVE  /\ \A s \in Slots : call'[s].op = call[s].op /\ call'[s].to = call[s].to
               /\ \A s \in Slots \ {c} : call'[s].stage = call[s].stage
               /\ call'[c].stage = "mark"
    <3>1. /\ Reply(c, "mark") \in CallRecords /\ Reply(c, "mark").op = call[c].op
          /\ Reply(c, "mark").to = call[c].to /\ Reply(c, "mark").stage = "mark"
      BY ReplyFields, ReplyTyped DEF Stages
    <3> DEFINE r == [Reply(c, "mark") EXCEPT !.typed = NoOne]
    <3>2. r.op = call[c].op /\ r.to = call[c].to /\ r.stage = "mark"
      BY <3>1 DEF CallRecords
    <3> HIDE DEF r
    <3>3. call' = [call EXCEPT ![c] = r] /\ call \in [Slots -> CallRecords]
      BY <2>1 DEF r, OnboardingTypeOK
    <3> QED BY <3>2, <3>3
  <2> QED BY <1>1, <1>7, <2>1 DEF ServeFinish, Ends, Quiet
<1>8. CASE Lost(c)
  BY <1>1, <1>8 DEF Lost, Quiet
<1> QED BY <1>2, <1>3, <1>4, <1>5, <1>6, <1>7, <1>8 DEF Serve

LEMMA QuietDraft == ASSUME DraftInv, Quiet, ProfileOfFinish' PROVE DraftInv'
  BY DEF Quiet, DraftInv, CallsOfPage, Addressed, OwnCode, ProvenDraft, InFlow

(* The draft's invariant holds at first and through every step.              *)
LEMMA DraftInit == Init => DraftInv
  BY NoCallsFree DEF Init, Closed, NoCalls, FreeCall, DraftInv, CallsOfPage, Addressed, OwnCode,
     ProvenDraft, ProfileOfFinish, InFlow

LEMMA DraftNext == ASSUME OnboardingTypeOK, DraftInv, [Next]_vars PROVE DraftInv'
<1>1. CASE UNCHANGED vars
  BY <1>1 DEF vars, DraftInv, CallsOfPage, Addressed, OwnCode, ProvenDraft, ProfileOfFinish, InFlow
<1>2. CASE Page
  <2>1. CASE RunEffects
    <3>1. /\ tab'.page = tab.page
          /\ \/ /\ StaleDraft /\ ~tab'.proven /\ tab'.code = "none"
             \/ /\ tab'.draft = tab.draft /\ disk' = disk
                /\ tab'.proven = tab.proven /\ tab'.code = tab.code
          /\ \A s \in Slots : call'[s] \in {call[s], Mail("send"), Mail("recover")}
      BY <2>1, EffectsDraft
    <3>2. UNCHANGED who /\ InFlow
      BY <2>1 DEF RunEffects
    <3>3. /\ Mail("send").op = "send" /\ Mail("send").stage = "sent"
          /\ Mail("recover").op = "recover" /\ Mail("recover").stage = "sent"
      BY MailFields
    <3> QED BY <3>1, <3>2, <3>3 DEF DraftInv, CallsOfPage, Addressed, OwnCode, ProvenDraft, ProfileOfFinish, InFlow
  <2> QED BY <1>2, <2>1, OutsideDraft, CleanDraft DEF Page
<1>3. CASE Browser
  BY <1>3, OutsideDraft, CleanDraft
<1>4. CASE User
  BY <1>4, UserSteady, SteadyDraft, CleanDraft DEF Parts
<1>5. CASE ReadSession \/ ReadFails \/ Expire
  BY <1>5, SessionDraft
<1>6. ASSUME NEW c \in Slots, Hear(c)
      PROVE  DraftInv'
  <2>1. CASE Registered(c)
    <3>1. call[c].to # NoOne /\ call[c].op = "register"
      BY <2>1, RegisteredStep DEF DraftInv, Addressed
    <3>2. InFlow
      BY <3>1 DEF DraftInv, CallsOfPage
    <3>3. FreeCall.op = "none" /\ FreeCall.stage = "sent"
      BY DEF FreeCall
    <3>4. CallsOfPage' /\ Addressed' /\ ProfileOfFinish'
      BY <2>1, <3>2, <3>3, RegisteredStep
         DEF DraftInv, CallsOfPage, Addressed, ProfileOfFinish, InFlow
    <3>5. OwnCode' /\ ProvenDraft'
      BY <2>1, <3>1, <3>2, RegisteredStep DEF DraftInv, OwnCode, ProvenDraft, InFlow
    <3> QED BY <3>4, <3>5 DEF DraftInv
  <2>2. CASE Verified(c)
    <3>1. call[c].to = who /\ call[c].op = "verify" /\ who \in People
      BY <2>2, VerifiedStep DEF DraftInv, Addressed, OnboardingTypeOK
    <3>2. InFlow
      BY <3>1 DEF DraftInv, CallsOfPage
    <3> QED BY <2>2, <3>1, <3>2, VerifiedStep
            DEF DraftInv, CallsOfPage, Addressed, OwnCode, ProvenDraft, ProfileOfFinish, InFlow, FreeCall
  <2> QED BY <1>6, <2>1, <2>2, HearSteady, SteadyDraft, CleanDraft DEF Parts
<1>7. ASSUME NEW c \in Slots, Serve(c) \/ Lost(c)
      PROVE  DraftInv'
  <2>1. ProfileOfFinish'
    BY <1>7, ServeQuiet DEF Quiet, DraftInv, ProfileOfFinish
  <2> QED BY <1>7, <2>1, ServeQuiet, QuietDraft
<1>8. ASSUME NEW p \in People, CodeExpires(p)
      PROVE  DraftInv'
  BY <1>8 DEF CodeExpires, DraftInv, CallsOfPage, Addressed, OwnCode, ProvenDraft, ProfileOfFinish, InFlow
<1> QED BY <1>1, <1>2, <1>3, <1>4, <1>5, <1>6, <1>7, <1>8 DEF Next

(* A person who has verified on this page keeps the draft until leaving it.  *)
LEMMA KeepsDraft ==
    ASSUME OnboardingTypeOK, DraftInv, [Next]_vars, InFlow, tab.proven, tab'.page = "flow"
    PROVE  tab'.draft # EmptyDraft
<1>1. DraftInv' => (tab'.proven => tab'.draft.owner # NoOne)
  BY DEF DraftInv, ProvenDraft
<1>2. EmptyDraft.owner = NoOne
  BY DEF EmptyDraft
<1>3. disk = tab.draft /\ tab.draft.owner # NoOne
  BY DEF DraftInv, ProvenDraft
<1>4. ASSUME tab'.draft = disk PROVE tab'.draft # EmptyDraft
  BY <1>2, <1>3, <1>4
<1>5. ASSUME tab'.proven PROVE tab'.draft # EmptyDraft
  BY <1>1, <1>2, <1>5, DraftNext
<1>6. CASE UNCHANGED tab
  BY <1>5, <1>6
<1>7. CASE Page
  <2>1. CASE RunEffects
    BY <1>4, <1>3, <2>1, EffectsDraft DEF StaleDraft
  <2> QED BY <1>7, <2>1, LeaveClean DEF Page, Redirects, WizardEffects, WizardRetries, InFlow
<1>8. CASE Browser
  <2>1. CASE Reload
    BY <1>4, <2>1 DEF Reload, Mounted, Closed
  <2>2. CASE Close
    BY <2>2 DEF Close, Closed
  <2> QED BY <1>8, <2>1, <2>2 DEF Browser, InFlow, Open, OpenLogin, NextPerson, Logout, SignIn
<1>9. CASE User
  BY <1>5, <1>9, UserSteady DEF Steady, Parts, InFlow
<1>10. CASE ReadSession \/ ReadFails \/ Expire
  BY <1>4, <1>3, <1>10, SessionKeeps
<1>11. ASSUME NEW c \in Slots, Hear(c)
       PROVE  tab'.draft # EmptyDraft
  <2>1. CASE Registered(c)
    BY <1>5, <2>1, RegisteredStep
  <2>2. CASE Verified(c)
    BY <1>5, <2>2, VerifiedStep
  <2> QED BY <1>5, <1>11, <2>1, <2>2, HearSteady DEF Steady, Parts, InFlow
<1>12. ASSUME NEW c \in Slots, Serve(c) \/ Lost(c)
       PROVE  tab'.draft # EmptyDraft
  BY <1>3, <1>4, <1>12, ServeQuiet DEF Quiet
<1>13. ASSUME NEW p \in People, CodeExpires(p)
       PROVE  tab'.draft # EmptyDraft
  BY <1>6, <1>13 DEF CodeExpires
<1> QED
  BY <1>6, <1>7, <1>8, <1>9, <1>10, <1>11, <1>12, <1>13 DEF Next, vars

THEOREM OnboardingDraft == Spec => []DraftInv
<1>1. DraftInv /\ OnboardingTypeOK /\ [Next]_vars => DraftInv'
  BY DraftNext
<1> QED BY <1>1, DraftInit, OnboardingTyped, PTL DEF Spec

(* Whoever has verified on this page keeps the draft until leaving it: no     *)
(* read of the session cache, and no other answer, takes it away.           *)
THEOREM OnboardingKeeps == Spec => ProvenKeepsDraft
<1>1. OnboardingTypeOK /\ DraftInv /\ [Next]_vars
        => [InFlow /\ tab.proven /\ tab'.page = "flow" => tab'.draft # EmptyDraft]_vars
  BY KeepsDraft
<1> QED BY <1>1, OnboardingTyped, OnboardingDraft, PTL DEF Spec, ProvenKeepsDraft

-----------------------------------------------------------------------------
(* Whose draft it is.  A generated password is the page's, and on an active   *)
(* account it is the one of whoever sits there.                             *)
Own == {NoOne, who}
Generated == \A p \in People : acct[p].gen => InFlow /\ (acct[p].st = "active" => p = who)

(* A session is an active account's, and the cached one is not another's.    *)
HolderActive == cookie # NoOne => acct[cookie].st = "active"
SameUser == /\ {cookie, tab.user.id} \subseteq People => cookie = tab.user.id
            /\ tab.user.id = NoOne => tab.user = NoUser

(* The answers that plant a session plant one's own.                         *)
AnswersOwn ==
    \A c \in Slots :
        call[c].stage = "ok" /\ call[c].op \in {"verify", "password"}
            => /\ call[c].to = who /\ acct[who].st = "active"
               /\ call[c].op = "password" => {cookie, tab.user.id} \subseteq Own

(* From the code on, the address is one's own.                               *)
Proving == tab.proven \/ Waiting("verify")
ProvingIsOwn ==
    Proving => /\ tab.draft.typed \in Own
               /\ \A c \in Slots : call[c].op = "register" => call[c].to = who
ProvenIsOwn == tab.proven => tab.draft.owner = who /\ {cookie, tab.user.id} \subseteq Own

(* Between renders no unproven draft is another account's.                   *)
Matched == InFlow /\ Idle /\ tab.loaded /\ ~tab.proven => ~Mismatch

OwnInv == Generated /\ HolderActive /\ SameUser /\ AnswersOwn /\ ProvingIsOwn /\ ProvenIsOwn
          /\ Matched

LEMMA CleanOwn == ASSUME Clean' PROVE (AnswersOwn /\ ProvingIsOwn /\ ProvenIsOwn /\ Matched)'
  BY DEF Clean, AnswersOwn, Proving, ProvingIsOwn, ProvenIsOwn, Matched, Waiting

LEMMA ForgetNone ==
    ASSUME OnboardingTypeOK, ForgetGenerated
    PROVE  \A p \in People : acct'[p].st = acct[p].st /\ ~acct'[p].gen
  BY DEF OnboardingTypeOK, ForgetGenerated, Accounts

LEMMA SessionId ==
    ASSUME NEW p \in Person
    PROVE  SessionOf(p).id = p /\ (p = NoOne => SessionOf(p) = NoUser) /\ NoUser.id = NoOne
  BY DEF SessionOf, NoUser

(* People, cookie and cached session outside the steps.                      *)
LEMMA OutsideOwn ==
    ASSUME OnboardingTypeOK, DraftInv, OwnInv,
           Browser \/ WizardEffects \/ WizardRetries \/ Redirects
    PROVE  OwnInv'
<1> USE DEF OwnInv, OnboardingTypeOK
<1>0. /\ NoUser.id = NoOne /\ who \in People /\ cookie \in Person
      /\ Closed.user = NoUser /\ Closed.page = "away"
  BY DEF NoUser, Closed
<1>1. ASSUME ForgetGenerated, cookie' \in {cookie, NoOne}, tab'.user \in {tab.user, NoUser}
      PROVE  Generated' /\ HolderActive' /\ SameUser'
  <2>1. Generated'
    BY <1>1, ForgetNone DEF Generated
  <2>2. HolderActive'
    BY <1>0, <1>1, ForgetNone DEF HolderActive
  <2>3. SameUser'
    BY <1>0, <1>1 DEF SameUser
  <2> QED BY <2>1, <2>2, <2>3
<1>2. ASSUME ~InFlow, UNCHANGED <<acct, cookie>>,
             tab'.user \in {tab.user, NoUser, SessionOf(cookie)}
      PROVE  Generated' /\ HolderActive' /\ SameUser'
  <2>1. Generated'
    BY <1>2 DEF Generated
  <2>2. HolderActive'
    BY <1>2 DEF HolderActive
  <2>3. SameUser'
    BY <1>0, <1>2, SessionId DEF SameUser
  <2> QED BY <2>1, <2>2, <2>3
<1>3. Generated' /\ HolderActive' /\ SameUser'
  <2>1. CASE Open
    <3>1. tab'.user = NoUser
      BY <2>1 DEF Open, Mounted, Closed
    <3> QED BY <1>2, <2>1, <3>1 DEF Open, InFlow
  <2>2. CASE OpenLogin
    BY <1>0, <1>2, <2>2 DEF OpenLogin, InFlow, Closed
  <2>3. CASE Reload
    BY <1>0, <1>1, <2>3 DEF Reload, Mounted, Closed
  <2>4. CASE Close
    BY <1>0, <1>1, <2>4 DEF Close
  <2>5. CASE NextPerson
    BY <1>2, <2>5 DEF NextPerson, InFlow
  <2>6. CASE Logout
    BY <1>0, <1>1, <2>6 DEF Logout
  <2>7. CASE SignIn
    <3>1. acct' = [acct EXCEPT ![who].st = "active"] /\ cookie' = who /\ ~InFlow
      BY <2>7 DEF SignIn, InFlow
    <3>2. \A p \in People : acct'[p].gen = acct[p].gen
      BY <3>1 DEF Accounts
    <3>3. acct'[who].st = "active"
      BY <3>1 DEF Accounts
    <3>4. tab'.user.id = who
      BY <2>7 DEF SignIn, Closed
    <3>5. Generated'
      BY <3>1, <3>2 DEF Generated
    <3>6. HolderActive'
      BY <3>1, <3>3 DEF HolderActive
    <3>7. SameUser'
      BY <1>0, <3>1, <3>4 DEF SameUser
    <3> QED BY <3>5, <3>6, <3>7
  <2>8. CASE WizardEffects
    <3>1. tab'.user \in {tab.user, NoUser}
      BY <1>0, <2>8 DEF WizardEffects, TabRecords, Closed
    <3> QED BY <1>2, <2>8, <3>1 DEF WizardEffects, InFlow
  <2>9. CASE WizardRetries
    <3>1. ASSUME NEW u, NEW n, tab' = [tab EXCEPT !.tries = n, !.user = u, !.due = "commit"]
          PROVE tab'.user = u
      BY <3>1 DEF TabRecords
    <3>2. tab'.user \in {NoUser, SessionOf(cookie)}
      BY <1>0, <2>9, <3>1 DEF WizardRetries, Closed
    <3> QED BY <1>2, <2>9, <3>2 DEF WizardRetries, InFlow
  <2>10. CASE Redirects
    BY <1>1, <2>10, LeaveClean DEF Redirects, Leave
  <2> QED BY <2>1, <2>2, <2>3, <2>4, <2>5, <2>6, <2>7, <2>8, <2>9, <2>10 DEF Browser
<1> QED BY <1>3, OutsideDraft, CleanOwn

LEMMA PartsOwn == ASSUME OnboardingTypeOK, OwnInv, Parts PROVE OwnInv'
<1>1. NoUser.id = NoOne
  BY DEF NoUser
<1>2. Generated'
  BY ForgetNone DEF Parts, OwnInv, Generated
<1>3. HolderActive'
  BY ForgetKeeps DEF Parts, OwnInv, HolderActive, OnboardingTypeOK
<1>4. SameUser'
  BY <1>1 DEF Parts, OwnInv, SameUser
<1> QED BY <1>2, <1>3, <1>4, CleanOwn DEF Parts, OwnInv

(* Nobody verifies while another request is under way: a code is entered for  *)
(* the address typed, and no registration for another one is still to come.  *)
LEMMA SteadyOwn ==
    ASSUME "verify" \notin Overlap, OnboardingTypeOK, OwnInv, Steady,
           \/ cookie' = cookie
           \/ \E c \in Slots : /\ call[c].op = "password" /\ call[c].stage = "ok"
                               /\ cookie' = call[c].to
    PROVE  OwnInv'
<1> USE DEF OwnInv
<1>0. who \in People /\ who # NoOne /\ cookie \in Person
  BY DEF OnboardingTypeOK
<1>1. /\ cookie' \in {cookie, who}
      /\ cookie' # cookie => acct[who].st = "active" /\ tab.user.id \in Own
  BY DEF AnswersOwn
<1>2. Generated'
  BY DEF Steady, Generated, InFlow
<1>3. HolderActive'
  BY <1>0, <1>1 DEF Steady, HolderActive
<1>4. SameUser'
  BY <1>0, <1>1 DEF Steady, SameUser, Own
<1>5. AnswersOwn'
  <2> SUFFICES ASSUME NEW c \in Slots, call'[c].stage = "ok", call'[c].op \in {"verify", "password"}
               PROVE  /\ call'[c].to = who' /\ acct'[who'].st = "active"
                      /\ call'[c].op = "password" => {cookie', tab'.user.id} \subseteq Own'
    BY DEF AnswersOwn
  <2>1. SameCall(c)
    BY DEF Steady, NewCall
  <2> QED BY <1>0, <1>1, <2>1 DEF Steady, SameCall, AnswersOwn, Own
<1>6. ProvingIsOwn'
  <2> SUFFICES ASSUME Proving'
               PROVE  /\ tab'.draft.typed \in Own
                      /\ \A c \in Slots : call'[c].op = "register" => call'[c].to = who
    BY DEF ProvingIsOwn, Steady, Own
  <2>1. CASE Proving
    <3>1. tab.draft.typed \in Own
      BY <2>1 DEF ProvingIsOwn
    <3>2. ASSUME NEW c \in Slots, call'[c].op = "register" PROVE call'[c].to = who
      BY <2>1, <3>1, <3>2 DEF ProvingIsOwn, Steady, SameCall, NewCall, Own
    <3> QED BY <3>1, <3>2 DEF Steady, Own
  <2>2. CASE ~Proving
    <3>1. PICK s \in Slots : call'[s].op = "verify"
      BY <2>2 DEF Proving, Waiting, Steady
    <3>2. CanBegin("verify") /\ tab.draft.typed = who
      BY <2>2, <3>1 DEF Steady, SameCall, NewCall, Proving, Waiting
    <3>3. \A c \in Slots : call[c].op = "none"
      BY <3>2 DEF CanBegin, FreeSlots
    <3>4. ASSUME NEW c \in Slots, call'[c].op = "register" PROVE call'[c].to = who
      BY <3>2, <3>3, <3>4 DEF Steady, SameCall, NewCall
    <3> QED BY <3>2, <3>4 DEF Steady, Own
  <2> QED BY <2>1, <2>2
<1>7. ProvenIsOwn'
  BY <1>1 DEF Steady, ProvenIsOwn, Own
<1>8. Matched'
  BY DEF Steady, Matched, Mismatch, SignedIn, InFlow
<1> QED BY <1>2, <1>3, <1>4, <1>5, <1>6, <1>7, <1>8

LEMMA EffectsOwn == ASSUME OnboardingTypeOK, DraftInv, OwnInv, RunEffects PROVE OwnInv'
<1> USE DEF OwnInv
<1>1. /\ UNCHANGED <<acct, cookie, who>> /\ InFlow
      /\ tab'.page = tab.page /\ tab'.user = tab.user /\ tab'.loaded = tab.loaded
  BY EffectsDraft DEF RunEffects
<1>2. \A s \in Slots : \/ call'[s] = call[s]
                       \/ call'[s].op \in {"send", "recover"} /\ call'[s].stage = "sent"
  BY EffectsDraft, MailFields
<1>3. Generated' /\ HolderActive' /\ SameUser'
  BY <1>1 DEF Generated, HolderActive, SameUser, InFlow
<1>4. AnswersOwn'
  BY <1>1, <1>2 DEF AnswersOwn, Own
<1>5. Waiting("verify")' => Waiting("verify")
  BY <1>2 DEF Waiting
<1>6. CASE StaleDraft
  <2>1. tab'.draft = EmptyDraft /\ ~tab'.proven /\ tab'.due # "no" /\ ~tab.proven
    BY <1>6, EffectsDraft DEF StaleDraft
  <2>2. EmptyDraft.typed = NoOne
    BY DEF EmptyDraft
  <2>3. ProvingIsOwn' /\ ProvenIsOwn' /\ Matched'
    BY <1>1, <1>2, <1>5, <2>1, <2>2 DEF ProvingIsOwn, ProvenIsOwn, Matched, Proving, Idle, Own
  <2> QED BY <1>3, <1>4, <2>3
<1>7. CASE ~StaleDraft
  <2>1. tab'.draft = tab.draft /\ tab'.proven = tab.proven
    BY <1>7, EffectsDraft
  <2>2. ProvingIsOwn' /\ ProvenIsOwn'
    BY <1>1, <1>2, <1>5, <2>1 DEF ProvingIsOwn, ProvenIsOwn, Proving, Own
  <2>3. Matched'
    BY <1>1, <1>7, <2>1 DEF Matched, Mismatch, SignedIn, StaleDraft
  <2> QED BY <1>3, <1>4, <2>2, <2>3
<1> QED BY <1>6, <1>7

LEMMA SessionOwn ==
    ASSUME OnboardingTypeOK, OwnInv, ReadSession \/ ReadFails \/ Expire
    PROVE  OwnInv'
<1> USE DEF OwnInv
<1>0. who \in People /\ cookie \in Person /\ NoUser.id = NoOne
  BY DEF OnboardingTypeOK, NoUser
<1>1. /\ UNCHANGED <<acct, who, call>> /\ tab'.page = tab.page /\ tab'.proven = tab.proven
      /\ tab'.draft = tab.draft /\ cookie' \in {cookie, NoOne}
  BY SessionKeeps
<1>2. tab'.user.id \in {tab.user.id, cookie, NoOne}
  BY <1>0, SessionKeeps, SessionId
<1>3. Generated' /\ HolderActive'
  BY <1>1 DEF Generated, HolderActive, InFlow
<1>4. SameUser'
  BY <1>0, SessionKeeps, SessionId DEF SameUser
<1>5. AnswersOwn'
  BY <1>1, <1>2 DEF AnswersOwn, Own
<1>6. ProvingIsOwn' /\ ProvenIsOwn'
  BY <1>1, <1>2 DEF ProvingIsOwn, ProvenIsOwn, Proving, Waiting, Own
<1>7. Matched'
  BY SessionKeeps DEF Matched, Mismatch, SignedIn, InFlow, Idle
<1> QED BY <1>3, <1>4, <1>5, <1>6, <1>7

LEMMA RegisteredOwn ==
    ASSUME OnboardingTypeOK, DraftInv, OwnInv, NEW c \in Slots, Registered(c)
    PROVE  OwnInv'
<1> USE DEF OwnInv
<1>1. /\ call[c].op = "register" /\ UNCHANGED <<acct, cookie, who>>
      /\ tab'.page = tab.page /\ tab'.user = tab.user /\ tab'.loaded = tab.loaded
      /\ tab'.proven = tab.proven /\ tab'.draft.owner = call[c].to
      /\ tab'.draft.typed = tab.draft.typed
      /\ \A s \in Slots : call'[s] \in {call[s], FreeCall}
  BY RegisteredStep
<1>2. FreeCall.op = "none"
  BY DEF FreeCall
<1>3. Generated' /\ HolderActive' /\ SameUser'
  BY <1>1 DEF Generated, HolderActive, SameUser, InFlow
<1>4. AnswersOwn'
  BY <1>1, <1>2 DEF AnswersOwn, Own
<1>5. Proving' => Proving
  BY <1>1, <1>2 DEF Proving, Waiting
<1>6. ProvingIsOwn'
  BY <1>1, <1>2, <1>5 DEF ProvingIsOwn, Own
<1>7. ProvenIsOwn'
  BY <1>1 DEF ProvenIsOwn, ProvingIsOwn, Proving, Own
<1>8. Matched'
  BY <1>1, RegisteredStep DEF Matched, Mismatch, SignedIn, Idle
<1> QED BY <1>3, <1>4, <1>6, <1>7, <1>8

LEMMA VerifiedOwn ==
    ASSUME OnboardingTypeOK, DraftInv, OwnInv, NEW c \in Slots, Verified(c)
    PROVE  OwnInv'
<1> USE DEF OwnInv
<1>1. /\ call[c].op = "verify" /\ call[c].stage = "ok" /\ UNCHANGED <<acct, who>>
      /\ cookie' = call[c].to /\ tab'.user = SessionOf(call[c].to)
      /\ tab'.page = tab.page /\ tab'.proven /\ tab'.due = "arrived"
      /\ tab'.draft.owner = call[c].to /\ tab'.draft.typed = tab.draft.typed
      /\ \A s \in Slots : call'[s] \in {call[s], FreeCall}
  BY VerifiedStep
<1>2. call[c].to = who /\ acct[who].st = "active" /\ who \in People /\ who # NoOne
  BY <1>1 DEF AnswersOwn, OnboardingTypeOK
<1>3. tab'.user.id = who
  BY <1>1, <1>2, SessionId
<1>4. FreeCall.op = "none"
  BY DEF FreeCall
<1>5. Generated' /\ HolderActive'
  BY <1>1, <1>2 DEF Generated, HolderActive, InFlow
<1>6. SameUser'
  BY <1>1, <1>2, <1>3 DEF SameUser
<1>7. AnswersOwn'
  BY <1>1, <1>2, <1>3, <1>4 DEF AnswersOwn, Own
<1>8. Proving
  BY <1>1 DEF Proving, Waiting
<1>9. ProvingIsOwn'
  BY <1>1, <1>4, <1>8 DEF ProvingIsOwn, Own
<1>10. ProvenIsOwn'
  BY <1>1, <1>2, <1>3 DEF ProvenIsOwn, Own
<1>11. Matched'
  BY <1>1 DEF Matched, Idle
<1> QED BY <1>5, <1>6, <1>7, <1>9, <1>10, <1>11

(* What the server does to accounts and session: a code proves its own        *)
(* address, a new password takes the one this page generated.               *)
ServeFacts(c) ==
    /\ cookie' \in {cookie, NoOne}
    /\ \A p \in People :
          /\ \/ acct'[p].st = acct[p].st
             \/ acct[p].st = "none" /\ acct'[p].st = "pending"
             \/ p = who /\ acct'[p].st = "active"
          /\ acct'[p].gen => acct[p].gen \/ (InFlow /\ acct'[p].st = "pending")
    /\ call'[c].stage = "ok" =>
          /\ call[c].op = "verify" => acct'[call[c].to].st = "active"
          /\ call[c].op = "password" =>
                /\ call[c].to \in People /\ call[c].to = cookie
                /\ acct[call[c].to].gen /\ acct'[call[c].to].st = acct[call[c].to].st

LEMMA AccountKeeps ==
    ASSUME OnboardingTypeOK, NEW p, NEW b \in BOOLEAN,
           \/ acct' = acct
           \/ acct' = [acct EXCEPT ![p].code = b]
           \/ acct' = [acct EXCEPT ![p].gen = FALSE]
           \/ acct' = [acct EXCEPT ![p].onboarded = b]
    PROVE  \A q \in People : acct'[q].st = acct[q].st /\ (acct'[q].gen => acct[q].gen)
<1> TAKE q \in People
<1>1. acct[q] \in Accounts
  BY DEF OnboardingTypeOK
<1>2. \/ acct'[q] = acct[q]
      \/ acct'[q] = [acct[q] EXCEPT !.code = b]
      \/ acct'[q] = [acct[q] EXCEPT !.gen = FALSE]
      \/ acct'[q] = [acct[q] EXCEPT !.onboarded = b]
  BY DEF OnboardingTypeOK
<1> QED BY <1>1, <1>2 DEF Accounts

LEMMA ServeOwnFacts ==
    ASSUME OnboardingTypeOK, DraftInv, NEW c \in Slots, Serve(c) \/ Lost(c)
    PROVE  ServeFacts(c)
<1>0. /\ call[c] \in CallRecords /\ call[c].to \in Person /\ who \in People /\ NoOne \notin People
      /\ call \in [Slots -> CallRecords] /\ \A p \in People : acct[p] \in Accounts
  <2>1. call[c] \in CallRecords
    BY DEF OnboardingTypeOK
  <2> QED BY <2>1 DEF OnboardingTypeOK, CallRecords
<1>1. \A stage \in Stages : call' = [call EXCEPT ![c] = Reply(c, stage)] => call'[c].stage = stage
  BY ReplyFields
<1>2. CASE ServeRegister(c)
  <2> DEFINE p == call[c].to
  <2>1. call[c].op = "register" /\ p \in People /\ InFlow /\ cookie' = cookie
    BY <1>0, <1>2 DEF ServeRegister, DraftInv, Addressed, CallsOfPage
  <2>2. CASE acct' = acct
    BY <2>1, <2>2 DEF ServeFacts
  <2>3. CASE acct[p].st = "none"
             /\ acct' = [acct EXCEPT ![p].st = "pending", ![p].gen = call[c].gen]
    <3>1. \A q \in People \ {p} : acct'[q] = acct[q]
      BY <2>3 DEF OnboardingTypeOK
    <3>2. acct'[p].st = "pending"
      <4>1. acct'[p] = [acct[p] EXCEPT !.st = "pending", !.gen = call[c].gen]
        BY <2>1, <2>3 DEF OnboardingTypeOK
      <4> QED BY <1>0, <2>1, <4>1 DEF Accounts
    <3> QED BY <2>1, <2>3, <3>1, <3>2 DEF ServeFacts
  <2> QED BY <1>2, <2>2, <2>3 DEF ServeRegister
<1>3. CASE ServeMail(c)
  <2>1. call[c].op \notin {"verify", "password"} /\ cookie' = cookie
    BY <1>3 DEF ServeMail
  <2>2. \A q \in People : acct'[q].st = acct[q].st /\ (acct'[q].gen => acct[q].gen)
    BY <1>3, AccountKeeps DEF ServeMail
  <2> QED BY <2>1, <2>2 DEF ServeFacts
<1>4. CASE ServeVerify(c)
  <2>1. call[c].op = "verify" /\ call[c].to = who /\ cookie' = cookie
    BY <1>4 DEF ServeVerify, DraftInv, Addressed
  <2>2. CASE acct' = [acct EXCEPT ![who].code = FALSE, ![who].st = "active"]
    <3>1. \A q \in People \ {who} : acct'[q] = acct[q]
      BY <2>2 DEF OnboardingTypeOK
    <3>2. acct'[who].st = "active" /\ acct'[who].gen = acct[who].gen
      <4>1. acct'[who] = [acct[who] EXCEPT !.code = FALSE, !.st = "active"]
        BY <1>0, <2>2 DEF OnboardingTypeOK
      <4> QED BY <1>0, <4>1 DEF Accounts
    <3> QED BY <2>1, <3>1, <3>2 DEF ServeFacts
  <2>3. CASE acct' = acct /\ call' = [call EXCEPT ![c] = Reply(c, "denied")]
    <3>1. call'[c].stage # "ok"
      BY <1>1, <2>3 DEF Stages
    <3> QED BY <2>1, <2>3, <3>1 DEF ServeFacts
  <2> QED BY <1>4, <2>1, <2>2, <2>3 DEF ServeVerify
<1>5. CASE ServeRole(c)
  BY <1>5 DEF ServeRole, ServeFacts
<1>6. CASE ServePassword(c)
  <2> DEFINE p == call[c].to
  <2>1. call[c].op = "password"
    BY <1>6 DEF ServePassword
  <2>2. CASE /\ Authorized(c) /\ acct[p].gen
             /\ acct' = [acct EXCEPT ![p].gen = FALSE] /\ cookie' = NoOne
    <3>1. \A q \in People : acct'[q].st = acct[q].st /\ (acct'[q].gen => acct[q].gen)
      BY <2>2, AccountKeeps
    <3>2. p \in People /\ p = cookie
      BY <1>0, <2>2 DEF Authorized
    <3> QED BY <2>1, <2>2, <3>1, <3>2 DEF ServeFacts
  <2>3. CASE /\ UNCHANGED <<acct, cookie>>
             /\ call' = [call EXCEPT ![c] = Reply(c, IF Authorized(c) THEN "failed" ELSE "denied")]
    <3>1. call'[c].stage # "ok"
      BY <1>1, <2>3 DEF Stages
    <3> QED BY <2>1, <2>3, <3>1 DEF ServeFacts
  <2> QED BY <1>6, <2>2, <2>3 DEF ServePassword
<1>7. CASE ServeFinish(c)
  <2>1. call[c].op \notin {"verify", "password"} /\ cookie' = cookie
    BY <1>7 DEF ServeFinish
  <2>2. \A q \in People : acct'[q].st = acct[q].st /\ (acct'[q].gen => acct[q].gen)
    BY <1>7, AccountKeeps DEF ServeFinish
  <2> QED BY <2>1, <2>2 DEF ServeFacts
<1>8. CASE Lost(c)
  <2>1. call'[c].stage # "ok" /\ UNCHANGED <<acct, cookie>>
    BY <1>1, <1>8 DEF Lost, Stages
  <2> QED BY <2>1 DEF ServeFacts
<1> QED BY <1>2, <1>3, <1>4, <1>5, <1>6, <1>7, <1>8 DEF Serve

LEMMA ServeOwn ==
    ASSUME OnboardingTypeOK, DraftInv, OwnInv, NEW c \in Slots, Serve(c) \/ Lost(c)
    PROVE  OwnInv'
<1> USE DEF OwnInv
<1>1. Quiet /\ ServeFacts(c) /\ \A s \in Slots \ {c} : call'[s].stage = call[s].stage
  BY ServeQuiet, ServeOwnFacts
<1>2. who \in People /\ who' = who /\ cookie \in Person
  BY <1>1 DEF OnboardingTypeOK, Quiet
<1>3. Generated'
  BY <1>1, <1>2 DEF Generated, ServeFacts, Quiet, InFlow
<1>4. HolderActive'
  BY <1>1, <1>2 DEF HolderActive, ServeFacts
<1>5. SameUser'
  BY <1>1, <1>2 DEF SameUser, ServeFacts, Quiet
<1>6. AnswersOwn'
  <2> SUFFICES ASSUME NEW s \in Slots, call'[s].stage = "ok", call'[s].op \in {"verify", "password"}
               PROVE  /\ call'[s].to = who /\ acct'[who].st = "active"
                      /\ call'[s].op = "password" => {cookie', tab'.user.id} \subseteq Own
    BY <1>2 DEF AnswersOwn, Own
  <2>0. call'[s].op = call[s].op /\ call'[s].to = call[s].to /\ tab'.user = tab.user
    BY <1>1 DEF Quiet
  <2>1. CASE s # c
    <3>1. call[s].to = who /\ acct[who].st = "active"
          /\ (call[s].op = "password" => {cookie, tab.user.id} \subseteq Own)
      BY <1>1, <2>0, <2>1 DEF AnswersOwn
    <3> QED BY <1>1, <1>2, <2>0, <3>1 DEF ServeFacts, Own
  <2>2. CASE s = c /\ call[c].op = "verify"
    BY <1>1, <2>0, <2>2 DEF ServeFacts, DraftInv, Addressed
  <2>3. CASE s = c /\ call[c].op = "password"
    <3>1. /\ call[c].to \in People /\ call[c].to = cookie /\ acct[cookie].gen
          /\ acct'[cookie].st = acct[cookie].st
      BY <1>1, <2>3 DEF ServeFacts
    <3>2. acct[cookie].st = "active" /\ cookie = who
      BY <3>1 DEF HolderActive, Generated
    <3>3. tab.user.id \in Own
      <4>1. tab.user.id \in Person
        BY DEF OnboardingTypeOK, TabRecords, Users
      <4> QED BY <1>2, <3>2, <4>1 DEF SameUser, Own
    <3> QED BY <1>1, <2>0, <2>3, <3>1, <3>2, <3>3 DEF ServeFacts, Own
  <2> QED BY <2>0, <2>1, <2>2, <2>3
<1>7. ProvingIsOwn' /\ ProvenIsOwn'
  BY <1>1 DEF Quiet, ServeFacts, ProvingIsOwn, ProvenIsOwn, Proving, Waiting, Own
<1>8. Matched'
  BY <1>1 DEF Quiet, Matched, Mismatch, SignedIn, InFlow, Idle
<1> QED BY <1>3, <1>4, <1>5, <1>6, <1>7, <1>8

LEMMA ExpiresOwn ==
    ASSUME OnboardingTypeOK, OwnInv, NEW p \in People, CodeExpires(p)
    PROVE  OwnInv'
<1>1. UNCHANGED <<cookie, who, tab, call>>
  BY DEF CodeExpires
<1>2. \A q \in People : acct'[q].st = acct[q].st /\ (acct'[q].gen => acct[q].gen)
  BY AccountKeeps DEF CodeExpires
<1>3. Generated' /\ HolderActive' /\ SameUser' /\ AnswersOwn'
  BY <1>1, <1>2 DEF OwnInv, Generated, HolderActive, SameUser, AnswersOwn, Own, InFlow, OnboardingTypeOK
<1>4. ProvingIsOwn' /\ ProvenIsOwn' /\ Matched'
  BY <1>1 DEF OwnInv, ProvingIsOwn, ProvenIsOwn, Matched, Proving, Waiting, Own, Mismatch, SignedIn,
              InFlow, Idle
<1> QED BY <1>3, <1>4 DEF OwnInv

LEMMA OwnInit == Init => OwnInv
<1> SUFFICES ASSUME Init PROVE OwnInv
  OBVIOUS
<1>1. /\ tab = Closed /\ Closed.page = "away" /\ ~Closed.proven /\ Closed.user = NoUser
      /\ NoUser.id = NoOne /\ call = NoCalls /\ cookie = NoOne
  BY DEF Init, Closed, NoUser, NoCalls
<1>2. \A p \in People : ~acct[p].gen
  BY DEF Init, NoAccount
<1> QED BY <1>1, <1>2, NoCallsFree
        DEF OwnInv, Generated, HolderActive, SameUser, AnswersOwn, ProvingIsOwn, ProvenIsOwn, Matched,
            Proving, Waiting, InFlow

LEMMA OwnNext ==
    ASSUME "verify" \notin Overlap, OnboardingTypeOK, DraftInv, OwnInv, [Next]_vars
    PROVE  OwnInv'
<1>1. CASE UNCHANGED vars
  BY <1>1 DEF vars, OwnInv, Generated, HolderActive, SameUser, AnswersOwn, ProvingIsOwn, ProvenIsOwn,
              Matched, Proving, Waiting, Own, Mismatch, SignedIn, InFlow, Idle
<1>2. CASE Page
  BY <1>2, EffectsOwn, OutsideOwn DEF Page
<1>3. CASE Browser
  BY <1>3, OutsideOwn
<1>4. CASE User
  BY <1>4, UserSteady, SteadyOwn, PartsOwn
<1>5. CASE ReadSession \/ ReadFails \/ Expire
  BY <1>5, SessionOwn
<1>6. ASSUME NEW c \in Slots, Hear(c)
      PROVE  OwnInv'
  BY <1>6, RegisteredOwn, VerifiedOwn, HearSteady, SteadyOwn, PartsOwn
<1>7. ASSUME NEW c \in Slots, Serve(c) \/ Lost(c)
      PROVE  OwnInv'
  BY <1>7, ServeOwn
<1>8. ASSUME NEW p \in People, CodeExpires(p)
      PROVE  OwnInv'
  BY <1>8, ExpiresOwn
<1> QED BY <1>1, <1>2, <1>3, <1>4, <1>5, <1>6, <1>7, <1>8 DEF Next

LEMMA OwnDraft == ASSUME OnboardingTypeOK, DraftInv, OwnInv PROVE OwnDraftOnly
<1> SUFFICES ASSUME NEW c \in Slots, call[c].stage = "profile", Authorized(c),
                    tab.loaded, SignedIn, Idle
             PROVE  tab.draft.owner \in {NoOne, call[c].to}
  BY DEF OwnDraftOnly
<1>1. InFlow
  BY DEF DraftInv, ProfileOfFinish, CallsOfPage
<1>2. call[c].to = cookie /\ cookie \in People
  BY DEF Authorized, OnboardingTypeOK
<1>3. tab.user.id \in People
  BY DEF OwnInv, SameUser, SignedIn, OnboardingTypeOK, TabRecords, Users
<1>4. tab.user.id = cookie
  BY <1>2, <1>3 DEF OwnInv, SameUser
<1>5. CASE tab.proven
  BY <1>2, <1>5 DEF OwnInv, ProvenIsOwn, Own
<1>6. CASE ~tab.proven
  BY <1>1, <1>2, <1>4, <1>6 DEF OwnInv, Matched, Mismatch
<1> QED BY <1>5, <1>6

(* What an account is given at the end does not come from the draft of        *)
(* another one, whoever used the browser before and left off where, as long  *)
(* as a code is verified only while no other request is under way.           *)
THEOREM OnboardingOwnDraft ==
    ASSUME "verify" \notin Overlap
    PROVE  Spec => []OwnDraftOnly
<1>1. OnboardingTypeOK /\ DraftInv /\ OwnInv /\ [Next]_vars => OwnInv'
  BY OwnNext
<1>2. OnboardingTypeOK /\ DraftInv /\ OwnInv => OwnDraftOnly
  BY OwnDraft
<1> QED BY <1>1, <1>2, OwnInit, OnboardingTyped, OnboardingDraft, PTL DEF Spec
=============================================================================
