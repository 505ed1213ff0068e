----------------------------- MODULE PhonePublic -----------------------------
(* The phone's screens for signing in and for looking around.                *)
EXTENDS PhoneRows

(* index, the carousel, login and the account's mail links.                  *)
Carousel == {"login"}
Welcome == Instead(Cancels(IfSignedIn(Loads("index", "keep", {}, {}))), Carousel)
LoginLinks == To({"forgot-password"})
Login == Static("login", LoginLinks)
OnboardingDone == {"home"}
OnboardingScreen == Instead(Static("onboarding", {}), OnboardingDone)
ForgotLinks == {"login"}
RequestReset == Busy(Request)
Forgot == Instead([Static("forgot-password", {}) EXCEPT !.ops = {RequestReset}], ForgotLinks)
ConfirmReset == Busy(Leaves)
Reset == Instead([Static("reset-password", {}) EXCEPT !.ops = {ConfirmReset}], {"login"})
ConfirmEmail == Busy(Leaves)
ResendEmail == Busy(Request)
VerifyEmail ==
    Instead([Static("verify-email", {}) EXCEPT !.ops = {ConfirmEmail, ResendEmail}], {"login"})

(* The setup wizard of the phone.                                            *)
WizardLinks == To({"wizard/profile"})
Wizard == Cancels(OnMount(Loads("wizard", "keep", {}, WizardLinks)))
WizardProfileLinks == To({"wizard/goals"})
WizardProfile == Instead(Static("wizard/profile", WizardProfileLinks), {"wizard"})
FinishWizard == Busy(Leaves)
WizardGoalsLinks == {"wizard", "wizard/profile"}
WizardGoals == Instead([Static("wizard/goals", {}) EXCEPT !.ops = {FinishWizard}], WizardGoalsLinks)

(* The catalogue: what was fetched last is kept on the phone.                *)
SubjectLinks == To({"subjects/[slug]"})
Subjects == Loads("subjects", "stored", {}, SubjectLinks)
SubjectDetailLinks == To({"search"})
SubjectDetail == Instead(Loads("subjects/[slug]", "stored", {}, SubjectDetailLinks), {"subjects"})
ProgrammeLinks == {"subjects"}
ProgrammeDetail == Instead(Loads("programmes/[slug]", "stored", {}, {}), ProgrammeLinks)
CohortLinks == {}
CohortDetail == Loads("cohorts/[id]", "stored", {}, CohortLinks)
ReviewLinks == {}
TutorReviews == Loads("tutor-reviews/[slug]", "stored", {}, ReviewLinks)
SearchResults == To({"tutors/[slug]"})
Discovery == To({"search", "tutors/[slug]"})
Explore == Loads("search", "stored", {}, SearchResults \union Discovery \union TabBar)
HeartLinks == {}
TutorDetail == Loads("tutors/[slug]", "stored", {}, HeartLinks)
SavedLinks == To({"tutors/[slug]"})
Saved == Static("saved", SavedLinks)
SignInHint == For({"guest"}, {"login"})
Recommendations == IfSignedIn(Loads("recommendations", "error", {}, SignInHint))

(* Pages of text; what they link to is in the browser.                       *)
ExamPrepLinks == To({"exam-prep/[exam]/[subject]", "subjects"})
ExamPrep == Static("exam-prep", ExamPrepLinks)
ExamSubjectLinks == To({"exam-prep/[exam]/[subject]", "subjects/[slug]"})
ExamSubject == Instead(Static("exam-prep/[exam]/[subject]", ExamSubjectLinks), {"exam-prep"})
SendTicket == Busy(Request)
Contact == [Static("contact", {}) EXCEPT !.ops = {SendTicket}]
Help == Static("help", {})
About == Static("about", {})
Privacy == Static("privacy", {})
Terms == Static("terms", {})
Careers == Static("careers", {})
BecomeTutor == Static("become-tutor", {})
Pricing == Static("pricing", {})
Offline == Static("offline", {})

PublicScreens ==
    {Welcome, Login, OnboardingScreen, Forgot, Reset, VerifyEmail,
     Wizard, WizardProfile, WizardGoals,
     Subjects, SubjectDetail, ProgrammeDetail, CohortDetail, TutorReviews, Explore,
     TutorDetail, Saved, Recommendations,
     ExamPrep, ExamSubject, Contact, Help, About, Privacy, Terms, Careers, BecomeTutor,
     Pricing, Offline}
=============================================================================
