---------------------------- MODULE PhoneLearner -----------------------------
(* The phone's main screens, which show each role its own links, and the     *)
(* screens for students and parents.                                         *)
EXTENDS PhoneRows

Learners == {"student", "parent", "admin"}

(* home                                                                     *)
HomeHeader == To({"notifications"}) \union For({"admin"}, {"admin"})
ToRegister == For({"guest"}, {"login", "register"})  \* mutant
HomeGuest == For({"guest"}, {"login", "onboarding"})
HomeTutorNext == For({"tutor"}, {"tutor/schedule", "tutor/exams/new"})
HomeLearnerNext == For(Learners, {"lms", "subjects", "practice"})
HomeMetrics == For({"tutor"}, {"tutor/schedule", "tutor/exams", "tutor/earnings"})
               \union For(Learners, {"lms", "practice"})
HomeActions == For({"tutor"}, {"tutor/exams/new", "tutor/schedule", "tutor/messages",
                               "tutor/earnings", "tutor/exams"})
               \union For(Learners, {"practice", "lms", "messages"})
               \union For({"parent"}, {"search", "progress"})
               \union For({"student", "admin"}, {"search", "saved"})
HomeExplore == For({"guest"}, {"subjects", "exam-prep", "search", "become-tutor"})
               \union For({"tutor"}, {"tutor/availability", "tutor/schedule"})
HomeActivity == For(Learners, {"practice", "subjects", "lms"})
HomeMore == For(SignedIn, {"quizzes", "progress", "subjects", "exam-prep", "chat",
                           "my-lessons", "saved", "account"})
Home == Scoped(IfSignedIn(Loads("home", "clear", {},
            UNION {HomeHeader, HomeGuest, HomeTutorNext, HomeLearnerNext, HomeMetrics,
                   HomeActions, HomeExplore, HomeActivity, HomeMore, TabBar})))

(* lms                                                                      *)
LmsHero == For({"tutor"}, {"tutor/exams/new", "tutor/schedule"})
           \union For(Viewers \ {"tutor"}, {"lms", "subjects", "practice"})
LmsActions == For({"tutor"}, {"tutor/schedule", "lms", "tutor/exams", "tutor/exams/new",
                              "tutor/messages", "tutor/earnings"})
              \union For(Viewers \ {"tutor"}, {"lms", "practice", "quizzes", "progress",
                                               "messages", "search"})
LmsEmpty == For({"tutor"}, {"tutor/exams"}) \union For(Viewers \ {"tutor"}, {"home", "practice"})
LmsCourses == To({"lms/[cohortId]"})
Lms == Scoped(Loads("lms", "error", {}, UNION {LmsHero, LmsActions, LmsEmpty, LmsCourses, TabBar}))

(* lms/[cohortId]: read once.                                               *)
SubmitWork == Request
CourseVideo == {}
CourseControls == {Busy(SubmitWork)}
Course == OnMount(Loads("lms/[cohortId]", "keep", CourseControls, CourseVideo))

(* messages: the thread is put on the screen before it is sent, and fetched  *)
(* again by the answer; a lost network shows what the phone has stored.      *)
InboxLinks == To({"messages/[conversationId]"})
Inbox == Live(Loads("messages", "stored", {}, InboxLinks))
SendMessage == [BusyUntilReloaded(Reloads) EXCEPT !.optimistic = TRUE, !.swallows = TRUE]
ThreadControls == {SendMessage}
Thread == Live(Loads("messages/[conversationId]", "stored", ThreadControls, {}))

(* notifications: a tap marks and then opens what the notification is about. *)
MarkRead == [SetsList EXCEPT !.swallows = TRUE]
MarkAllRead == [SetsList EXCEPT !.swallows = TRUE]
DeepLinks == To({"messages/[conversationId]", "messages", "lms/[cohortId]", "lms",
                 "my-lessons", "orders/[orderId]", "payments", "notifications"})
NotificationRows == {MarkRead, MarkAllRead}
Notifications == Live(Loads("notifications", "stored", NotificationRows, DeepLinks))

(* learners, devices, edit-profile, referrals                               *)
AddLearner == BusyUntilReloaded(Reloads)
LearnersForm == {AddLearner}
LearnerList == Loads("learners", "clear", LearnersForm, {})
RemoveDevice == Reloads
DeviceRows == {RemoveDevice}
Devices == Loads("devices", "clear", DeviceRows, {})
SaveProfile == Busy(Request)
DeleteAccount == Leaves
ProfileForm == {SaveProfile, DeleteAccount}
EditProfile == Loads("edit-profile", "clear", ProfileForm, {})
ApplyCode == Busy(Request)
ReferralForm == {ApplyCode}
Referrals == Loads("referrals", "clear", ReferralForm, {})

(* account, payments and receipts                                           *)
AccountMenu == To({"edit-profile", "learners", "my-lessons", "referrals", "payments",
                   "notifications", "devices", "privacy", "contact", "help"})
AccountScreen == Loads("account", "clear", {}, AccountMenu \union TabBar)
PaymentLinks == To({"orders/[orderId]"})
Payments == Loads("payments", "clear", {}, PaymentLinks)
ReceiptLinks == {}
Receipt == Loads("orders/[orderId]", "clear", {}, ReceiptLinks)

(* Lessons and progress of the learner that is selected.                     *)
MyLessonsRow == To({"lesson-notes/[lessonId]"})
MyLessonsLinks == To({"lms", "subjects", "practice"}) \union For({"tutor"}, {"tutor/availability"})
MyLessons == Scoped(Loads("my-lessons", "error", {}, MyLessonsRow \union MyLessonsLinks))
LessonNotesLinks == {}
LessonNotes == Loads("lesson-notes/[lessonId]", "clear", {}, LessonNotesLinks)
ProgressLinks == To({"my-lessons", "practice"})
Progress == Scoped(Loads("progress", "clear", {}, ProgressLinks))
WatchedLinks == {}
LearningProgress == Scoped(Loads("learning-progress", "clear", {}, WatchedLinks))

(* practice and quizzes; the players are apart.                              *)
PracticeLinks == To({"practice/[examId]"})
Practice == Loads("practice", "clear", {}, PracticeLinks)
PracticePlayer == Instead(Static("practice/[examId]", {}), {"practice"})
QuizListLinks == To({"quizzes/[assessmentId]"})
Quizzes == Loads("quizzes", "error", {}, QuizListLinks \union TabBar)
StartQuiz == Request
SubmitQuiz == Request
QuizControls == {StartQuiz, SubmitQuiz}
Quiz == [Static("quizzes/[assessmentId]", {}) EXCEPT !.ops = QuizControls]
SendChat == Busy(Request)
ChatControls == {SendChat}
Chat == [Static("chat", {}) EXCEPT !.ops = ChatControls]

LearnerScreens ==
    {Home, Lms, Course, Inbox, Thread, Notifications, LearnerList, Devices, EditProfile,
     Referrals, AccountScreen, Payments, Receipt, MyLessons, LessonNotes, Progress,
     LearningProgress, Practice, PracticePlayer, Quizzes, Quiz, Chat}
=============================================================================
