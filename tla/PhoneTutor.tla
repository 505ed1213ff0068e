----------------------------- MODULE PhoneTutor ------------------------------
(* The phone's screens for tutors and for the platform's admins.             *)
EXTENDS PhoneRows

(* tutor: every part of the hub is asked for by itself and empty if it fails.*)
HubHeaderLinks == To({"tutor/schedule", "tutor/exams/new"})
HubMetricLinks == To({"tutor/schedule", "tutor/exams", "tutor/earnings",
                      "tutor/exams/new", "tutor/messages", "tutor/availability"})
HubMenuLinks == To({"tutor/schedule", "tutor/messages", "tutor/exams",
                    "tutor/availability", "tutor/profile", "tutor/earnings"})
TutorHub == Loads("tutor", "clear", {}, HubHeaderLinks \union HubMetricLinks
                                         \union HubMenuLinks \union TabBar)

(* tutor/availability                                                       *)
AddWindow == Reloads
RemoveWindow == Reloads
AvailabilityControls == {BusyUntilReloaded(AddWindow), RemoveWindow}
Availability == Loads("tutor/availability", "clear", AvailabilityControls, {})

(* tutor/lessons: a lesson is moved or cancelled from its row.               *)
MoveLesson == BusyUntilReloaded(Reloads)
CancelLesson == BusyUntilReloaded(Reloads)
LessonRowControls == {MoveLesson, CancelLesson}
TutorLessons == Loads("tutor/lessons", "clear", LessonRowControls, {})

(* tutor/schedule and tutor/earnings                                        *)
ScheduleLinks == To({"tutor/availability", "tutor/exams/new"})
Schedule == Loads("tutor/schedule", "clear", {}, ScheduleLinks)
EarningsLinks == To({"tutor/bank"})
Earnings == Loads("tutor/earnings", "clear", {}, EarningsLinks)

(* tutor/bank: saving reads nothing again.                                   *)
ResolveName == Request
SaveBank == Busy(Request)
BankControls == {ResolveName, SaveBank}
BankDetails == Cancels(Loads("tutor/bank", "keep", BankControls, {}))

(* tutor/exams: the paper is removed, then the list is fetched.              *)
RemoveExam == Reloads
ExamListLinks == To({"tutor/exams/new", "tutor/exams/[examId]"})
ExamListControls == {RemoveExam}
TutorExams == Loads("tutor/exams", "error", ExamListControls, ExamListLinks)
SaveExam == Busy(Leaves)
NewExamControls == {SaveExam}
NewExam == Instead([Static("tutor/exams/new", {}) EXCEPT !.ops = NewExamControls], {"tutor/exams"})
ExamResultsLinks == {}
ExamResults == Loads("tutor/exams/[examId]", "error", {}, ExamResultsLinks)

(* tutor/messages: not polled; the answer is fetched with the thread.        *)
TutorInboxLinks == To({"tutor/messages/[conversationId]"})
TutorInbox == Loads("tutor/messages", "clear", {}, TutorInboxLinks)
SendAsTutor == BusyUntilReloaded(Reloads)
TutorThreadControls == {SendAsTutor}
TutorThread == Loads("tutor/messages/[conversationId]", "clear", TutorThreadControls, {})
TutorProfileLinks == {}
TutorProfile == Loads("tutor/profile", "clear", {}, TutorProfileLinks)

(* admin                                                                    *)
SendTestMail == Busy(Request)
AttentionLinks == To({"admin"})
AdminControls == {SendTestMail}
AdminConsole == Loads("admin", "error", AdminControls, AttentionLinks)

TutorScreens ==
    {TutorHub, Availability, TutorLessons, Schedule, Earnings, BankDetails, TutorExams,
     NewExam, ExamResults, TutorInbox, TutorThread, TutorProfile, AdminConsole}
=============================================================================
