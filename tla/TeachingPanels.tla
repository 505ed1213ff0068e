---------------------------- MODULE TeachingPanels ----------------------------
(* The pages of tutors, and of the learners of a cohort.                     *)
EXTENDS PanelRows

(* tutor dashboard.  No view shows a request to join, whose button can be    *)
(* pressed again; new bank details invalidate a key that no query has, and  *)
(* the profile they are shown from stays as it is.                          *)
JoinCohort == Request
JoinCohortButton == Guarded(JoinCohort, {"published cohorts"})
AddSlot == Changing({"availability"})
AddSlotForm == Guarded(AddSlot, {})
RemoveSlot == Changing({"availability"})
RemoveSlotButton == Unguarded(RemoveSlot, {"availability"})
SaveBank == Forgetting(Request, {"profile"})
SaveBankForm == Guarded(SaveBank, {"profile"})
TutorOverview == {"profile", "lessons", "availability", "earnings"}
TutorApplication == {"profile"}
TutorToday == {"lessons"}
TutorCourses == {"teaching cohorts"}
TutorWeek == {"availability"}
TutorLessons == {"lessons"}
TutorPayouts == {"earnings"}
TutorProfile == {"profile"}
TutorSections ==
    UNION {TutorOverview, TutorApplication, TutorToday, TutorCourses, TutorWeek,
           TutorLessons, TutorPayouts, TutorProfile}
(* The attendance of the first lesson is fetched and shown nowhere; the       *)
(* published cohorts are shown by the button to join one.                   *)
TutorDashboard ==
    Panel(TutorSections \union {"attendance"} \union JoinCohortButton.gate,
          [join |-> JoinCohortButton, add |-> AddSlotForm, remove |-> RemoveSlotButton,
           bank |-> SaveBankForm])

(* one cohort, for its tutor                                                *)
CreateQuiz == Changing({"quizzes"})
CreateQuizForm == Guarded(CreateQuiz, {})
CreateAssignment == Changing({"assignments"})
CreateAssignmentForm == Guarded(CreateAssignment, {})
CreateResource == Changing({"resources"})
CreateResourceForm == Guarded(CreateResource, {})
Mark == Changing({"attendance"})
MarkButton == Guarded(Mark, {"attendance"})
GradeIt == Changing({"submissions"})
GradeItButton == Guarded(GradeIt, {"submissions"})
(* No view of the page shows a report.                                      *)
CreateReport == Request
CreateReportForm == Guarded(CreateReport, {"roster"})
MoveLesson == Changing({"lessons"})
MoveLessonForm == Guarded(MoveLesson, {"lessons"})
CancelLesson == Changing({"lessons"})
CancelLessonButton == Guarded(CancelLesson, {"lessons"})
SaveTranscript == Changing({"lessons"})
TranscriptForm == Guarded(SaveTranscript, {"lessons"})
TutorCohort ==
    Panel({"subjects", "roster", "resources", "lessons", "assignments", "quizzes",
           "attendance", "submissions"},
          [quiz |-> CreateQuizForm, assignment |-> CreateAssignmentForm,
           resource |-> CreateResourceForm, mark |-> MarkButton, grade |-> GradeItButton,
           report |-> CreateReportForm, move |-> MoveLessonForm,
           cancel |-> CancelLessonButton, transcript |-> TranscriptForm])

(* The gradebook invalidates the submissions of the assignment that is       *)
(* selected when the answer comes.                                          *)
Grade == Keyed(Request)
GradeButton == Guarded(Grade, {})
TutorGradebook ==
    [Panel({"cohorts", "assignments", "submissions a", "submissions b"},
           [grade |-> GradeButton])
     EXCEPT !.family = {"submissions a", "submissions b"}]

ReleaseReport == Changing({"reports"})
ReleaseReportForm == Guarded(ReleaseReport, {})
TutorProgressReports == Panel({"reports"}, [create |-> ReleaseReportForm])

(* papers of a tutor: the attempts of one are fetched under the same prefix. *)
SavePaper == Changing({"papers"})
PaperEditor == Guarded(SavePaper, {})
DeletePaper == Changing({"papers"})
DeletePaperButton == Unguarded(DeletePaper, {"papers"})
ExamAuthoring ==
    Panel({"papers", "attempts"}, [save |-> PaperEditor, delete |-> DeletePaperButton])

(* one cohort, for a learner: a quiz that is begun is kept by the page        *)
StartQuiz == Request
StartQuizButtons == Guarded(StartQuiz, {"quizzes"})
GradeQuiz == Changing({"quizzes"})
QuizDialog == Guarded(GradeQuiz, {"quizzes"})
SubmitAssignment == Changing({"assignments"})
SubmitAssignmentForm == Guarded(SubmitAssignment, {"assignments"})
AddNote == Changing({"notes"})
AddNoteForm == Guarded(AddNote, {})
StudentCourse ==
    Panel({"cohort", "lessons", "assignments", "quizzes", "resources", "notes",
           "attendance", "reports"},
          [start |-> StartQuizButtons, quiz |-> QuizDialog, submit |-> SubmitAssignmentForm,
           note |-> AddNoteForm])

(* quizzes of a student                                                     *)
StartAssessment == Changing({"assessments"})
StartButton == Guarded(StartAssessment, {"assessments"})
SubmitAssessment == Changing({"assessments"})
SubmitButton == Guarded(SubmitAssessment, {"assessments"})
StudentQuizzes == Panel({"assessments", "reports"},
                        [start |-> StartButton, submit |-> SubmitButton])

(* student dashboard: the rating of a lesson is thanked for before it is     *)
(* sent, and asked for once.                                                *)
Rate == Request
RateButtons == Guarded(Rate, {"lessons"})
(* The figures of the student are computed from six views at once.           *)
StudentHero == {"lessons"}
StudentChecklist == {"lessons"}
StudentUpcoming == {"lessons"}
StudentFigures == {"lessons", "progress", "attendance", "assignments", "submissions",
                   "certificates"}
StudentCourses == {"lessons", "progress"}
StudentAchievements == StudentFigures
StudentWidgets == {"lessons", "progress", "gradebook", "review queue", "leaderboard"}
StudentSnapshot == {"lessons", "attendance", "assignments", "submissions"}
StudentDashboard ==
    Panel(UNION {StudentHero, StudentChecklist, StudentUpcoming, StudentFigures,
                 StudentCourses, StudentAchievements, StudentWidgets, StudentSnapshot},
          [rate |-> RateButtons])

(* The homes of the learning pages only read: of a learner, and of a tutor.  *)
(* The titles of a learner's cohorts are kept by the page, not the cache;    *)
(* those of a tutor's are fetched once the lessons are.                     *)
LmsFigures == {"lessons", "attendance", "assignments", "submissions", "quizzes"}
LmsCourses == {"lessons"}
LmsAssignments == {"assignments", "submissions"}
LmsExams == {"quizzes"}
LmsReports == {"reports"}
LmsHome ==
    Panel(UNION {LmsFigures, LmsCourses, LmsAssignments, LmsExams, LmsReports}, <<>>)

LmsTutorFigures == {"lessons", "pending grading"}
LmsTutorCohorts == {"lessons", "cohort titles"}
LmsTutorEarnings == {"earnings"}
LmsTutorHome ==
    Panel(UNION {LmsTutorFigures, LmsTutorCohorts, LmsTutorEarnings}, <<>>)

TeachingPages == {StudentDashboard, TutorDashboard, TutorCohort, TutorGradebook,
                  TutorProgressReports, ExamAuthoring, StudentCourse, StudentQuizzes,
                  LmsHome, LmsTutorHome}
=============================================================================
