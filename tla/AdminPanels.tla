----------------------------- MODULE AdminPanels -----------------------------
(* The pages of client/app/admin.  A list is one view whichever filter, page *)
(* or member of it is chosen: the invalidations name the prefix of its key. *)
(* A request is followed by the control that sends it.                      *)
EXTENDS PanelRows

(* cohorts                                                                  *)
ReviewJoin == Changing({"joins", "cohorts"})
ReviewJoinButtons == Guarded(ReviewJoin, {"joins"})
SetCohortStatus == Changing({"cohorts"})
CohortStatusButtons == Unguarded(SetCohortStatus, {"cohorts"})
AssignTutor == Changing({"cohorts"})
AssignTutorButton == Guarded(AssignTutor, {"cohorts"})
(* The cohort may be made and the upload of its banner fail: an error to the *)
(* form, which can be sent again, and a cohort that nobody fetches.         *)
CreateCohort == Changing({"cohorts"})
CreateCohortButton == Guarded(CreateCohort, {"programmes"})
EditCohort == Changing({"cohorts"})
EditCohortDialog == Guarded(EditCohort, {"cohorts"})
AdminCohorts ==
    [Panel({"cohorts", "approved tutors", "pending", "joins", "programmes"},
           [review |-> ReviewJoinButtons, status |-> CohortStatusButtons,
            assign |-> AssignTutorButton, create |-> CreateCohortButton,
            edit |-> EditCohortDialog])
     EXCEPT !.polled = {"pending"}]

(* users: one busy flag for both requests of a row; the detail dialog keeps  *)
(* what it has.                                                             *)
SetRole == Forgetting(Changing({"users", "stats"}), {"user detail"})
SetStatus == Forgetting(Changing({"users", "stats"}), {"user detail"})
UserRowButtons(request) == Guarded(request, {"users"})
AdminUsers == Panel({"users", "roles", "stats", "user detail"},
                    [role |-> UserRowButtons(SetRole), status |-> UserRowButtons(SetStatus)])

(* chat: the reply refetches the threads that were open; the times of the    *)
(* thread list do not follow; Enter sends a reply twice.                    *)
Reply == Forgetting(Changing({"messages"}), {"threads"})
ReplyField == Unguarded(Reply, {"threads"})
CloseThread == [Changing({"threads", "analytics"}) EXCEPT !.refetches = @ \union {"trends", "messages"}]
CloseThreadButton == Guarded(CloseThread, {"threads"})
AdminChat == Panel({"threads", "analytics", "trends", "messages"},
                   [reply |-> ReplyField, close |-> CloseThreadButton])

(* vetting: the dossier of one applicant, and the queue.                     *)
Act == Changing({"queue", "profile"})
ActButtons == Guarded(Act, {"profile"})
PublishTutor == Changing({"queue", "profile"})
PublishTutorButton == Guarded(PublishTutor, {"profile"})
ReviewDocument == Changing({"queue", "profile"})
ReviewDocumentButtons == Guarded(ReviewDocument, {"profile"})
AdminVetting ==
    Panel({"queue", "profile"},
          [act |-> ActButtons, publish |-> PublishTutorButton,
           document |-> ReviewDocumentButtons])

(* programmes                                                               *)
SetProgrammeStatus == Changing({"programmes"})
ProgrammeStatusButtons == Unguarded(SetProgrammeStatus, {"programmes"})
CreateProgramme == Changing({"programmes"})
CreateProgrammeForm == Guarded(CreateProgramme, {})
EditProgramme == Changing({"programmes"})
EditProgrammeForm == Guarded(EditProgramme, {"programmes"})
AdminProgrammes ==
    Panel({"programmes"}, [status |-> ProgrammeStatusButtons, create |-> CreateProgrammeForm,
                           edit |-> EditProgrammeForm])

(* tutors                                                                   *)
TogglePublic == Changing({"tutors"})
TogglePublicButton == Unguarded(TogglePublic, {"tutors"})
CreateTutor == Changing({"tutors"})
CreateTutorForm == Guarded(CreateTutor, {})
AdminTutors == Panel({"tutors", "subjects"},
                     [toggle |-> TogglePublicButton, create |-> CreateTutorForm])

(* blog                                                                     *)
SetPostStatus == Settling(Changing({"posts"}))
PostStatusButtons == Guarded(SetPostStatus, {"posts"})
CreatePost == Changing({"posts"})
CreatePostForm == Guarded(CreatePost, {})
AdminBlog == Panel({"posts"}, [status |-> PostStatusButtons, create |-> CreatePostForm])

(* payments                                                                 *)
ConfirmPayment == Changing({"orders", "payouts"})
ConfirmPaymentButton == Guarded(ConfirmPayment, {"orders"})
Refund == Changing({"orders", "payouts"})
RefundDialog == Guarded(Refund, {"orders"})
AdminPayments == Panel({"orders", "payouts"},
                       [confirm |-> ConfirmPaymentButton, refund |-> RefundDialog])

(* institutions: the dialog works on a copy of the row it was opened from.   *)
UpdateInstitution == Changing({"institutions"})
SetActive == Changing({"institutions"})
SetVerified == Changing({"institutions"})
InstitutionButtons(request) == Guarded(request, {"institutions"})
AdminInstitutions ==
    Panel({"institutions"}, [update |-> InstitutionButtons(UpdateInstitution),
                             active |-> InstitutionButtons(SetActive),
                             verified |-> InstitutionButtons(SetVerified)])

(* library: the two toggles of a row can be pressed while it saves.          *)
UpdateMeta == Changing({"library"})
LibraryRow == Unguarded(UpdateMeta, {"library"})
AdminLibrary == Panel({"library"}, [update |-> LibraryRow])

(* admissions                                                               *)
SetAdmissionStatus == Changing({"queue"})
AdmissionButtons == Unguarded(SetAdmissionStatus, {"queue"})
Offer == Changing({"queue"})
OfferDialog == Guarded(Offer, {"queue"})
AdminAdmissions == Panel({"queue", "documents"},
                         [status |-> AdmissionButtons, offer |-> OfferDialog])

(* private tuition                                                          *)
Match == Changing({"requests"})
MatchButton == Guarded(Match, {"requests", "tutors"})
AdminPrivateTuition == Panel({"requests", "tutors", "subjects"}, [match |-> MatchButton])

(* reviews                                                                  *)
Moderate == Settling(Changing({"reviews"}))
ModerateButtons == Guarded(Moderate, {"reviews"})
AdminReviews == Panel({"reviews"}, [moderate |-> ModerateButtons])

(* payouts: the busy flag holds one row, so that another row's request frees  *)
(* the first, and confirming has a flag apart from sending.                 *)
ConfirmPayout == Changing({"payouts"})
SendPaystack == Changing({"payouts"})
PayoutButtons(request) == Unguarded(request, {"payouts"})
SendOTP == Changing({"payouts"})
OTPDialog == Guarded(SendOTP, {"payouts"})
AdminPayouts ==
    [Panel({"payouts"}, [confirm |-> PayoutButtons(ConfirmPayout),
                         paystack |-> PayoutButtons(SendPaystack), otp |-> OTPDialog])
     EXCEPT !.polled = {"payouts"}]

(* leads                                                                    *)
SetLead == Changing({"leads"})
LeadButtons == Unguarded(SetLead, {"leads"})
AdminLeads == Panel({"leads"}, [set |-> LeadButtons])

(* question bank                                                            *)
ToggleQuestion == Changing({"questions", "bank subjects"})
RemoveQuestion == Changing({"questions", "bank subjects"})
QuestionRow(request) == Unguarded(request, {"questions"})
ImportCSV == Unguarded(Changing({"questions", "bank subjects"}), {})
CreateQuestion == Changing({"questions", "bank subjects"})
CreateQuestionForm == Guarded(CreateQuestion, {})
AdminCBT ==
    Panel({"questions", "bank subjects"},
          [toggle |-> QuestionRow(ToggleQuestion), remove |-> QuestionRow(RemoveQuestion),
           import |-> ImportCSV, create |-> CreateQuestionForm])

(* support: the buttons of the table and of the open ticket                  *)
SetTicketStatus == Changing({"tickets"})
TicketButtons == Unguarded(SetTicketStatus, {"tickets"})
AdminSupport == Panel({"tickets"}, [status |-> TicketButtons])

(* overview, analytics and the lessons of the day: figures that are polled.  *)
AdminOverview == [Panel({"overview"}, <<>>) EXCEPT !.polled = {"overview"}]
AdminAnalytics == [Panel({"analytics"}, <<>>) EXCEPT !.polled = {"analytics"}]
AdminLessons == [Panel({"lessons today"}, <<>>) EXCEPT !.polled = {"lessons today"}]

(* The super admin's page polls only the audit log.                         *)
TestEmail == Request
TestEmailButton == Unguarded(TestEmail, {})
SuperFigures == {"stats"}
SuperAttention == {"stats"}
SuperRevenue == {"stats"}
SuperFunnel == {"overview"}
SuperActivity == {"overview"}
SuperAudit == {"audit"}
SuperAdmin ==
    [Panel(UNION {SuperFigures, SuperAttention, SuperRevenue, SuperFunnel, SuperActivity,
                  SuperAudit},
           [email |-> TestEmailButton])
     EXCEPT !.polled = {"audit"}]

AdminPages ==
    {AdminOverview, AdminAnalytics, AdminLessons, SuperAdmin, AdminCohorts,
     AdminUsers, AdminChat, AdminVetting, AdminProgrammes, AdminTutors, AdminBlog,
     AdminPayments, AdminInstitutions, AdminLibrary, AdminAdmissions,
     AdminPrivateTuition, AdminReviews, AdminSupport, AdminPayouts, AdminLeads, AdminCBT}
=============================================================================
