---------------------------- MODULE AccountPanels ----------------------------
(* The pages that everybody who is signed in has, and those of parents.      *)
EXTENDS PanelRows

(* messages.  The text is put into the thread before it is sent, taken out   *)
(* again by an error, and the thread fetched again after either; Enter sends *)
(* while another text is under way.                                         *)
Send == Settling(Keyed([Changing({"conversations"}) EXCEPT !.optimistic = TRUE]))
SendField == Unguarded(Send, {})
StartWith == Changing({"conversations"})
StartWithButton == Unguarded(StartWith, {})
MessageCenter ==
    [views |-> {"conversations", "messages a", "messages b"},
     family |-> {"messages a", "messages b"},
     polled |-> {"conversations", "messages a", "messages b"},
     live |-> {"conversations", "messages a", "messages b"},
     ops |-> [send |-> SendField, start |-> StartWithButton]]

(* notifications                                                            *)
MarkRead == Settling(Changing({"notifications"}))
MarkReadRow == Unguarded(MarkRead, {"notifications"})
MarkAll == Settling(Changing({"notifications"}))
MarkAllButton == Guarded(MarkAll, {})
Notifications ==
    [Panel({"notifications"}, [mark |-> MarkReadRow, all |-> MarkAllButton])
     EXCEPT !.polled = {"notifications"}, !.live = {"notifications"}]

(* account: the answers are written into the session.                       *)
UploadAvatar == Setting({"session"})
AvatarField == Guarded(UploadAvatar, {"session"})
SaveProfile == Setting({"session"})
SaveProfileButton == Guarded(SaveProfile, {"session"})
SavePassword == Request
SavePasswordForm == Guarded(SavePassword, {"session"})
RemoveDevice == Changing({"devices"})
RemoveDeviceButton == Unguarded(RemoveDevice, {"devices"})
ExportData == Request
ExportDataButton == Unguarded(ExportData, {"session"})
(* What an account shows ends with it: the answer clears the whole cache and *)
(* leaves for the front page, where nothing of it is shown.                 *)
DeleteAccount == Request
DeleteAccountForm == Guarded(DeleteAccount, {"session"})
Account == Panel({"session", "devices", "learners"},
                 [avatar |-> AvatarField, profile |-> SaveProfileButton,
                  password |-> SavePasswordForm, device |-> RemoveDeviceButton,
                  export |-> ExportDataButton, delete |-> DeleteAccountForm])

(* institutions: the profile of one, its members, students and Plus seats;   *)
(* the key of the institution is a prefix of all of them.                   *)
SaveInstitution ==
    [Changing({"institution"})
     EXCEPT !.refetches = @ \union {"members", "students", "allocation", "seats"}]
SaveInstitutionForm == Guarded(SaveInstitution, {"institution"})
InviteMember == Changing({"members"})
InviteMemberForm == Guarded(InviteMember, {"institution"})
ChangeMemberRole == Changing({"members"})
RemoveMember == Changing({"members"})
MemberRow(request) == Unguarded(request, {"members"})
AddStudent == Changing({"students"})
AddStudentForm == Guarded(AddStudent, {"learners"})
RemoveStudent == Changing({"students"})
RemoveStudentButton == Unguarded(RemoveStudent, {"students"})
SaveSeats == Changing({"allocation", "seats"})
SaveSeatsForm == Guarded(SaveSeats, {"institution"})
AssignSeat == Changing({"allocation", "seats"})
AssignSeatForm == Guarded(AssignSeat, {"institution"})
ReleaseSeat == Changing({"allocation", "seats"})
ReleaseSeatButton == Unguarded(ReleaseSeat, {"seats"})
InstitutionDetail ==
    Panel({"institution", "members", "learners", "students", "allocation", "seats"},
          [save |-> SaveInstitutionForm, invite |-> InviteMemberForm,
           role |-> MemberRow(ChangeMemberRole), remove |-> MemberRow(RemoveMember),
           add |-> AddStudentForm, drop |-> RemoveStudentButton,
           capacity |-> SaveSeatsForm, assign |-> AssignSeatForm,
           release |-> ReleaseSeatButton])

(* admissions: the key of the applications is a prefix of their documents.   *)
ApplyForPlace == [Changing({"applications"}) EXCEPT !.refetches = @ \union {"documents"}]
ApplyForm == Guarded(ApplyForPlace, {"learners"})
AcceptOffer == [Changing({"applications"}) EXCEPT !.refetches = @ \union {"documents"}]
AcceptOfferButton == Guarded(AcceptOffer, {"applications"})
AddDocument == Changing({"documents"})
AddDocumentForm == Guarded(AddDocument, {"applications"})
RemoveDocument == Changing({"documents"})
RemoveDocumentButton == Unguarded(RemoveDocument, {"documents"})
Admissions ==
    Panel({"applications", "learners", "documents"},
          [apply |-> ApplyForm, accept |-> AcceptOfferButton, add |-> AddDocumentForm,
           remove |-> RemoveDocumentButton])

(* Plus: paying leaves for the gateway.                                     *)
ActivatePlus == Changing({"status"})
ActivateButton == Guarded(ActivatePlus, {"plans"})
CancelPlus == Changing({"status"})
CancelButton == Guarded(CancelPlus, {"status"})
Plus == Panel({"status", "plans", "advisor", "learners", "plan"},
              [activate |-> ActivateButton, cancel |-> CancelButton])

(* A review is shown once it is moderated; a certificate link is not cached.  *)
SubmitReview == [Request EXCEPT !.refetches = {"reviews"}]
SubmitReviewForm == Guarded(SubmitReview, {})
Reviews == Panel({"reviews"}, [submit |-> SubmitReviewForm])

ShareCertificate == Request
ShareCertificateButton == Guarded(ShareCertificate, {"certificates"})
Certificates == Panel({"certificates"}, [share |-> ShareCertificateButton])

SubmitApplication == Changing({"application"})
SubmitApplicationButton == Guarded(SubmitApplication, {"application"})
BecomeTutorStatus == Panel({"application"}, [submit |-> SubmitApplicationButton])

(* parent dashboard: a receipt is read for its dialog, and not cached        *)
OpenReceipt == Request
ReceiptButtons == Unguarded(OpenReceipt, {"orders"})
AddLearner == Changing({"learners", "context"})
AddLearnerForm == Guarded(AddLearner, {})
ParentHero == {"learners", "lessons"}
ParentPending == {"orders"}
ParentOverview == {"learners", "lessons", "orders", "attendance"}
ParentBookings == {"learners", "lessons"}
ParentProgress == {"attendance", "reports"}
ParentLearners == {"learners"}
ParentSections == UNION {ParentHero, ParentPending, ParentOverview, ParentBookings,
                         ParentProgress, ParentLearners}
(* The session's context and the count of unread messages are held by the    *)
(* page and shown in none of its sections.                                  *)
ParentDashboard ==
    Panel(ParentSections \union {"context", "unread"},
          [add |-> AddLearnerForm, receipt |-> ReceiptButtons])

(* The private tuition wizard sends what the lists hold at that moment, and a  *)
(* support ticket while they hold nothing; no view shows either.            *)
SubmitRequest == Request
SubmitRequestButton == Guarded(SubmitRequest, {})
PrivateTuition == Panel({"learners", "subjects"}, [submit |-> SubmitRequestButton])

(* receipt: the page verifies a pending order by itself, and on demand.  It  *)
(* polls only while it shows PENDING, which is a fetch at any time here.     *)
Verify == Changing({"receipt"})
ConfirmNowButton == Unguarded(Verify, {"receipt"})
Receipt == Panel({"receipt"}, [verify |-> ConfirmNowButton])

(* chat with the assistant, one thread of it; and its widget.  A rating is    *)
(* shown by the page that sends it.                                         *)
NewThread == Changing({"threads"})
NewThreadButton == Unguarded(NewThread, {})
ChatSend == Setting({"messages"})
ChatField == Guarded(ChatSend, {})
Escalate == Changing({"threads"})
EscalateButton == Guarded(Escalate, {})
RateThread == Request
RateThreadButtons == Unguarded(RateThread, {"messages"})
Chat == Panel({"threads", "messages"},
              [new |-> NewThreadButton, send |-> ChatField, escalate |-> EscalateButton,
               rate |-> RateThreadButtons])

(* The first text, or call for a person, makes the thread before it is sent.  *)
EnsureThread == Changing({"threads"})
WidgetSend == [Setting({"messages"}) EXCEPT !.refetches = {"messages"}]
WidgetField == Guarded(WidgetSend, {})
AskHuman == Changing({"messages"})
AskHumanButton == Guarded(AskHuman, {})
WidgetRate == Request
WidgetRateButtons == Unguarded(WidgetRate, {"messages"})
ChatWidget == Panel({"threads", "messages"},
                    [ensure |-> Guarded(EnsureThread, {}), send |-> WidgetField,
                     human |-> AskHumanButton, rate |-> WidgetRateButtons])

(* The frame around every page polls the count of what is unread.            *)
AppShell == [Panel({"unread count"}, <<>>) EXCEPT !.polled = {"unread count"}]

AccountPages == {MessageCenter, Notifications, Account, InstitutionDetail, Admissions, Plus,
                 Reviews, Certificates, BecomeTutorStatus, ParentDashboard, Receipt, Chat,
                 ChatWidget, PrivateTuition, AppShell}
=============================================================================
