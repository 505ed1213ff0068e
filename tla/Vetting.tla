-------------------------------- MODULE Vetting --------------------------------
(***************************************************************************)
(* A tutor applies in the web client, page by page (profile, subjects,     *)
(* documents, quiz, status), and admins vet the application.  The handlers *)
(* of the server read in one statement and write in another, with no lock  *)
(* on the profile between the two.  A page that is left goes on with what  *)
(* it has begun: its requests run, and their answers still navigate.       *)
(***************************************************************************)
EXTENDS Naturals, Sequences, FiniteSets

CONSTANTS
    Subjects,     \* of the catalogue
    Files,        \* identity documents the tutor has at hand
    Calls,        \* bound: requests of the tutor's pages on their way at once
    Admins,
    MaxDocs,      \* bound: documents registered
    MaxAttempts,  \* bound: attempts at the quiz
    MaxFaults     \* bound: requests given up, or left behind with their page

ASSUME ItemAssumption == Subjects \intersect Files = {}

VARIABLES
    page,      \* of the tutor's browser
    stored,    \* the id of the profile is in localStorage
    quiz,      \* of the page: the attempt it holds, and whether it shows a result
    call,      \* requests of the pages
    status,    \* of the profile
    scope,     \* tutor_subjects
    doc,       \* tutor_documents, each with its object in the bucket or not
    attempt,   \* assessment_attempts, each with its competency results
    evidence,  \* an event of an approved document has been recorded
    txn,       \* what each admin's transaction has read
    waived,    \* history: the tutor console has approved this tutor
    faults

browser == <<page, stored, quiz>>
books == <<scope, doc, attempt>>
file == <<status, evidence, txn, waived>>
vars == <<browser, call, books, file, faults>>

Pages == {"apply", "subjects", "documents", "assessment", "status"}
Reviewed == {"UNDER_REVIEW", "INTERVIEW", "VERIFICATION"}
Statuses == {"NONE", "DRAFT", "SUBMITTED", "HOLD", "APPROVED", "REJECTED", "SUSPENDED"} \union Reviewed
Items == Subjects \union Files
Docs == DOMAIN doc
Attempts == DOMAIN attempt

NoCall == [op |-> "none", todo |-> {}, ref |-> 0, stage |-> "sent", mounted |-> FALSE, awaited |-> FALSE]
NoQuiz == [held |-> 0, marked |-> FALSE]
NoTxn == [op |-> "none", ref |-> 0]

Ops == {"profile", "subjects", "documents", "begin", "answers", "submit"}
AdminOps == {"review", "interview", "verify", "approve", "reject", "hold", "suspend"}

VettingTypeOK ==
    /\ page \in Pages /\ stored \in BOOLEAN
    /\ quiz \in [held: 0..MaxAttempts, marked: BOOLEAN]
    /\ call \in [Calls -> [op: Ops \union {"none"}, todo: SUBSET Items, ref: 0..(MaxDocs + MaxAttempts),
                           stage: {"sent", "read", "done", "refused"}, mounted: BOOLEAN, awaited: BOOLEAN]]
    /\ status \in Statuses /\ scope \subseteq Subjects
    /\ Docs \subseteq 1..MaxDocs
    /\ \A d \in Docs : doc[d] \in [status: {"PENDING", "APPROVED", "REJECTED"}, object: BOOLEAN]
    /\ Attempts \subseteq 1..MaxAttempts
    /\ \A i \in Attempts : attempt[i] \in [subject: Subjects, completed: BOOLEAN, open: BOOLEAN,
                                           passed: BOOLEAN, results: 0..Cardinality(Calls)]
    /\ evidence \in BOOLEAN /\ waived \in BOOLEAN
    /\ txn \in [Admins -> [op: AdminOps \union {"none", "document"}, ref: 0..MaxDocs]]
    /\ faults \in 0..MaxFaults

Init ==
    /\ page = "apply" /\ stored = FALSE /\ quiz = NoQuiz
    /\ call = [c \in Calls |-> NoCall]
    /\ status = "NONE"
    /\ scope = {} /\ doc = <<>> /\ attempt = <<>>
    /\ evidence = FALSE /\ waived = FALSE /\ txn = [a \in Admins |-> NoTxn]
    /\ faults = 0

-----------------------------------------------------------------------------
(* The pages.  Each has one busy flag, which goes with the page.            *)

Busy == \E c \in Calls : call[c].op # "none" /\ call[c].mounted /\ call[c].awaited
Free == {c \in Calls : call[c].op = "none"}
Sends(op, todo, ref) ==
    \E c \in Free : call' = [call EXCEPT ![c] = [NoCall EXCEPT !.op = op, !.todo = todo, !.ref = ref,
                                                               !.mounted = TRUE, !.awaited = TRUE]]

(* A page that is shown already is not mounted anew.                         *)
Opens(p, calls) ==
    /\ page' = p
    /\ quiz' = IF p = page THEN quiz ELSE NoQuiz
    /\ call' = IF p = page THEN calls ELSE [c \in Calls |-> [calls[c] EXCEPT !.mounted = FALSE]]

(* The pages between need the stored id; without it they redirect to apply.  *)
GoTo(p) ==
    /\ p # page
    /\ p \in {"apply", "status"} \/ stored
    /\ faults' = IF Busy THEN faults + 1 ELSE faults
    /\ faults' <= MaxFaults
    /\ Opens(p, call)
    /\ UNCHANGED <<stored, books, file>>

CreateProfile ==
    /\ page = "apply" /\ ~Busy
    /\ Sends("profile", {}, 0)
    /\ UNCHANGED <<browser, books, file, faults>>

(* What is selected later, while the save is under way, is not in it.        *)
SaveSubjects ==
    /\ page = "subjects" /\ ~Busy
    /\ \E selected \in SUBSET Subjects \ {{}} : Sends("subjects", selected, 0)
    /\ UNCHANGED <<browser, books, file, faults>>

Upload ==
    /\ page = "documents" /\ ~Busy
    /\ \E chosen \in SUBSET Files \ {{}} : Sends("documents", chosen, 0)
    /\ UNCHANGED <<browser, books, file, faults>>

Begin(s) ==
    /\ page = "assessment" /\ quiz.held = 0 /\ ~Busy
    /\ s \in scope
    /\ Sends("begin", {s}, 0)
    /\ UNCHANGED <<browser, books, file, faults>>

SendAnswers ==
    /\ page = "assessment" /\ quiz.held # 0 /\ ~quiz.marked /\ ~Busy
    /\ Sends("answers", {}, quiz.held)
    /\ UNCHANGED <<browser, books, file, faults>>

Continue ==
    /\ quiz.marked
    /\ Opens("status", call)
    /\ UNCHANGED <<stored, books, file, faults>>

(* The page may show a DRAFT that is none any more.                         *)
SubmitApplication ==
    /\ page = "status" /\ stored /\ status # "NONE" /\ ~Busy
    /\ Sends("submit", {}, 0)
    /\ UNCHANGED <<browser, books, file, faults>>

-----------------------------------------------------------------------------
(* The handlers: what they read decides, and the write comes later.         *)

Passed == \E i \in Attempts : attempt[i].passed
Active(s) == \E i \in Attempts : attempt[i].subject = s /\ ~attempt[i].completed
CanSubmit(i) == ~attempt[i].completed /\ attempt[i].open

Complete == scope # {} /\ \E d \in Docs : doc[d].object

(* CanTransitionTo                                                          *)
Transitions ==
    [NONE |-> {}, DRAFT |-> {"SUBMITTED"}, SUBMITTED |-> {"UNDER_REVIEW", "HOLD"},
     UNDER_REVIEW |-> {"INTERVIEW", "HOLD", "REJECTED"}, INTERVIEW |-> {"VERIFICATION", "HOLD", "REJECTED"},
     VERIFICATION |-> {"APPROVED", "REJECTED", "HOLD"}, HOLD |-> {"UNDER_REVIEW", "REJECTED"},
     APPROVED |-> {"SUSPENDED"}, SUSPENDED |-> {"APPROVED", "REJECTED"}, REJECTED |-> {}]

(* An answer that nobody awaits is the end of its request.                   *)
Gone(c) == [call EXCEPT ![c] = NoCall]
Replies(c, todo, ref, stage) ==
    IF call[c].awaited THEN [call EXCEPT ![c] = [@ EXCEPT !.todo = todo, !.ref = ref, !.stage = stage]] ELSE Gone(c)
Done(c) == Replies(c, call[c].todo, call[c].ref, "done")
Refused(c) == Replies(c, call[c].todo, call[c].ref, "refused")

(* An attempt that was never answered, whose time is up, still bars another.  *)
Admissible(c) ==
    CASE call[c].op = "subjects" -> status \in {"DRAFT", "SUBMITTED"}
      [] call[c].op = "begin" -> call[c].todo \subseteq scope /\ ~Passed
                                 /\ \A s \in call[c].todo : ~Active(s)
      [] call[c].op = "answers" -> CanSubmit(call[c].ref)
      [] call[c].op = "submit" -> "SUBMITTED" \in Transitions[status] /\ Complete

(* What the catalogue holds is left out: a subject may have too few questions *)
(* for a quiz.                                                              *)
Refusable(c) == ~Admissible(c) \/ call[c].op = "begin"

Check(c) ==
    /\ call[c].op \in {"subjects", "begin", "answers", "submit"} /\ call[c].stage = "sent"
    /\ \/ Admissible(c) /\ call' = [call EXCEPT ![c].stage = "read"]
       \/ Refusable(c) /\ call' = Refused(c)
    /\ UNCHANGED <<browser, books, file, faults>>

Checked(c, op) == call[c].op = op /\ call[c].stage = "read"

(* One profile for a user (UNIQUE).                                         *)
InsertProfile(c) ==
    /\ call[c].op = "profile" /\ call[c].stage = "sent"
    /\ IF status = "NONE" THEN status' = "DRAFT" /\ call' = Done(c)
       ELSE status' = status /\ call' = Refused(c)
    /\ UNCHANGED <<browser, books, evidence, txn, waived, faults>>

(* ON CONFLICT DO NOTHING: to add a subject again is no error.               *)
OnlyNew(s) == s \notin scope  \* mutant
MayAdd(s) == TRUE

AddSubject(c) ==
    /\ Checked(c, "subjects")
    /\ \E s \in call[c].todo :
          IF MayAdd(s)
          THEN /\ scope' = scope \union {s}
               /\ call' = Replies(c, call[c].todo \ {s}, 0, "done")
          ELSE scope' = scope /\ call' = Refused(c)
    /\ UNCHANGED <<browser, doc, attempt, file, faults>>

(* A row, and a URL to put its object at.  No status bars it.                *)
RequestDocumentUpload(c) ==
    /\ call[c].op = "documents" /\ call[c].stage = "sent"
    /\ Len(doc) < MaxDocs
    /\ doc' = Append(doc, [status |-> "PENDING", object |-> FALSE])
    /\ call' = Replies(c, call[c].todo, Len(doc) + 1, "done")
    /\ UNCHANGED <<browser, scope, attempt, file, faults>>

StartAssessment(c) ==
    /\ Checked(c, "begin")
    /\ Len(attempt) < MaxAttempts
    /\ \E s \in call[c].todo :
          attempt' = Append(attempt, [subject |-> s, completed |-> FALSE, open |-> TRUE,
                                      passed |-> FALSE, results |-> 0])
    /\ call' = Replies(c, call[c].todo, Len(attempt) + 1, "done")
    /\ UNCHANGED <<browser, scope, doc, file, faults>>

(* An attempt has one answer to each question (UNIQUE), so that of two       *)
(* submissions that found it open the second fails at its first answer.      *)
AnswersTwice(i) == TRUE  \* mutant
TakesAnswers(i) == ~attempt[i].completed

SubmitAssessment(c) ==
    LET i == call[c].ref IN
    /\ Checked(c, "answers")
    /\ IF TakesAnswers(i)
       THEN /\ \E passed \in BOOLEAN :
                  attempt' = [attempt EXCEPT ![i] = [attempt[i] EXCEPT !.completed = TRUE, !.open = FALSE,
                                                              !.passed = passed, !.results = attempt[i].results + 1]]
            /\ call' = Done(c)
       ELSE attempt' = attempt /\ call' = Refused(c)
    /\ UNCHANGED <<browser, scope, doc, file, faults>>

(* Its answer only makes the page read the status again.                     *)
SubmitForReview(c) ==
    /\ Checked(c, "submit")
    /\ status' = "SUBMITTED" /\ call' = Gone(c)
    /\ UNCHANGED <<browser, books, evidence, txn, waived, faults>>

(* Half an hour for the answers.  That a pass lapses, after a year, is left   *)
(* out.                                                                     *)
RunOut(i) ==
    /\ ~attempt[i].completed /\ attempt[i].open
    /\ attempt' = [attempt EXCEPT ![i].open = FALSE]
    /\ UNCHANGED <<browser, call, scope, doc, file, faults>>

-----------------------------------------------------------------------------
(* The answers.  One that is not awaited has been given up.                  *)

Answered(c, op) == call[c].op = op /\ call[c].awaited /\ call[c].stage = "done"

(* The next subject, or the next file, goes out when the one before is done.  *)
Again(c) == [call EXCEPT ![c].stage = "sent"]

ProfileCreated(c) ==
    /\ Answered(c, "profile")
    /\ stored' = TRUE /\ Opens("subjects", Gone(c))
    /\ UNCHANGED <<books, file, faults>>

SubjectAdded(c) ==
    /\ Answered(c, "subjects")
    /\ IF call[c].todo # {} THEN call' = Again(c) /\ UNCHANGED <<page, quiz>>
       ELSE Opens("documents", Gone(c))
    /\ UNCHANGED <<stored, books, file, faults>>

(* The PUT at the URL.                                                      *)
PutObject(c) ==
    /\ Answered(c, "documents")
    /\ doc' = [doc EXCEPT ![call[c].ref].object = TRUE]
    /\ \E f \in call[c].todo :
          LET rest == call[c].todo \ {f} IN
          IF rest # {}
          THEN call' = [Again(c) EXCEPT ![c].todo = rest] /\ UNCHANGED <<page, quiz>>
          ELSE Opens("assessment", Gone(c))
    /\ UNCHANGED <<stored, scope, attempt, file, faults>>

Begun(c) ==
    /\ Answered(c, "begin")
    /\ quiz' = IF call[c].mounted THEN [NoQuiz EXCEPT !.held = call[c].ref] ELSE quiz
    /\ call' = Gone(c)
    /\ UNCHANGED <<page, stored, books, file, faults>>

Marked(c) ==
    /\ Answered(c, "answers")
    /\ quiz' = IF call[c].mounted THEN [quiz EXCEPT !.marked = TRUE] ELSE quiz
    /\ call' = Gone(c)
    /\ UNCHANGED <<page, stored, books, file, faults>>

Failed(c) ==
    /\ call[c].op # "none" /\ call[c].awaited /\ call[c].stage = "refused"
    /\ call' = Gone(c)
    /\ UNCHANGED <<browser, books, file, faults>>

(* An answer that does not come: the same error to the page.  The handler    *)
(* may go on, or be dropped with its client.                                *)
GiveUp(c) ==
    /\ call[c].op # "none" /\ call[c].awaited /\ faults < MaxFaults
    /\ faults' = faults + 1
    /\ call' = IF call[c].stage \in {"done", "refused"} THEN Gone(c)
               ELSE [call EXCEPT ![c].awaited = FALSE, ![c].mounted = FALSE]
    /\ UNCHANGED <<browser, books, file>>

Forget(c) ==
    /\ call[c].op # "none" /\ ~call[c].awaited
    /\ call' = Gone(c)
    /\ UNCHANGED <<browser, books, file, faults>>

-----------------------------------------------------------------------------
(* The admins, each in a transaction of its own.  Whether an approved tutor  *)
(* is shown in the search is left out.                                      *)

Target ==
    [review |-> "UNDER_REVIEW", interview |-> "INTERVIEW", verify |-> "VERIFICATION", approve |-> "APPROVED",
     reject |-> "REJECTED", hold |-> "HOLD", suspend |-> "SUSPENDED"]

(* To verify, a document must have been approved; to approve, a quiz passed.  *)
Unproven(op) == TRUE  \* mutant
Proven(op) ==
    /\ op = "verify" => \E d \in Docs : doc[d].status = "APPROVED"
    /\ op = "approve" => Passed

Reads(a, op, ref) ==
    /\ txn[a].op = "none"
    /\ txn' = [txn EXCEPT ![a] = [op |-> op, ref |-> ref]]
    /\ UNCHANGED <<browser, call, books, status, evidence, waived, faults>>

Transition(a, op) ==
    /\ Target[op] \in Transitions[status]
    /\ Proven(op)
    /\ Reads(a, op, 0)

(* UpdateStatus sets the status whatever it has become.                     *)
UpdateStatus(a) ==
    /\ txn[a].op \in AdminOps
    /\ status' = Target[txn[a].op]
    /\ txn' = [txn EXCEPT ![a] = NoTxn]
    /\ UNCHANGED <<browser, call, books, evidence, waived, faults>>

ReviewDocument(a, d) ==
    /\ doc[d].status = "PENDING"
    /\ Reads(a, "document", d)

UpdateDocumentReview(a, approve) ==
    /\ txn[a].op = "document"
    /\ doc' = [doc EXCEPT ![txn[a].ref].status = IF approve THEN "APPROVED" ELSE "REJECTED"]
    /\ evidence' = (evidence \/ approve)
    /\ txn' = [txn EXCEPT ![a] = NoTxn]
    /\ UNCHANGED <<browser, call, scope, attempt, status, waived, faults>>

(* The tutor console (UpsertTutorAdmin), statement by statement: none is in a *)
(* transaction, looks at the status or asks for a document or a quiz.        *)
ConsoleApproves ==
    /\ status # "NONE"
    /\ status' = "APPROVED" /\ waived' = TRUE
    /\ UNCHANGED <<browser, call, books, evidence, txn, faults>>

ConsoleAdds(s) ==
    /\ status # "NONE"
    /\ scope' = scope \union {s}
    /\ UNCHANGED <<browser, call, doc, attempt, file, faults>>

-----------------------------------------------------------------------------
Handle(c) ==
    \/ InsertProfile(c) \/ AddSubject(c) \/ RequestDocumentUpload(c)
    \/ StartAssessment(c) \/ SubmitAssessment(c) \/ SubmitForReview(c)

Hear(c) ==
    \/ ProfileCreated(c) \/ SubjectAdded(c) \/ PutObject(c) \/ Begun(c)
    \/ Marked(c) \/ Failed(c)

Next ==
    \/ \E p \in Pages : GoTo(p)
    \/ \E s \in Subjects : Begin(s)
    \/ CreateProfile \/ SaveSubjects \/ Upload \/ SendAnswers \/ Continue \/ SubmitApplication
    \/ \E c \in Calls : Check(c) \/ Handle(c) \/ Hear(c) \/ GiveUp(c) \/ Forget(c)
    \/ \E i \in Attempts : RunOut(i)
    \/ \E a \in Admins : \/ \E op \in AdminOps : Transition(a, op)
                         \/ UpdateStatus(a)
                         \/ \E yes \in BOOLEAN : UpdateDocumentReview(a, yes)
                         \/ \E d \in Docs : ReviewDocument(a, d)
    \/ ConsoleApproves
    \/ \E s \in Subjects : ConsoleAdds(s)

Spec == Init /\ [][Next]_vars

-----------------------------------------------------------------------------
(* An attempt is marked once, whichever requests are sent again because      *)
(* their answers were lost ("a COMPLETED attempt cannot be resubmitted",     *)
(* assessment_service.go:132).                                              *)
MarkedOnce == \A i \in Attempts : attempt[i].results <= 1

(* A tutor whom the console has not approved is approved only after a         *)
(* document of theirs has been and a quiz was passed, though two admins and  *)
(* the tutor write over each other.                                         *)
Vetted == evidence /\ \E i \in Attempts : attempt[i].passed
ApprovedWasVetted == status = "APPROVED" /\ ~waived => Vetted

(* A tutor who is approved has been vetted (docs/OPS_MANUAL.md:8-14).         *)
(* It does not hold.                                                        *)
ApprovedIsVetted == status = "APPROVED" => Vetted

(* A save that broke off among its subjects can be made again: while the     *)
(* application is a draft, none is refused, over subjects that were added    *)
(* before or for any other reason.                                          *)
DraftCanBeSaved ==
    \A c \in Calls : call[c].op = "subjects" /\ call[c].stage = "refused" => status # "DRAFT"
=============================================================================
