---------------------------- MODULE VettingProofs ----------------------------
(***************************************************************************)
(* What Vetting promises for any number of subjects, documents, attempts,  *)
(* requests and admins.  VInv adds to the two properties what a            *)
(* transaction in flight may rely on: the proof it has read, which nothing  *)
(* takes back before it writes.                                            *)
(***************************************************************************)
EXTENDS Vetting, SequenceTheorems, TLAPS

Document == [status: {"PENDING", "APPROVED", "REJECTED"}, object: BOOLEAN]
Attempt == [subject: Items, completed: BOOLEAN, open: BOOLEAN, passed: BOOLEAN, results: Nat]

RowsTyped ==
    /\ doc \in Seq(Document) /\ attempt \in Seq(Attempt)
    /\ evidence \in BOOLEAN /\ waived \in BOOLEAN /\ status \in Statuses
    /\ txn \in [Admins -> [op: AdminOps \union {"none", "document"}, ref: Nat]]

(* An approval of a document that stands has been recorded.                 *)
Recorded == \A d \in Docs : doc[d].status = "APPROVED" => evidence

(* Only a completed attempt has a result, or is a pass.                     *)
ResultsOfCompleted ==
    \A i \in Attempts : /\ attempt[i].passed => attempt[i].completed
                        /\ attempt[i].results <= 1
                        /\ ~attempt[i].completed => attempt[i].results = 0

(* What a status asks for, of a tutor whom the console has not waved through. *)
Shown == waived \/ evidence
Known == waived \/ Passed

StatusEarned ==
    /\ status \in {"VERIFICATION", "APPROVED", "SUSPENDED"} => Shown
    /\ status \in {"APPROVED", "SUSPENDED"} => Known

TxnEarned ==
    \A a \in Admins : /\ txn[a].op \in {"verify", "approve", "suspend"} => Shown
                      /\ txn[a].op \in {"approve", "suspend"} => Known

VInv == RowsTyped /\ Recorded /\ ResultsOfCompleted /\ StatusEarned /\ TxnEarned

-----------------------------------------------------------------------------
(* A sequence changed at one place, which may be none of its own.            *)
LEMMA SeqUpdate ==
    ASSUME NEW S, NEW s \in Seq(S), NEW i, NEW e, i \in DOMAIN s => e \in S
    PROVE  /\ [s EXCEPT ![i] = e] \in Seq(S)
           /\ DOMAIN [s EXCEPT ![i] = e] = DOMAIN s
           /\ \A j \in DOMAIN s : [s EXCEPT ![i] = e][j] = IF j = i THEN e ELSE s[j]
<1>1. CASE i \in DOMAIN s
  <2>1. i \in 1..Len(s) /\ e \in S
    BY <1>1
  <2> QED BY <2>1, ExceptSeq
<1>2. CASE i \notin DOMAIN s
  <2>1. [s EXCEPT ![i] = e] = s
    BY <1>2
  <2> QED BY <2>1, <1>2
<1> QED BY <1>1, <1>2

LEMMA ProofsStay ==
    ASSUME evidence => evidence', Passed => Passed', waived' = waived
    PROVE  (Shown => Shown') /\ (Known => Known')
  BY Zenon DEF Shown, Known

LEMMA ProofsSame ==
    ASSUME UNCHANGED <<evidence, waived>>, Passed' = Passed
    PROVE  Shown' = Shown /\ Known' = Known
  BY DEF Shown, Known

(* A step of the tutor that takes back no proof, and leaves the status or     *)
(* moves it to where none is asked for, keeps what was earned.               *)
LEMMA NothingTakenBack ==
    ASSUME StatusEarned, TxnEarned, evidence => evidence', Passed => Passed', waived' = waived,
           txn' = txn,
           status' = status \/ status' \in {"DRAFT", "SUBMITTED"}
    PROVE  StatusEarned' /\ TxnEarned'
<1>0. (Shown => Shown') /\ (Known => Known')
  BY ProofsStay
<1>1. CASE status' = status
  BY <1>0, <1>1, Zenon DEF StatusEarned, TxnEarned
<1>2. CASE status' \in {"DRAFT", "SUBMITTED"}
  <2>1. StatusEarned'
    BY <1>2 DEF StatusEarned
  <2>2. TxnEarned'
    BY <1>0, Zenon DEF TxnEarned
  <2> QED BY <2>1, <2>2
<1> QED BY <1>1, <1>2

(* A step that changes no row keeps VInv; so do the steps of the pages.      *)
LEMMA RowsUntouched ==
    ASSUME VInv, UNCHANGED <<doc, attempt, evidence, txn, waived>>,
           status' = status \/ status' \in {"DRAFT", "SUBMITTED"}
    PROVE  VInv'
<1>1. Passed' = Passed
  BY DEF Passed, Attempts
<1>2. StatusEarned' /\ TxnEarned'
  BY <1>1, NothingTakenBack DEF VInv
<1>3. RowsTyped' /\ Recorded' /\ ResultsOfCompleted'
  BY DEF VInv, RowsTyped, Recorded, ResultsOfCompleted, Docs, Attempts, Statuses
<1> QED BY <1>2, <1>3 DEF VInv

(* A document that comes in pending, or whose object arrives, is no proof.   *)
LEMMA RegisterKeeps ==
    ASSUME VInv, NEW c \in Calls, RequestDocumentUpload(c)
    PROVE  VInv'
<1> DEFINE new == [status |-> "PENDING", object |-> FALSE]
<1>1. new \in Document
  BY DEF Document
<1>2. doc' = Append(doc, new) /\ UNCHANGED <<attempt, status, evidence, txn, waived>>
  BY DEF RequestDocumentUpload, file
<1>3. RowsTyped'
  BY <1>1, <1>2 DEF VInv, RowsTyped
<1>4. Recorded'
  <2> SUFFICES ASSUME NEW d \in Docs', doc'[d].status = "APPROVED"
               PROVE  evidence'
    BY DEF Recorded
  <2>1. CASE d = Len(doc) + 1
    BY <1>1, <1>2, <2>1 DEF VInv, RowsTyped
  <2>2. CASE d # Len(doc) + 1
    <3>1. d \in Docs /\ doc'[d] = doc[d]
      BY <1>1, <1>2, <2>2 DEF VInv, RowsTyped, Docs
    <3> QED BY <1>2, <3>1 DEF VInv, Recorded
  <2> QED BY <2>1, <2>2
<1>5. ResultsOfCompleted' /\ Passed' = Passed
  BY <1>2 DEF VInv, ResultsOfCompleted, Passed, Attempts
<1>6. StatusEarned' /\ TxnEarned'
  BY <1>2, <1>5, NothingTakenBack DEF VInv
<1> QED BY <1>3, <1>4, <1>5, <1>6 DEF VInv

LEMMA PutKeeps ==
    ASSUME VInv, NEW c \in Calls, PutObject(c)
    PROVE  VInv'
<1> DEFINE r == call[c].ref
<1>1. doc' = [doc EXCEPT ![r].object = TRUE] /\ UNCHANGED <<attempt, status, evidence, txn, waived>>
  BY DEF PutObject, file
<1> DEFINE put == [doc[r] EXCEPT !.object = TRUE]
<1>2. doc' = [doc EXCEPT ![r] = put] /\ doc \in Seq(Document)
  BY <1>1 DEF VInv, RowsTyped
<1>3. r \in DOMAIN doc => put \in Document /\ put.status = doc[r].status
  <2> SUFFICES ASSUME r \in DOMAIN doc PROVE put \in Document /\ put.status = doc[r].status
    OBVIOUS
  <2>1. doc[r] \in Document
    BY <1>2
  <2> QED BY <2>1 DEF Document
<1> HIDE DEF put
<1>4. /\ doc' \in Seq(Document) /\ DOMAIN doc' = DOMAIN doc
      /\ \A d \in DOMAIN doc : doc'[d].status = doc[d].status
  BY <1>2, <1>3, SeqUpdate
<1>5. RowsTyped' /\ Recorded'
  BY <1>1, <1>4 DEF VInv, RowsTyped, Recorded, Docs
<1>6. ResultsOfCompleted' /\ Passed' = Passed
  BY <1>1 DEF VInv, ResultsOfCompleted, Passed, Attempts
<1>7. StatusEarned' /\ TxnEarned'
  BY <1>1, <1>6, NothingTakenBack DEF VInv
<1> QED BY <1>5, <1>6, <1>7 DEF VInv

(* Steps that change only the attempts: they stay attempts, and no pass is    *)
(* taken back.                                                              *)
LEMMA AttemptsKeep ==
    ASSUME VInv, attempt' \in Seq(Attempt), ResultsOfCompleted',
           DOMAIN attempt \subseteq DOMAIN attempt',
           \A i \in Attempts : attempt[i].passed => attempt'[i].passed,
           UNCHANGED <<doc, status, evidence, txn, waived>>
    PROVE  VInv'
<1>1. Passed => Passed'
  BY DEF Passed, Attempts
<1>2. StatusEarned' /\ TxnEarned'
  BY <1>1, NothingTakenBack DEF VInv
<1>3. RowsTyped' /\ Recorded'
  BY DEF VInv, RowsTyped, Recorded, Docs
<1> QED BY <1>2, <1>3 DEF VInv

LEMMA StartKeeps ==
    ASSUME VInv, NEW c \in Calls, call[c].todo \subseteq Items, StartAssessment(c)
    PROVE  VInv'
<1>1. PICK s \in call[c].todo :
         attempt' = Append(attempt, [subject |-> s, completed |-> FALSE, open |-> TRUE,
                                     passed |-> FALSE, results |-> 0])
  BY DEF StartAssessment
<1> DEFINE new == [subject |-> s, completed |-> FALSE, open |-> TRUE, passed |-> FALSE, results |-> 0]
<1>2. new \in Attempt
  BY DEF Attempt
<1>3. attempt' = Append(attempt, new) /\ attempt \in Seq(Attempt)
  BY <1>1 DEF VInv, RowsTyped
<1> HIDE DEF new
<1>4. /\ attempt' \in Seq(Attempt)
      /\ DOMAIN attempt' = DOMAIN attempt \union {Len(attempt) + 1}
      /\ \A i \in DOMAIN attempt : attempt'[i] = attempt[i]
      /\ attempt'[Len(attempt) + 1] = new
  BY <1>2, <1>3
<1>5. ResultsOfCompleted'
  <2>1. ~new.completed /\ ~new.passed /\ new.results = 0
    BY DEF new
  <2> QED BY <1>4, <2>1 DEF VInv, ResultsOfCompleted, Attempts
<1>6. UNCHANGED <<doc, status, evidence, txn, waived>>
  BY DEF StartAssessment, file
<1> QED BY <1>4, <1>5, <1>6, AttemptsKeep DEF Attempts

(* The answers are taken while the attempt is not completed, and so it has    *)
(* neither a result nor a pass yet.                                         *)
LEMMA MarkKeeps ==
    ASSUME VInv, NEW c \in Calls, SubmitAssessment(c)
    PROVE  VInv'
<1> DEFINE i == call[c].ref
<1>1. UNCHANGED <<doc, status, evidence, txn, waived>>
  BY DEF SubmitAssessment, file
<1>2. CASE attempt' = attempt
  BY <1>1, <1>2, RowsUntouched
<1>3. CASE TakesAnswers(i)
  <2>1. PICK passed \in BOOLEAN :
           attempt' = [attempt EXCEPT ![i] = [attempt[i] EXCEPT !.completed = TRUE, !.open = FALSE,
                                                       !.passed = passed, !.results = attempt[i].results + 1]]
    BY <1>3 DEF SubmitAssessment
  <2> DEFINE marked == [attempt[i] EXCEPT !.completed = TRUE, !.open = FALSE,
                                          !.passed = passed, !.results = attempt[i].results + 1]
  <2>2. attempt \in Seq(Attempt) /\ attempt' = [attempt EXCEPT ![i] = marked]
    BY <2>1 DEF VInv, RowsTyped
  <2>3. ASSUME i \in Attempts
        PROVE  /\ marked \in Attempt /\ marked.completed
               /\ marked.results = 1 /\ ~attempt[i].passed
    <3>1. attempt[i] \in Attempt
      BY <2>2, <2>3 DEF Attempts
    <3>2. attempt[i].results = 0 /\ ~attempt[i].passed
      BY <1>3, <2>3 DEF VInv, ResultsOfCompleted, TakesAnswers
    <3>3. marked \in Attempt
      <4>1. attempt[i].results + 1 \in Nat
        BY <3>1 DEF Attempt
      <4> DEFINE n == attempt[i].results + 1
      <4> HIDE DEF n
      <4> DEFINE answered == [attempt[i] EXCEPT !.completed = TRUE, !.open = FALSE]
      <4>2. answered \in Attempt
        BY <3>1 DEF Attempt
      <4> HIDE DEF answered
      <4>3. [answered EXCEPT !.passed = passed, !.results = n] \in Attempt
        BY <4>1, <4>2 DEF Attempt, n
      <4> QED BY <4>3 DEF answered, n
    <3>4. marked.completed /\ marked.results = 1
      BY <3>1, <3>2 DEF Attempt
    <3> QED BY <3>2, <3>3, <3>4
  <2> HIDE DEF marked
  <2>4. /\ attempt' \in Seq(Attempt) /\ DOMAIN attempt' = DOMAIN attempt
        /\ \A j \in DOMAIN attempt : attempt'[j] = IF j = i THEN marked ELSE attempt[j]
    BY <2>2, <2>3, SeqUpdate DEF Attempts
  <2>7. ResultsOfCompleted'
    <3> SUFFICES ASSUME NEW j \in Attempts'
                 PROVE  /\ attempt'[j].passed => attempt'[j].completed
                        /\ attempt'[j].results <= 1
                        /\ ~attempt'[j].completed => attempt'[j].results = 0
      BY DEF ResultsOfCompleted
    <3>1. j \in Attempts
      BY <2>4 DEF Attempts
    <3>2. CASE j = i
      BY <3>1, <3>2, <2>3, <2>4 DEF Attempts
    <3>3. CASE j # i
      BY <3>1, <3>3, <2>4 DEF VInv, ResultsOfCompleted, Attempts
    <3> QED BY <3>2, <3>3
  <2> QED BY <1>1, <2>3, <2>4, <2>7, AttemptsKeep DEF Attempts
<1> QED BY <1>2, <1>3 DEF SubmitAssessment

LEMMA RunOutKeeps ==
    ASSUME VInv, NEW i \in Attempts, RunOut(i)
    PROVE  VInv'
<1>1. attempt' = [attempt EXCEPT ![i].open = FALSE] /\ UNCHANGED <<doc, status, evidence, txn, waived>>
  BY DEF RunOut, file
<1> DEFINE closed == [attempt[i] EXCEPT !.open = FALSE]
<1>2. attempt \in Seq(Attempt) /\ attempt' = [attempt EXCEPT ![i] = closed]
  BY <1>1 DEF VInv, RowsTyped
<1>3. /\ closed \in Attempt /\ closed.passed = attempt[i].passed
      /\ closed.completed = attempt[i].completed /\ closed.results = attempt[i].results
  <2>1. attempt[i] \in Attempt
    BY <1>2 DEF Attempts
  <2> QED BY <2>1 DEF Attempt
<1> HIDE DEF closed
<1>4. /\ attempt' \in Seq(Attempt) /\ DOMAIN attempt' = DOMAIN attempt
      /\ \A j \in DOMAIN attempt : attempt'[j] = IF j = i THEN closed ELSE attempt[j]
  BY <1>2, <1>3, SeqUpdate DEF Attempts
<1>5. ResultsOfCompleted'
  BY <1>3, <1>4 DEF VInv, ResultsOfCompleted, Attempts
<1> QED BY <1>1, <1>3, <1>4, <1>5, AttemptsKeep DEF Attempts

-----------------------------------------------------------------------------
(* What a transaction reads stays true until it writes.                      *)
LEMMA ReadKeeps ==
    ASSUME VInv, NEW a \in Admins, NEW op, NEW ref, Reads(a, op, ref),
           op \in AdminOps \union {"none", "document"}, ref \in Nat,
           op \in {"verify", "approve", "suspend"} => Shown,
           op \in {"approve", "suspend"} => Known
    PROVE  VInv'
<1>1. txn' = [txn EXCEPT ![a] = [op |-> op, ref |-> ref]] /\ UNCHANGED <<doc, attempt, status, evidence, waived>>
  BY DEF Reads, books
<1>2. RowsTyped' /\ Recorded' /\ ResultsOfCompleted'
  BY <1>1 DEF VInv, RowsTyped, Recorded, ResultsOfCompleted, Docs, Attempts
<1>3. Shown' = Shown /\ Known' = Known
  <2>1. Passed' = Passed
    BY <1>1 DEF Passed, Attempts
  <2> QED BY <1>1, <2>1, ProofsSame
<1>4. StatusEarned'
  BY <1>1, <1>3 DEF VInv, StatusEarned
<1>5. TxnEarned'
  <2> SUFFICES ASSUME NEW b \in Admins
               PROVE  /\ txn'[b].op \in {"verify", "approve", "suspend"} => Shown'
                      /\ txn'[b].op \in {"approve", "suspend"} => Known'
    BY Zenon DEF TxnEarned
  <2>1. CASE b = a
    <3>1. txn'[b].op = op
      BY <1>1, <2>1 DEF VInv, RowsTyped
    <3> QED BY <1>1, <1>3, <3>1
  <2>2. CASE b # a
    <3>1. txn'[b] = txn[b]
      BY <1>1, <2>2 DEF VInv, RowsTyped
    <3> QED BY <1>1, <1>3, <3>1 DEF VInv, TxnEarned
  <2> QED BY <2>1, <2>2
<1> QED BY <1>2, <1>4, <1>5 DEF VInv

LEMMA TransitionKeeps ==
    ASSUME VInv, NEW a \in Admins, NEW op \in AdminOps, Transition(a, op)
    PROVE  VInv'
<1>1. op = "verify" => Shown
  BY DEF Transition, Proven, VInv, Recorded, Shown
<1>2. op = "approve" => Known
  BY DEF Transition, Proven, Known
<1>3. status \in Statuses /\ Target[op] \in Transitions[status]
  BY DEF Transition, VInv, RowsTyped
<1>4. /\ op = "approve" => status \in {"VERIFICATION", "SUSPENDED"}
      /\ op = "suspend" => status = "APPROVED"
  BY <1>3 DEF Target, Transitions, Statuses, Reviewed
<1>5. /\ op \in {"verify", "approve", "suspend"} => Shown
      /\ op \in {"approve", "suspend"} => Known
  BY <1>1, <1>2, <1>4 DEF VInv, StatusEarned
<1> QED BY <1>5, ReadKeeps DEF Transition

LEMMA WriteKeeps ==
    ASSUME VInv, NEW a \in Admins, UpdateStatus(a)
    PROVE  VInv'
<1> DEFINE op == txn[a].op
<1>1. /\ op \in AdminOps /\ status' = Target[op] /\ txn' = [txn EXCEPT ![a] = NoTxn]
      /\ UNCHANGED <<doc, attempt, evidence, waived>>
  BY DEF UpdateStatus, books
<1>2. /\ status' = "VERIFICATION" => op = "verify"
      /\ status' = "APPROVED" => op = "approve"
      /\ status' = "SUSPENDED" => op = "suspend"
  BY <1>1 DEF Target, AdminOps
<1>3. Shown' = Shown /\ Known' = Known
  <2>1. Passed' = Passed
    BY <1>1 DEF Passed, Attempts
  <2> QED BY <1>1, <2>1, ProofsSame
<1>4. StatusEarned'
  BY <1>1, <1>2, <1>3 DEF VInv, TxnEarned, StatusEarned
<1>5. RowsTyped' /\ Recorded' /\ ResultsOfCompleted'
  BY <1>1 DEF VInv, RowsTyped, Recorded, ResultsOfCompleted, Docs, Attempts, NoTxn,
              Target, AdminOps, Statuses, Reviewed
<1>6. TxnEarned'
  BY <1>1, <1>3 DEF VInv, RowsTyped, TxnEarned, NoTxn
<1> QED BY <1>4, <1>5, <1>6 DEF VInv

LEMMA ReviewKeeps ==
    ASSUME VInv, NEW a \in Admins, NEW approve \in BOOLEAN, UpdateDocumentReview(a, approve)
    PROVE  VInv'
<1> DEFINE r == txn[a].ref
           verdict == IF approve THEN "APPROVED" ELSE "REJECTED"
<1>1. /\ doc' = [doc EXCEPT ![r].status = verdict] /\ txn' = [txn EXCEPT ![a] = NoTxn]
      /\ evidence' = (evidence \/ approve) /\ UNCHANGED <<attempt, status, waived>>
  BY DEF UpdateDocumentReview
<1> DEFINE judged == [doc[r] EXCEPT !.status = verdict]
<1>2. doc \in Seq(Document) /\ doc' = [doc EXCEPT ![r] = judged]
  BY <1>1 DEF VInv, RowsTyped
<1>3. r \in DOMAIN doc => judged \in Document /\ judged.status = verdict
  <2> SUFFICES ASSUME r \in DOMAIN doc PROVE judged \in Document /\ judged.status = verdict
    OBVIOUS
  <2>1. doc[r] \in Document
    BY <1>2
  <2> QED BY <2>1 DEF Document
<1> HIDE DEF judged
<1>4. /\ doc' \in Seq(Document) /\ DOMAIN doc' = DOMAIN doc
      /\ \A d \in DOMAIN doc : doc'[d].status = doc[d].status \/ doc'[d].status = verdict
  BY <1>2, <1>3, SeqUpdate
<1>5. RowsTyped'
  BY <1>1, <1>4 DEF VInv, RowsTyped, NoTxn
<1>6. evidence => evidence'
  BY <1>1
<1>7. Recorded'
  <2> SUFFICES ASSUME NEW d \in Docs', doc'[d].status = "APPROVED"
               PROVE  evidence'
    BY DEF Recorded
  <2>1. d \in Docs
    BY <1>4 DEF Docs
  <2>2. CASE doc[d].status = "APPROVED"
    BY <1>6, <2>1, <2>2 DEF VInv, Recorded
  <2>3. CASE doc[d].status # "APPROVED"
    <3>1. approve
      BY <1>4, <2>1, <2>3 DEF Docs
    <3> QED BY <1>1, <3>1
  <2> QED BY <2>2, <2>3
<1>8. ResultsOfCompleted' /\ Passed' = Passed
  BY <1>1 DEF VInv, ResultsOfCompleted, Passed, Attempts
<1>11. (Shown => Shown') /\ (Known => Known')
  BY <1>1, <1>6, <1>8, ProofsStay
<1>9. StatusEarned'
  BY <1>1, <1>11 DEF VInv, StatusEarned
<1>10. TxnEarned'
  BY <1>1, <1>11 DEF VInv, RowsTyped, TxnEarned, NoTxn
<1> QED BY <1>5, <1>7, <1>8, <1>9, <1>10 DEF VInv

(* The console asks for nothing: what it approves is waved through for good.  *)
LEMMA ConsoleKeeps ==
    ASSUME VInv, ConsoleApproves \/ \E s \in Subjects : ConsoleAdds(s)
    PROVE  VInv'
<1>1. CASE ConsoleApproves
  <2>1. status' = "APPROVED" /\ waived' = TRUE /\ UNCHANGED <<doc, attempt, evidence, txn>>
    BY <1>1 DEF ConsoleApproves, books
  <2>2. RowsTyped' /\ Recorded' /\ ResultsOfCompleted'
    BY <2>1 DEF VInv, RowsTyped, Recorded, ResultsOfCompleted, Docs, Attempts, Statuses
  <2>3. Shown' /\ Known'
    BY <2>1 DEF Shown, Known
  <2>4. StatusEarned' /\ TxnEarned'
    BY <2>3, Zenon DEF StatusEarned, TxnEarned
  <2> QED BY <2>2, <2>4 DEF VInv
<1>2. CASE \E s \in Subjects : ConsoleAdds(s)
  <2>1. UNCHANGED <<doc, attempt, evidence, txn, waived>> /\ status' = status
    BY <1>2 DEF ConsoleAdds, file
  <2> QED BY <2>1, RowsUntouched
<1> QED BY <1>1, <1>2

-----------------------------------------------------------------------------
(* The requests and the page keep their types, so that what a request names   *)
(* is of the catalogue, or at hand.                                         *)
Call ==
    [op: Ops \union {"none"}, todo: SUBSET Items, ref: Nat, stage: {"sent", "read", "done", "refused"},
     mounted: BOOLEAN, awaited: BOOLEAN]

PageTyped ==
    /\ call \in [Calls -> Call]
    /\ quiz \in [held: Nat, marked: BOOLEAN]

IInv == VInv /\ PageTyped

LEMMA SendsTyped ==
    ASSUME PageTyped, NEW op \in Ops, NEW todo \in SUBSET Items, NEW ref \in Nat, Sends(op, todo, ref)
    PROVE  call' \in [Calls -> Call]
<1> DEFINE request == [NoCall EXCEPT !.op = op, !.todo = todo, !.ref = ref, !.mounted = TRUE, !.awaited = TRUE]
<1>1. request \in Call
  BY DEF NoCall, Call
<1>2. PICK c \in Free : call' = [call EXCEPT ![c] = request]
  BY DEF Sends
<1> HIDE DEF request
<1> QED BY <1>1, <1>2 DEF PageTyped

LEMMA GoneTyped ==
    ASSUME PageTyped, NEW c \in Calls
    PROVE  Gone(c) \in [Calls -> Call]
BY DEF PageTyped, Gone, NoCall, Call

LEMMA RepliesTyped ==
    ASSUME PageTyped, NEW c \in Calls, NEW todo \in SUBSET Items, NEW ref \in Nat,
           NEW stage \in {"sent", "read", "done", "refused"}
    PROVE  Replies(c, todo, ref, stage) \in [Calls -> Call]
<1>1. CASE call[c].awaited
  <2> DEFINE reply == [call[c] EXCEPT !.todo = todo, !.ref = ref, !.stage = stage]
  <2>1. reply \in Call
    <3>1. call[c] \in Call
      BY DEF PageTyped
    <3> QED BY <3>1 DEF Call
  <2>2. Replies(c, todo, ref, stage) = [call EXCEPT ![c] = reply]
    BY <1>1 DEF Replies
  <2> HIDE DEF reply
  <2> QED BY <2>1, <2>2 DEF PageTyped
<1>2. CASE ~call[c].awaited
  BY <1>2, GoneTyped DEF Replies
<1> QED BY <1>1, <1>2

LEMMA DoneTyped ==
    ASSUME PageTyped, NEW c \in Calls
    PROVE  Done(c) \in [Calls -> Call] /\ Refused(c) \in [Calls -> Call]
<1>1. call[c].todo \in SUBSET Items /\ call[c].ref \in Nat
  BY DEF PageTyped, Call
<1> QED BY <1>1, RepliesTyped DEF Done, Refused

LEMMA OpensTyped ==
    ASSUME PageTyped, NEW p, NEW calls \in [Calls -> Call], Opens(p, calls)
    PROVE  call' \in [Calls -> Call] /\ quiz' \in [held: Nat, marked: BOOLEAN]
<1>1. quiz' \in [held: Nat, marked: BOOLEAN]
  BY DEF PageTyped, Opens, NoQuiz
<1>2. \A c \in Calls : [calls[c] EXCEPT !.mounted = FALSE] \in Call
  BY DEF Call
<1>3. call' \in [Calls -> Call]
  BY <1>2 DEF Opens
<1> QED BY <1>1, <1>3

(* What the pages do, and what they make of the answers.                     *)
LEMMA BrowserTyped ==
    ASSUME PageTyped,
           \/ \E p \in Pages : GoTo(p)
           \/ \E s \in Subjects : Begin(s)
           \/ CreateProfile \/ SaveSubjects \/ Upload \/ SendAnswers \/ Continue \/ SubmitApplication
    PROVE  PageTyped'
<1>1. ASSUME NEW p \in Pages, GoTo(p) PROVE PageTyped'
  BY <1>1, OpensTyped DEF GoTo, PageTyped, books
<1>2. ASSUME NEW s \in Subjects, Begin(s) PROVE PageTyped'
  BY <1>2, SendsTyped DEF Begin, PageTyped, books, browser, Items, Ops
<1>3. CASE CreateProfile
  BY <1>3, SendsTyped DEF CreateProfile, PageTyped, books, browser, Ops
<1>4. CASE SaveSubjects
  BY <1>4, SendsTyped DEF SaveSubjects, PageTyped, books, browser, Items, Ops
<1>5. CASE Upload
  BY <1>5, SendsTyped DEF Upload, PageTyped, books, browser, Items, Ops
<1>6. CASE SendAnswers
  BY <1>6, SendsTyped DEF SendAnswers, PageTyped, books, browser, Ops
<1>7. CASE Continue
  BY <1>7, OpensTyped DEF Continue, PageTyped, books
<1>8. CASE SubmitApplication
  BY <1>8, SendsTyped DEF SubmitApplication, PageTyped, books, browser, Ops
<1> QED BY <1>1, <1>2, <1>3, <1>4, <1>5, <1>6, <1>7, <1>8

LEMMA HandlersTyped ==
    ASSUME PageTyped, RowsTyped, NEW c \in Calls, Check(c) \/ Handle(c)
    PROVE  PageTyped'
<1>1. CASE Check(c)
  <2>1. [call EXCEPT ![c].stage = "read"] \in [Calls -> Call]
    BY DEF PageTyped, Call
  <2> QED BY <1>1, <2>1, DoneTyped DEF Check, PageTyped, browser, books
<1>2. CASE InsertProfile(c)
  BY <1>2, DoneTyped DEF InsertProfile, PageTyped, browser, books
<1>3. CASE AddSubject(c)
  <2>1. \A s : call[c].todo \ {s} \in SUBSET Items
    BY DEF PageTyped, Call
  <2>2. \A s : Replies(c, call[c].todo \ {s}, 0, "done") \in [Calls -> Call]
    BY <2>1, RepliesTyped
  <2> QED BY <1>3, <2>2, DoneTyped DEF AddSubject, PageTyped, browser
<1>4. CASE RequestDocumentUpload(c)
  <2>1. Len(doc) + 1 \in Nat /\ call[c].todo \in SUBSET Items
    BY DEF RowsTyped, PageTyped, Call
  <2> QED BY <1>4, <2>1, RepliesTyped DEF RequestDocumentUpload, PageTyped, browser
<1>5. CASE StartAssessment(c)
  <2>1. Len(attempt) + 1 \in Nat /\ call[c].todo \in SUBSET Items
    BY DEF RowsTyped, PageTyped, Call
  <2> QED BY <1>5, <2>1, RepliesTyped DEF StartAssessment, PageTyped, browser
<1>6. CASE SubmitAssessment(c)
  BY <1>6, DoneTyped DEF SubmitAssessment, PageTyped, browser
<1>7. CASE SubmitForReview(c)
  BY <1>7, GoneTyped DEF SubmitForReview, PageTyped, browser, books
<1> QED BY <1>1, <1>2, <1>3, <1>4, <1>5, <1>6, <1>7 DEF Handle

LEMMA AnswersTyped ==
    ASSUME PageTyped, NEW c \in Calls, Hear(c) \/ GiveUp(c) \/ Forget(c)
    PROVE  PageTyped'
<1>1. /\ Gone(c) \in [Calls -> Call] /\ Again(c) \in [Calls -> Call]
      /\ call[c].todo \in SUBSET Items /\ call[c].ref \in Nat
  <2>1. call \in [Calls -> Call] /\ call[c] \in Call
    BY DEF PageTyped
  <2>2. [call[c] EXCEPT !.stage = "sent"] \in Call
    BY <2>1 DEF Call
  <2>3. Again(c) = [call EXCEPT ![c] = [call[c] EXCEPT !.stage = "sent"]]
    BY <2>1 DEF Again
  <2>4. Again(c) \in [Calls -> Call]
    BY <2>1, <2>2, <2>3
  <2>5. call[c].todo \in SUBSET Items /\ call[c].ref \in Nat
    BY <2>1 DEF Call
  <2> QED BY <2>4, <2>5, GoneTyped
<1>2. CASE ProfileCreated(c)
  BY <1>1, <1>2, OpensTyped DEF ProfileCreated, PageTyped
<1>3. CASE SubjectAdded(c)
  BY <1>1, <1>3, OpensTyped DEF SubjectAdded, PageTyped
<1>4. CASE PutObject(c)
  <2>1. \A f : [Again(c) EXCEPT ![c].todo = call[c].todo \ {f}] \in [Calls -> Call]
    BY <1>1 DEF Call
  <2> QED BY <1>1, <1>4, <2>1, OpensTyped DEF PutObject, PageTyped
<1>5. CASE Begun(c)
  BY <1>1, <1>5 DEF Begun, PageTyped, NoQuiz
<1>6. CASE Marked(c)
  BY <1>1, <1>6 DEF Marked, PageTyped
<1>7. CASE Failed(c)
  BY <1>1, <1>7 DEF Failed, PageTyped, browser
<1>8. CASE GiveUp(c)
  <2>1. [call EXCEPT ![c].awaited = FALSE, ![c].mounted = FALSE] \in [Calls -> Call]
    <3> DEFINE r == [call[c] EXCEPT !.awaited = FALSE, !.mounted = FALSE]
    <3>1. call \in [Calls -> Call] /\ call[c] \in Call
      BY DEF PageTyped
    <3>2. r \in Call
      BY <3>1 DEF Call
    <3>3. [call EXCEPT ![c].awaited = FALSE, ![c].mounted = FALSE] = [call EXCEPT ![c] = r]
      BY <3>1
    <3> HIDE DEF r
    <3> QED BY <3>1, <3>2, <3>3
  <2> QED BY <1>1, <1>8, <2>1 DEF GiveUp, PageTyped, browser
<1>9. CASE Forget(c)
  BY <1>1, <1>9 DEF Forget, PageTyped, browser
<1> QED BY <1>2, <1>3, <1>4, <1>5, <1>6, <1>7, <1>8, <1>9 DEF Hear

-----------------------------------------------------------------------------
(* Every step keeps both: those of the tutor's side first, and of them those   *)
(* that change no row together.                                             *)
LEMMA TutorKeeps ==
    ASSUME IInv,
           \/ \E p \in Pages : GoTo(p)
           \/ \E s \in Subjects : Begin(s)
           \/ CreateProfile \/ SaveSubjects \/ Upload \/ SendAnswers \/ Continue \/ SubmitApplication
    PROVE  IInv'
<1>1. UNCHANGED <<doc, attempt, evidence, txn, waived, status>>
  BY DEF GoTo, Begin, CreateProfile, SaveSubjects, Upload, SendAnswers, Continue, SubmitApplication, books, file
<1>2. VInv'
  BY <1>1, RowsUntouched DEF IInv
<1>3. PageTyped'
  BY BrowserTyped DEF IInv
<1> QED BY <1>2, <1>3 DEF IInv

LEMMA RequestKeeps ==
    ASSUME IInv, NEW c \in Calls, Check(c) \/ Handle(c) \/ Hear(c) \/ GiveUp(c) \/ Forget(c)
    PROVE  IInv'
<1>1. VInv /\ PageTyped /\ RowsTyped
  BY DEF IInv, VInv
<1>2. PageTyped'
  BY <1>1, HandlersTyped, AnswersTyped
<1>3. VInv'
  <2>1. CASE RequestDocumentUpload(c)
    BY <1>1, <2>1, RegisterKeeps
  <2>2. CASE StartAssessment(c)
    <3>1. call[c].todo \subseteq Items
      BY <1>1 DEF PageTyped, Call
    <3> QED BY <1>1, <2>2, <3>1, StartKeeps
  <2>3. CASE SubmitAssessment(c)
    BY <1>1, <2>3, MarkKeeps
  <2>4. CASE PutObject(c)
    BY <1>1, <2>4, PutKeeps
  <2>5. CASE \/ Check(c) \/ InsertProfile(c) \/ AddSubject(c) \/ SubmitForReview(c)
             \/ ProfileCreated(c) \/ SubjectAdded(c) \/ Begun(c) \/ Marked(c) \/ Failed(c)
             \/ GiveUp(c) \/ Forget(c)
    <3>1. /\ UNCHANGED <<doc, attempt, evidence, txn, waived>>
          /\ status' = status \/ status' \in {"DRAFT", "SUBMITTED"}
      BY <2>5 DEF Check, InsertProfile, AddSubject, SubmitForReview, ProfileCreated, SubjectAdded, Begun,
                  Marked, Failed, GiveUp, Forget, books, file
    <3> QED BY <1>1, <3>1, RowsUntouched
  <2> QED BY <2>1, <2>2, <2>3, <2>4, <2>5 DEF Handle, Hear
<1> QED BY <1>2, <1>3 DEF IInv

LEMMA AdminKeeps ==
    ASSUME IInv, NEW a \in Admins,
           \/ \E op \in AdminOps : Transition(a, op)
           \/ UpdateStatus(a)
           \/ \E yes \in BOOLEAN : UpdateDocumentReview(a, yes)
           \/ \E d \in Docs : ReviewDocument(a, d)
    PROVE  IInv'
<1>1. VInv /\ PageTyped
  BY DEF IInv
<1>2. PageTyped'
  BY <1>1 DEF Transition, UpdateStatus, UpdateDocumentReview, ReviewDocument, Reads, browser, PageTyped
<1>3. ASSUME NEW d \in Docs, ReviewDocument(a, d) PROVE VInv'
  <2>1. d \in Nat
    BY <1>1 DEF Docs, VInv, RowsTyped
  <2> QED BY <1>1, <1>3, <2>1, ReadKeeps DEF ReviewDocument
<1>4. VInv'
  BY <1>1, <1>3, TransitionKeeps, WriteKeeps, ReviewKeeps
<1> QED BY <1>2, <1>4 DEF IInv

LEMMA InitInv == Init => IInv
<1> SUFFICES ASSUME Init PROVE IInv
  OBVIOUS
<1>1. doc = <<>> /\ attempt = <<>> /\ Docs = {} /\ Attempts = {}
  BY DEF Init, Docs, Attempts
<1>2. RowsTyped
  <2>1. doc \in Seq(Document) /\ attempt \in Seq(Attempt)
    BY <1>1
  <2>2. evidence \in BOOLEAN /\ waived \in BOOLEAN /\ status \in Statuses
    BY DEF Init, Statuses
  <2>3. txn \in [Admins -> [op: AdminOps \union {"none", "document"}, ref: Nat]]
    BY DEF Init, NoTxn
  <2> QED BY <2>1, <2>2, <2>3 DEF RowsTyped
<1>3. Recorded /\ ResultsOfCompleted /\ StatusEarned
  BY <1>1 DEF Init, Recorded, ResultsOfCompleted, StatusEarned
<1>4. TxnEarned
  BY DEF Init, TxnEarned, NoTxn
<1>5. PageTyped
  BY DEF Init, PageTyped, Call, NoCall, NoQuiz
<1> QED BY <1>2, <1>3, <1>4, <1>5 DEF IInv, VInv

LEMMA StepInv == IInv /\ [Next]_vars => IInv'
<1> SUFFICES ASSUME IInv, [Next]_vars PROVE IInv'
  OBVIOUS
<1>1. CASE Next
  <2>1. ASSUME NEW i \in Attempts, RunOut(i) PROVE IInv'
    <3>1. VInv'
      BY <2>1, RunOutKeeps DEF IInv
    <3>2. PageTyped'
      BY <2>1 DEF IInv, RunOut, PageTyped, browser
    <3> QED BY <3>1, <3>2 DEF IInv
  <2>2. ASSUME ConsoleApproves \/ \E s \in Subjects : ConsoleAdds(s) PROVE IInv'
    <3>1. VInv'
      BY <2>2, ConsoleKeeps DEF IInv
    <3>2. PageTyped'
      BY <2>2 DEF IInv, ConsoleApproves, ConsoleAdds, PageTyped, browser
    <3> QED BY <3>1, <3>2 DEF IInv
  <2> QED BY <1>1, <2>1, <2>2, TutorKeeps, RequestKeeps, AdminKeeps DEF Next
<1>2. CASE UNCHANGED vars
  <2>1. VInv'
    BY <1>2, RowsUntouched DEF IInv, vars, books, file
  <2>2. PageTyped'
    BY <1>2 DEF IInv, PageTyped, vars, browser
  <2> QED BY <2>1, <2>2 DEF IInv
<1> QED BY <1>1, <1>2

-----------------------------------------------------------------------------
(* A save is asked for on a page that needs the stored id, so there is a      *)
(* profile; it is refused while that is no draft, and none becomes a draft.  *)
Inner == {"subjects", "documents"}
Created == status # "NONE"

PagesNeedProfile ==
    /\ stored => Created
    /\ page \in {"apply", "status"} \/ stored
    /\ \A c \in Calls : /\ call[c].op \in Inner => stored
                        /\ call[c].op = "profile" /\ call[c].stage = "done" => Created

DInv == PageTyped /\ PagesNeedProfile /\ DraftCanBeSaved

LEMMA ProfileStays ==
    ASSUME DInv, PageTyped',
           \/ status' = status
           \/ status' \notin {"NONE", "DRAFT"}
           \/ status = "NONE" /\ status' = "DRAFT",
           stored => stored', stored' => stored \/ status # "NONE",
           page' = page \/ page' \in {"apply", "status"} \/ stored',
           \A c \in Calls : call'[c].op \in Inner => call[c].op = call'[c].op \/ stored,
           \A c \in Calls : call'[c].op = "profile" /\ call'[c].stage = "done" =>
               (call[c].op = "profile" /\ call[c].stage = "done") \/ status' # "NONE",
           \A c \in Calls : call'[c].op = "subjects" /\ call'[c].stage = "refused" =>
               (call[c].op = "subjects" /\ call[c].stage = "refused") \/ status' # "DRAFT"
    PROVE  DInv'
<1>1. Created => Created'
  BY DEF DInv, PagesNeedProfile, Created
<1>2. PagesNeedProfile'
  BY <1>1 DEF DInv, PagesNeedProfile, Created, Inner
<1>3. DraftCanBeSaved'
  <2> SUFFICES ASSUME NEW c \in Calls, call'[c].op = "subjects", call'[c].stage = "refused",
                      status' = "DRAFT"
               PROVE  FALSE
    BY DEF DraftCanBeSaved
  <2>1. call[c].op = "subjects" /\ call[c].stage = "refused"
    OBVIOUS
  <2>2. status # "DRAFT" /\ status # "NONE"
    BY <2>1 DEF DInv, DraftCanBeSaved, PagesNeedProfile, Created, Inner
  <2> QED BY <2>2
<1> QED BY <1>2, <1>3 DEF DInv

(* Requests of the pages, and pages that are opened.                         *)
LEMMA SendsStay ==
    ASSUME DInv, NEW op \in Ops, NEW todo, NEW ref, Sends(op, todo, ref), op \in Inner => stored,
           UNCHANGED <<browser, status>>, PageTyped'
    PROVE  DInv'
<1> DEFINE request == [NoCall EXCEPT !.op = op, !.todo = todo, !.ref = ref, !.mounted = TRUE, !.awaited = TRUE]
<1>1. request.op = op /\ request.stage = "sent"
  BY DEF NoCall
<1>2. PICK c \in Free : call' = [call EXCEPT ![c] = request]
  BY DEF Sends
<1> HIDE DEF request
<1>3. \A e \in Calls : call'[e] = IF e = c THEN request ELSE call[e]
  BY <1>2 DEF DInv, PageTyped
<1> QED BY <1>1, <1>3, ProfileStays DEF browser

(* What one request becomes, the others staying as they are (but for the page *)
(* they belonged to).                                                       *)
LEMMA AnswerStays ==
    ASSUME DInv, PageTyped', NEW c \in Calls,
           \A e \in Calls : e # c => call'[e].op = call[e].op /\ call'[e].stage = call[e].stage,
           \/ call'[c].op = "none"
           \/ /\ call'[c].op = call[c].op
              /\ \/ call'[c].stage = call[c].stage
                 \/ call'[c].stage \in {"sent", "read"}
                 \/ call'[c].stage = "done" /\ (call[c].op = "profile" => status' # "NONE")
                 \/ call'[c].stage = "refused" /\ (call[c].op = "subjects" => status' # "DRAFT"),
           \/ status' = status
           \/ status' \notin {"NONE", "DRAFT"}
           \/ status = "NONE" /\ status' = "DRAFT",
           stored => stored', stored' => stored \/ status # "NONE",
           page' = page \/ page' \in {"apply", "status"} \/ stored'
    PROVE  DInv'
<1>1. \A e \in Calls : call'[e].op \in Inner => call[e].op = call'[e].op \/ stored
  BY DEF Inner
<1>2. \A e \in Calls : call'[e].op = "profile" /\ call'[e].stage = "done" =>
               (call[e].op = "profile" /\ call[e].stage = "done") \/ status' # "NONE"
  OBVIOUS
<1>3. \A e \in Calls : call'[e].op = "subjects" /\ call'[e].stage = "refused" =>
               (call[e].op = "subjects" /\ call[e].stage = "refused") \/ status' # "DRAFT"
  OBVIOUS
<1> QED BY <1>1, <1>2, <1>3, ProfileStays

LEMMA PagesStay ==
    ASSUME DInv, PageTyped',
           \/ \E p \in Pages : GoTo(p)
           \/ \E s \in Subjects : Begin(s)
           \/ CreateProfile \/ SaveSubjects \/ Upload \/ SendAnswers \/ Continue \/ SubmitApplication
    PROVE  DInv'
<1> USE DEF Inner, file
<1>1. ASSUME NEW p \in Pages, GoTo(p) PROVE DInv'
  <2>1. /\ p \in {"apply", "status"} \/ stored
        /\ Opens(p, call) /\ UNCHANGED <<stored, status>> /\ p # page
    BY <1>1 DEF GoTo
  <2>2. page' = p /\ \A e \in Calls : call'[e].op = call[e].op /\ call'[e].stage = call[e].stage
    BY <2>1 DEF Opens, DInv, PageTyped, Call
  <2> QED BY <2>1, <2>2, ProfileStays
<1>2. CASE Continue
  <2>1. Opens("status", call) /\ UNCHANGED <<stored, status>>
    BY <1>2 DEF Continue
  <2>2. page' = "status" /\ \A e \in Calls : call'[e].op = call[e].op /\ call'[e].stage = call[e].stage
    BY <2>1 DEF Opens, DInv, PageTyped, Call
  <2> QED BY <2>1, <2>2, ProfileStays
<1>3. ASSUME NEW s \in Subjects, Begin(s) PROVE DInv'
  BY <1>3, SendsStay DEF Begin, Ops
<1>4. CASE CreateProfile
  BY <1>4, SendsStay DEF CreateProfile, Ops
<1>5. CASE SaveSubjects
  <2>1. stored
    BY <1>5 DEF SaveSubjects, DInv, PagesNeedProfile
  <2> QED BY <1>5, <2>1, SendsStay DEF SaveSubjects, Ops
<1>6. CASE Upload
  <2>1. stored
    BY <1>6 DEF Upload, DInv, PagesNeedProfile
  <2> QED BY <1>6, <2>1, SendsStay DEF Upload, Ops
<1>7. CASE SendAnswers
  BY <1>7, SendsStay DEF SendAnswers, Ops
<1>8. CASE SubmitApplication
  BY <1>8, SendsStay DEF SubmitApplication, Ops
<1> QED BY <1>1, <1>2, <1>3, <1>4, <1>5, <1>6, <1>7, <1>8

(* The handlers: a save is refused by a status that is no draft.             *)
LEMMA ReplyIs ==
    ASSUME PageTyped, NEW c \in Calls, NEW todo, NEW ref, NEW stage, NEW e \in Calls
    PROVE  LET r == Replies(c, todo, ref, stage) IN
           /\ e # c => r[e] = call[e]
           /\ r[c].op = "none" \/ (r[c].op = call[c].op /\ r[c].stage = stage)
<1>1. call \in [Calls -> Call]
  BY DEF PageTyped
<1> DEFINE r == Replies(c, todo, ref, stage)
<1>2. CASE call[c].awaited
  <2>1. r = [call EXCEPT ![c] = [call[c] EXCEPT !.todo = todo, !.ref = ref, !.stage = stage]]
    BY <1>2 DEF Replies
  <2>2. /\ r[c] = [call[c] EXCEPT !.todo = todo, !.ref = ref, !.stage = stage]
        /\ e # c => r[e] = call[e]
    BY <1>1, <2>1
  <2>3. r[c].op = call[c].op /\ r[c].stage = stage
    BY <1>1, <2>2 DEF Call
  <2> QED BY <2>2, <2>3
<1>3. CASE ~call[c].awaited
  <2>1. r = [call EXCEPT ![c] = NoCall]
    BY <1>3 DEF Replies, Gone
  <2> QED BY <1>1, <2>1 DEF NoCall
<1> QED BY <1>2, <1>3

LEMMA HandlersStay ==
    ASSUME DInv, PageTyped', RowsTyped, NEW c \in Calls, Check(c) \/ Handle(c)
    PROVE  DInv'
<1>1. call \in [Calls -> Call] /\ PageTyped
  BY DEF DInv, PageTyped
<1> USE DEF file
<1>2. CASE Check(c)
  <2>1. UNCHANGED <<stored, page, status>>
    BY <1>2 DEF Check, browser
  <2>2. CASE call' = [call EXCEPT ![c].stage = "read"]
    BY <1>1, <2>1, <2>2, AnswerStays DEF Call
  <2>3. CASE Refusable(c) /\ call' = Refused(c)
    <3>1. call' = Replies(c, call[c].todo, call[c].ref, "refused")
      BY <2>3 DEF Refused
    <3>2. call[c].op = "subjects" => status # "DRAFT"
      BY <2>3 DEF Refusable, Admissible
    <3>3. \A e \in Calls : e # c => call'[e] = call[e]
      BY <1>1, <3>1, ReplyIs
    <3>4. call'[c].op = "none" \/ (call'[c].op = call[c].op /\ call'[c].stage = "refused")
      BY <1>1, <3>1, ReplyIs
    <3> QED BY <2>1, <3>2, <3>3, <3>4, AnswerStays
  <2> QED BY <1>2, <2>2, <2>3 DEF Check
<1>3. CASE InsertProfile(c)
  <2>1. /\ UNCHANGED <<stored, page>> /\ call[c].op = "profile"
        /\ \/ status = "NONE" /\ status' = "DRAFT" /\ call' = Replies(c, call[c].todo, call[c].ref, "done")
           \/ status' = status /\ call' = Replies(c, call[c].todo, call[c].ref, "refused")
    BY <1>3 DEF InsertProfile, browser, Done, Refused
  <2>2. \A e \in Calls : e # c => call'[e] = call[e]
    BY <1>1, <2>1, ReplyIs
  <2>3. \/ call'[c].op = "none"
        \/ /\ call'[c].op = call[c].op
           /\ (call'[c].stage = "done" /\ status' = "DRAFT") \/ call'[c].stage = "refused"
    BY <1>1, <2>1, ReplyIs
  <2> QED BY <2>1, <2>2, <2>3, AnswerStays
<1>4. CASE AddSubject(c)
  <2>1. /\ UNCHANGED <<stored, page, status>> /\ call[c].op = "subjects"
        /\ \E s \in call[c].todo : call' = Replies(c, call[c].todo \ {s}, 0, "done")
    BY <1>4 DEF AddSubject, Checked, MayAdd, browser
  <2>2. PICK s \in call[c].todo : call' = Replies(c, call[c].todo \ {s}, 0, "done")
    BY <2>1
  <2>3. /\ \A e \in Calls : e # c => call'[e] = call[e]
        /\ call'[c].op = "none" \/ (call'[c].op = call[c].op /\ call'[c].stage = "done")
    BY <1>1, <2>2, ReplyIs
  <2> QED BY <2>1, <2>3, AnswerStays
<1>5. CASE RequestDocumentUpload(c) \/ StartAssessment(c) \/ SubmitAssessment(c)
  <2>1. /\ UNCHANGED <<stored, page, status>> /\ call[c].op \in {"documents", "begin", "answers"}
        /\ \E todo, ref, stage : /\ stage \in {"done", "refused"}
                                 /\ call' = Replies(c, todo, ref, stage)
    BY <1>5 DEF RequestDocumentUpload, StartAssessment, SubmitAssessment, Checked, browser, Done, Refused
  <2>2. PICK todo, ref, stage : stage \in {"done", "refused"} /\ call' = Replies(c, todo, ref, stage)
    BY <2>1
  <2>3. /\ \A e \in Calls : e # c => call'[e] = call[e]
        /\ call'[c].op = "none" \/ (call'[c].op = call[c].op /\ call'[c].stage = stage)
    BY <1>1, <2>2, ReplyIs
  <2> QED BY <2>1, <2>2, <2>3, AnswerStays
<1>6. CASE SubmitForReview(c)
  <2>1. UNCHANGED <<stored, page>> /\ status' = "SUBMITTED" /\ call' = [call EXCEPT ![c] = NoCall]
    BY <1>6 DEF SubmitForReview, browser, Gone
  <2>2. \A e \in Calls : call'[e] = IF e = c THEN NoCall ELSE call[e]
    BY <1>1, <2>1
  <2> QED BY <2>1, <2>2, AnswerStays DEF NoCall
<1> QED BY <1>2, <1>3, <1>4, <1>5, <1>6 DEF Handle

(* The answers: a page that is opened by one needs the id that it has stored,  *)
(* or that the request was sent with.                                        *)
LEMMA OpenedIs ==
    ASSUME PageTyped, NEW c \in Calls, NEW p, Opens(p, Gone(c))
    PROVE  /\ page' = p /\ call'[c].op = "none"
           /\ \A e \in Calls : e # c => call'[e].op = call[e].op /\ call'[e].stage = call[e].stage
<1>1. Gone(c) \in [Calls -> Call] /\ Gone(c)[c].op = "none" /\ \A e \in Calls : e # c => Gone(c)[e] = call[e]
  BY GoneTyped DEF Gone, PageTyped, NoCall
<1>2. \A e \in Calls : call'[e].op = Gone(c)[e].op /\ call'[e].stage = Gone(c)[e].stage
  BY <1>1 DEF Opens, Call
<1> QED BY <1>1, <1>2 DEF Opens

LEMMA AnswersStay ==
    ASSUME DInv, PageTyped', NEW c \in Calls, Hear(c) \/ GiveUp(c) \/ Forget(c)
    PROVE  DInv'
<1>1. call \in [Calls -> Call] /\ PageTyped
  BY DEF DInv, PageTyped
<1> USE DEF file
<1>2. ASSUME call' = Gone(c), UNCHANGED <<stored, page, status>> PROVE DInv'
  <2>1. \A e \in Calls : call'[e] = IF e = c THEN NoCall ELSE call[e]
    BY <1>1, <1>2 DEF Gone
  <2> QED BY <1>2, <2>1, AnswerStays DEF NoCall
<1>3. CASE ProfileCreated(c)
  <2>1. /\ stored' /\ status' = status /\ Opens("subjects", Gone(c))
        /\ call[c].op = "profile" /\ call[c].stage = "done"
    BY <1>3 DEF ProfileCreated, Answered
  <2>2. status # "NONE"
    BY <2>1 DEF DInv, PagesNeedProfile, Created
  <2> QED BY <1>1, <2>1, <2>2, OpenedIs, AnswerStays
<1>4. ASSUME call[c].op \in Inner, UNCHANGED <<stored, status>>,
             \E p : Opens(p, Gone(c))
      PROVE  DInv'
  <2>1. stored
    BY <1>4 DEF DInv, PagesNeedProfile
  <2>2. PICK p : Opens(p, Gone(c))
    BY <1>4
  <2> QED BY <1>1, <1>4, <2>1, <2>2, OpenedIs, AnswerStays
<1>5. ASSUME UNCHANGED <<stored, page, status>>,
             \A e \in Calls : e # c => call'[e] = call[e],
             call'[c].op = call[c].op, call'[c].stage \in {call[c].stage, "sent"}
      PROVE  DInv'
  BY <1>5, AnswerStays
<1>6. CASE SubjectAdded(c)
  <2>1. call[c].op \in Inner /\ UNCHANGED <<stored, status>>
    BY <1>6 DEF SubjectAdded, Answered, Inner
  <2>2. CASE call[c].todo # {}
    <3>1. call' = [call EXCEPT ![c].stage = "sent"] /\ UNCHANGED page
      BY <1>6, <2>2 DEF SubjectAdded, Again
    <3>2. /\ \A e \in Calls : e # c => call'[e] = call[e]
          /\ call'[c].op = call[c].op /\ call'[c].stage = "sent"
      BY <1>1, <3>1 DEF Call
    <3> QED BY <1>5, <2>1, <3>1, <3>2
  <2>3. CASE call[c].todo = {}
    BY <1>4, <1>6, <2>1, <2>3 DEF SubjectAdded
  <2> QED BY <2>2, <2>3
<1>7. CASE PutObject(c)
  <2>1. call[c].op \in Inner /\ UNCHANGED <<stored, status>>
    BY <1>7 DEF PutObject, Answered, Inner
  <2>2. PICK f \in call[c].todo :
          IF call[c].todo \ {f} # {}
          THEN call' = [Again(c) EXCEPT ![c].todo = call[c].todo \ {f}] /\ UNCHANGED <<page, quiz>>
          ELSE Opens("assessment", Gone(c))
    BY <1>7 DEF PutObject
  <2>3. CASE call[c].todo \ {f} # {}
    <3>1. call' = [[call EXCEPT ![c].stage = "sent"] EXCEPT ![c].todo = call[c].todo \ {f}] /\ UNCHANGED page
      BY <2>2, <2>3 DEF Again
    <3>2. /\ \A e \in Calls : e # c => call'[e] = call[e]
          /\ call'[c].op = call[c].op /\ call'[c].stage = "sent"
      BY <1>1, <3>1 DEF Call
    <3> QED BY <1>5, <2>1, <3>1, <3>2
  <2>4. CASE call[c].todo \ {f} = {}
    BY <1>4, <2>1, <2>2, <2>4
  <2> QED BY <2>3, <2>4
<1>8. CASE Begun(c) \/ Marked(c) \/ Failed(c) \/ Forget(c)
  BY <1>2, <1>8 DEF Begun, Marked, Failed, Forget, browser
<1>9. CASE GiveUp(c)
  <2>1. UNCHANGED <<stored, page, status>>
    BY <1>9 DEF GiveUp, browser
  <2>2. CASE call' = Gone(c)
    BY <1>2, <2>1, <2>2
  <2>3. CASE call' = [call EXCEPT ![c].awaited = FALSE, ![c].mounted = FALSE]
    <3>1. /\ \A e \in Calls : e # c => call'[e] = call[e]
          /\ call'[c].op = call[c].op /\ call'[c].stage = call[c].stage
      BY <1>1, <2>3 DEF Call
    <3> QED BY <1>5, <2>1, <3>1
  <2> QED BY <1>9, <2>2, <2>3 DEF GiveUp
<1> QED BY <1>3, <1>6, <1>7, <1>8, <1>9 DEF Hear

LEMMA DraftInit == Init => DInv
<1>1. Init => PageTyped
  BY InitInv DEF IInv
<1> QED BY <1>1 DEF Init, DInv, PagesNeedProfile, DraftCanBeSaved, NoCall, Inner

LEMMA DraftStep == IInv /\ DInv /\ [Next]_vars => DInv'
<1> SUFFICES ASSUME IInv, DInv, [Next]_vars PROVE DInv'
  OBVIOUS
<1>1. PageTyped' /\ RowsTyped
  BY StepInv DEF IInv, VInv
<1>2. ASSUME UNCHANGED <<browser, call, status>> PROVE DInv'
  BY <1>1, <1>2 DEF DInv, PagesNeedProfile, DraftCanBeSaved, Created, browser
<1>3. CASE UNCHANGED vars
  BY <1>2, <1>3 DEF vars, file
<1>4. ASSUME NEW a \in Admins,
             \/ \E op \in AdminOps : Transition(a, op)
             \/ UpdateStatus(a)
             \/ \E yes \in BOOLEAN : UpdateDocumentReview(a, yes)
             \/ \E d \in Docs : ReviewDocument(a, d)
      PROVE  DInv'
  <2>1. CASE UpdateStatus(a)
    <3>1. UNCHANGED <<browser, call>> /\ status' \notin {"NONE", "DRAFT"}
      BY <2>1 DEF UpdateStatus, Target, AdminOps
    <3> QED BY <1>1, <3>1, ProfileStays DEF browser
  <2>2. ASSUME ~UpdateStatus(a) PROVE UNCHANGED <<browser, call, status>>
    BY <1>4, <2>2 DEF Transition, UpdateDocumentReview, ReviewDocument, Reads
  <2> QED BY <1>2, <2>1, <2>2
<1>5. ASSUME NEW i \in Attempts, RunOut(i) PROVE DInv'
  BY <1>2, <1>5 DEF RunOut, file
<1>6. ASSUME ConsoleApproves PROVE DInv'
  <2>1. UNCHANGED <<browser, call>> /\ status' \notin {"NONE", "DRAFT"}
    BY <1>6 DEF ConsoleApproves
  <2> QED BY <1>1, <2>1, ProfileStays DEF browser
<1>7. ASSUME NEW s \in Subjects, ConsoleAdds(s) PROVE DInv'
  BY <1>2, <1>7 DEF ConsoleAdds, file
<1> QED BY <1>1, <1>3, <1>4, <1>5, <1>6, <1>7, PagesStay, HandlersStay, AnswersStay DEF Next

-----------------------------------------------------------------------------
(* Rows, requests and transactions keep their types.                         *)
THEOREM VettingTyped == Spec => [](RowsTyped /\ PageTyped)
<1>1. IInv => RowsTyped /\ PageTyped
  BY DEF IInv, VInv
<1> QED BY InitInv, StepInv, <1>1, PTL DEF Spec

(* However many requests carry the answers of an attempt, it is marked once   *)
(* (SubmitAssessment).                                                      *)
THEOREM AttemptMarkedOnce == Spec => []MarkedOnce
<1>1. IInv => MarkedOnce
  BY DEF IInv, VInv, ResultsOfCompleted, MarkedOnce
<1> QED BY InitInv, StepInv, <1>1, PTL DEF Spec

(* However many admins write over each other (UpdateStatus), an approved      *)
(* tutor whom the console has never approved has had a document approved and  *)
(* has passed a quiz.                                                        *)
THEOREM ApprovedVetted == Spec => []ApprovedWasVetted
<1>1. IInv => ApprovedWasVetted
  BY DEF IInv, VInv, StatusEarned, ApprovedWasVetted, Vetted, Passed, Shown, Known
<1> QED BY InitInv, StepInv, <1>1, PTL DEF Spec

(* However a save breaks off among its subjects and is made again (AddSubject, *)
(* ON CONFLICT DO NOTHING), it is refused only when the application is no     *)
(* draft any more.                                                          *)
THEOREM DraftSavable == Spec => []DraftCanBeSaved
<1>1. IInv /\ DInv => DraftCanBeSaved
  BY DEF DInv
<1> QED BY InitInv, StepInv, DraftInit, DraftStep, <1>1, PTL DEF Spec
=============================================================================
