# YK-Virtual: verification project

TLA+ models of YK-Virtual, a tutoring marketplace and school: its Go backend
(`src/internal`, `src/cmd`), its web client (`src/client`) and its phone app
(`src/mobile`). TLC checks the models on small instances; TLAPS proves
theorems about them for every value of their constants. The models follow the
code. Where a comment, a document or a text on the screen says something else,
the section "Disagreements" lists it.

## The system

The backend is two programs over one Postgres and one Redis: an API
(`cmd/api`), any number of replicas, and a worker (`cmd/worker`), any number of
replicas, that runs crons and queued jobs. They share nothing but the database,
Redis and the payment gateways. A service request is one transaction, or a few,
of `repository.UnitOfWork` (Postgres, READ COMMITTED); what keeps concurrent
requests apart is row locks, compare-and-set updates (`UPDATE ... WHERE status =
...`) and unique constraints. The web client (Next.js, React, TanStack Query) and
the phone app (Expo, React Native, no cache) talk to the API by JSON requests,
which time out, are given up and are sent again while their handlers go on.

| component | state | operations | what must hold | model |
|---|---|---|---|---|
| settlement (`payment_service.go`) | orders, payments, payment_webhooks | InitiatePayment, ProcessWebhook, VerifyOrder, ConfirmManualPayment | an order is settled once, by captured money; captured money settles | `Settlement` |
| cohort seats (`booking_service.go`) | enrolled_count, enrollments | CreateCohortBooking, ExpireStalePendingEnrollments | seats are counted, never oversold by a booking; a paid payer has a seat; abandoned seats come back | `Settlement` |
| escrow and refunds (`payment_service.go`) | escrow_holds, payouts, wallet | ReleaseEscrow, ExpireStaleHolds, RefundOrder, RefundEscrow | the money of an order leaves escrow once, to one side | `Escrow`, `Custody` |
| job queue (`worker/queue.go`) | four Redis structures | Enqueue, EnqueueIn, Run, process, promoteLoop | no job is forgotten but by a fault it met; only exhausted jobs are dead-lettered | `JobQueue` |
| timed practice exams (`ExamPlayer.tsx`, `[examId].tsx`, `practice_exam_service.go`) | attempts, players | start, answer, submit, auto-submit, resume, mark when lapsed | one sitting at a time; submitted as shown; closed early by the student only; ended when time is up | `Sitting` |
| practice bank (`PracticePlayer.tsx`, `cbt_service.go`) | signed tickets, the player | draw, answer, tick, grade | nothing is sent before its time; the clock runs out | `Bank` |
| sign-up (`onboarding/page.tsx`, `auth_service.go`) | accounts, codes, draft, session | seven steps, wizard, codes, Google | nobody goes on with another's draft, and who is proven keeps theirs | `Onboarding` |
| signed-in pages of the web client | the query cache | 46 panels: query, change, refetch | who made a change sees it, and nobody what was never made, once the view is fetched again | `QueryCache` and its tables |
| screens of the phone app | each screen's list | load, change, poll, resend | the same, without a cache | `PhoneScreen` and its tables |
| session of the phone app (`api.ts`, `_layout.tsx`) | stack of screens, stored token | sign-in, requests, 401, links | links lead somewhere; a dead session is noticed | `PhoneApp` |
| buying lessons in the client (`CheckoutClient.tsx`, `PrivateBookingForm.tsx`) | keys, the form, the card | submit, give up, press again, poll | one order per opened checkout; the link is of what was pressed | `Purchase` |
| tutor application and vetting | profile, scope, documents, quiz | the tutor's pages, the admins' transitions, the tutor console | marked once; approved by the review only when vetted; a draft can be saved | `Vetting` |
| payouts, cron lock, wallet and referrals, Plus terms, coupons, waitlist, matching, tokens, broker | - | - | see the plan | planned |
| notifications, rate limiter, content, HTTP, configuration, schema | - | - | - | not modelled |

`PROJECT.json` has the full list with the reason for what is left out.

How they interact: a booking inserts the order that a payment settles; the
settlement confirms the booking's enrollment, activates what was bought, creates
the escrow hold and rewards a referral; the sweep cancels orders and enrollments
behind the back of both; crons release holds into payouts; refunds undo orders,
holds and enrollments; gateways call back whenever they like, and again. These
share rows, not messages, so they are one state machine (`Settlement`, extended
by `Escrow`). The queue carries notifications and shares no row with them. The
clients hold copies: a draft, a list, a token, a ticket, an order's status, each
as old as the answer it came with. Their models have the client in full and of
the server what the client can tell apart.

The hard behaviour is: transactions that interleave between a read and the write
based on it; calls to a gateway in the middle of a transaction; redelivered and
late webhooks; workers that die between two Redis commands, and commands whose
errors nobody looks at; requests that go on
after their page gave them up; answers that land out of order; closures that see
an old render; two people at one browser. "hazards" in `PROJECT.json` lists each
at its line, with the properties for it.

## Modules

**`Settlement`** models `payment_service.go` up to the settlement and the part
of `booking_service.go` that competes with it. Variables are the columns that
matter (`order`, `pay`, `hook`, `seat`, `enrolled`, `hold`, `access`,
`rewarded`), what the gateway has captured (`captured`), and the requests in
flight (`tx`). A request is a record with what it has read and will act on; it
takes a step per point at which another transaction can be seen: its reads
(`InitiateBegin`, `WebhookBegin`, `VerifyBegin`, `VerifyReload`, `ManualBegin`),
the compare-and-set `TryMarkPaid`, which locks the order row, and the commit
(`SettleCommit`), which makes its writes visible at once; `SettleLost` for the
request whose compare-and-set matches no row; `SweepList` (FOR UPDATE SKIP
LOCKED) and `SweepCommit`; `Rollback` anywhere before the commit (a lost
connection, a lost process, a failing statement, or the deadlock that the lock
orders of settlement and sweep permit). Requests that write in one statement, or
under a lock that covers all they read, are one action. `Capture` is the gateway.

**`Escrow`** EXTENDS `Settlement` with releases and refunds as further kinds of
requests: the hold is read, the gateway is called (refunds), and the hold is
compared and set at the commit. **`Custody`** says what the two promise together,
without the requests: the money of an order is held once and leaves escrow once.
`Escrow` implements it under the mapping `CustodyOf`, which reads an order's
custody off payouts, wallet credits and the hold's status.

**`JobQueue`** models `RedisQueue`. Lists are bags of copies of a job (its id and
attempts); `consumer` is where each worker is in `process`, `listed` what its
promoter has read and not yet promoted. Each action is one Redis command or one
transaction of commands, so `Crash` falls between any two. A command of a worker
that lives on may fail as well (`TakeUnanswered`, `WriteFails`, `AckFails`,
`PromoteFails`): `process` and `promoteLoop` go on as if it had not, the deferred
LREM included. When a handler panics (`Panic`), that LREM runs while the stack
unwinds, and then the process ends.

**`Sitting`** is one student's timed exam on browser tabs and phones. `dev` are
the players (phase, attempt held, sheet, the latch `submittedRef`), `call` the
requests with the step their handler has reached between its queries, `att` the
rows of `practice_attempts` with their partial unique index. `TimeUp` is the
clock: attempts fall due in the order they were opened.

**`Bank`** is the practice bank, where the server keeps nothing: a ticket carries
the deadline, signed with a key that a restart changes. The player's interval
keeps the closure of the render it was started in (`captured`), and `beat` is
the second that has passed and is not counted yet.

**`Onboarding`** is a browser with the sign-up page, its draft in localStorage,
the wizard, the session cookie and the accounts behind them. Effects that a
render has still to run (`due`) are steps, because answers come between a render
and its effects. People leave the browser to each other with `NextPerson`.

**`QueryCache`** is a page over TanStack Query: entries that are shown, stale,
being fetched; the changes of the panel and of others; the fetches that
overlap them. What each panel queries, changes and invalidates are rows of data in
**`AdminPanels`**, **`TeachingPanels`** and **`AccountPanels`**, written with the
helpers of **`PanelRows`**; a page of sections (the dashboards of tutor, student,
parent and super administrator, the two learning homes) is the union of what its sections query,
each a definition of its own. **`MCConsole`** opens them one view (or family of
views) at a time. `CoverRule` is the rule the rows keep: what a request changes is
invalidated or set by its answer, or listed as forgotten; `MCConsole` assumes it of
its rows, so that every run evaluates it. What is forgotten is what the code
forgets: the account's profile after its bank details (`tutor-dashboard/page.tsx:272`
invalidates a key that no query has), a user's detail after a change of role or
status, the threads after a reply. `sure` is a history variable, of no influence on
any step: the outcomes of requests that a view has to show, because the page had
heard of them before the server answered its last fetch, or has heard of them since
with no fetch under way. What an answer, a fetch and a selection made in between
may leave wrong until then is wrong in the model too: the properties for any moment,
`OwnWritesShownAtOnce` and `NoPhantomAtOnce`, stand beside the others and do not hold.

**`PhoneScreen`** is a screen of the phone app, which keeps its list in its own
state: several loads under way, the last to land is seen, requests sent twice by
`apiFetch`, errors that are swallowed, messages guessed before they are sent. Rows in
**`PhonePublic`**, **`PhoneLearner`** and **`PhoneTutor`** (helpers in
**`PhoneRows`**); **`MCScreen`** runs each kind of list screen once. `ScreenRule` is
what the rows keep, which `MCScreen` assumes of them likewise. Nothing in the code
notes which load was begun first: an older one that lands last wins, over a newer
load (`my-lessons.tsx:57`) and over what an answer has set (`notifications.tsx:66-78`).
`sure` and `steady` are history variables: the changes, and the learner, that a load
begun with nothing else under way has seen. From then on the screen has to be right.

**`PhoneApp`** is the stack of those screens with the token in SecureStore,
written later than the code goes on, and the requests that carry the token of when
they were begun: loads of the screens (`calls`), and the presses that sign in or
out, end the setup or delete the account (`flows`), each with a step for the
request, its answer or failure, and the write of the store it awaits (`who` and
`leave` in `writing` are what goes on after such a write). A screen may be left in
between; what follows then replaces whatever is on top. **`MCPhone`** merges screens
that the app treats alike.

**`Purchase`** is the checkout of a cohort and the private booking form, with the
server's replay by idempotency key and the payment card that polls and asks the
gateway. Settlement is one step here.

**`Vetting`** is the tutor's pages from profile to status, each of which may be
left while its requests go on, the admins' transitions, each a read and an
unconditional UPDATE, and the tutor console (`UpsertTutorAdmin`), which approves a
profile and adds subjects whatever its status (`ConsoleApproves`, `ConsoleAdds`).
`waived` is a history variable: the console has approved this tutor.
**`MCVetting`** adds symmetry.

The **`...Proofs`** modules hold the theorems, **`MC...`** the instances.
Operators marked `\* mutant` are deliberate faults that no other definition
uses: `PROJECT.json` "mutants" pairs each with the definition it replaces and the
property that then fails.

## What is abstracted

`Settlement`, `Escrow`:
- Amounts: a capture reconciles or does not. One cohort; an order has one item.
- Every payer is taken to be a referred user, refunds to be enabled.
- Time: `Age` says that the cutoff of the sweep has passed a payer's rows; a
  hold's release date is left out, so it may be released from the start (as the
  client's confirmation can).
- Coupons; lessons, receipts, audit entries; the limit of 200 rows of a sweep.
- Reads of one request that nothing can come between to matter are merged.
- A gateway that refuses a refund ends the request without a write, which is
  `Rollback`. What the gateway has done is not undone by a rollback.
- An attempt whose insert is rolled back after its link was made leaves a link
  without a payment; a webhook for it matches no payment and is consumed. Left out.

`JobQueue`: a delayed job is due at any time; the order of lists and LastError are
left out, and so are go-redis' own retries: a failed command is one that has had them.

`Sitting`: attempts of one exam have the same duration, so they fall due in the
order they were opened. Marking and the exam's content are left out; a mark is
the sheet it is of. `Bank`: a browser's clock differs from the server's by less
than a tick; its ticks are not throttled (the tab is in front). The time left
is rounded down when the player is mounted (`Cuts`), so a paper may close up to a
second before its deadline, which `NeverCutShort` allows.

`Onboarding`: a name and address are the person who typed them; an address is
that person's. Sessions are cookies of one account; tokens and throttling are
left out. A second operation begun while one is under way is allowed by
`Overlap`, empty in the run.

`QueryCache`: one view of a panel at a time, since an entry of the cache depends
on no other; requests that treat it alike are merged; filters and pages are one
view, members of a family only where an invalidation is keyed by the selection; a
request leaves at once; what a screen computes from its data is left out.
`PhoneScreen`: screens of one shape are one; a poll that finds nothing new is left
out; the stored copy of a list is that of the account that reads it.
`PhoneApp`: accounts and roles are left out, so a screen has the links of any
viewer; one load and one press under way at a time in the run (`MaxCalls`,
`MaxFlows`); sessions are taken in a fixed order, as they are alike. The requests
of the registration form and of `registerDevice` are requests like any other
(`Send`): what their handlers do shows on one screen.

`Purchase`: settlement is one step, one coupon code, the card's tick and its
gateway check may overlap; the redirect on a 401 and the gateway's own page are
left out. `Vetting`: handlers of profile and documents are atomic (they write in
one statement); the visibility of a profile and the lapse of a pass are left out;
what a page sends is chosen when its button is pressed. How many questions a
subject has is left out, so that "begin" may always be refused (`Refusable`). The
console acts on a profile that there is: one it would create has the empty status,
which Postgres refuses (see "Disagreements").

## Runs

| run | instance | states | shows |
|---|---|---|---|
| `checkout` | one payer, two orders for one seat; attempts at two gateways and by hand; a reference with a declined charge; 2 requests at once | 1.25 M | settled exactly once, by captured money, with the seat |
| `rivals` | two payers, one seat, a private package; fair | 12 k | seats counted, oversold by a late payment only, captured money settles, stale seats end |
| `escrow` | a tutored cohort order (gateway, manual) and a Plus order | 240 k | custody, books, holds, no way back for PAID |
| `queue` | a routable and an unroutable job, 2 workers, 2 attempts, 1 death, 1 failed command or panic; fair | 694 k | a fault forgets one job at most, a death none; dead letters used their attempts; every job ends save one for each of them |
| `sitting` | a tab and a phone, one question, 2 attempts, 2 requests, 1 fault; fair | 692 k | one sitting, latch, phone, no early close, time up ends it |
| `bank` | two sheets, a limit of 3 and a grace of 1, clock to 7, a restart; fair | 14 k | never before its time, the clock runs out |
| `onboarding` | two people, one with an account, 2 requests, 1 fault | 3.1 M | own draft only, proven keeps draft |
| `console` | every view of every panel, 2 changes, 1 fault; fair | 704 k | own writes shown and no phantom from the next fetch on, polled catches up |
| `screens` | every kind of list screen, 2 learners, 2 changes, 2 loads, 2 faults; fair | 479 k | own change shown and right learner from the next undisturbed load on, no ghost, polled catches up |
| `phone` | the kinds of screens, 2 sign-ins, 3 deep, a load and a press under way, 2 writes of the store; fair | 1.6 M | no dead link, a dead session is noticed |
| `purchase` | two learners, 2 requests, 1 poll and a check, 2 orders, 2 visits, 3 keys, 1 fault; fair | 2.1 M | one order per visit, link of the press, the card notices |
| `vetting` | a subject, a document, 2 requests, 2 admins and the console, 2 attempts, 1 fault | 5.3 M | marked once, approved by the review was vetted, draft can be saved |

Bounds. Two requests at once (`Txs`, `Calls`, `Slots`): every race in this code is
between two requests over the rows, or the screen, of one thing, and a request
that has ended leaves its slot, so any number follow one another. Two orders of
one payer are what rebooking needs, two payers and one seat what overselling
needs; three or four attempts give an order two gateways and a manual
confirmation. `MaxAttempts` = 2 of the queue has a first, a last and no other
attempt; `MaxCrashes` = 1 is one death anywhere, `MaxFaults` = 1 one failed command
or panic. Two sittings are one that is
replaced by the next. Two changes (`Writes`) are one and another that overtakes
it, two loads likewise. `MaxFaults` is one lost answer anywhere, two where a lost
request and a lost load have to meet. `MaxTime` lets a paper be drawn, run out
and be drawn again. The application has one subject: a save that breaks off between
two of them is covered by the proof (`DraftSavable`). The theorems below hold for any value of these bounds. Deadlock is not checked where
the bounded things are used up in the end; `sitting` has it checked, since time
and the student always go on.

`SeatsCounted` is checked where each payer has one order. With a second booking
by the same payer it is false (see "Disagreements"). `CaptureSettles` is checked
without declined references: an event for a failed charge consumes the reference
(`WebhookConsume`), and a later success event is then ignored; in the code the
payer's verification is the way out, and nobody is obliged to press it.

## Fairness

- `Settlement`: a gateway redelivers a success event until it is acknowledged
  (strong, as a delivery can be turned away while another is being processed);
  the sweep runs on every tick of the worker's ticker; a request that is made
  again and again is not rolled back every time (strong fairness on its steps);
  Postgres ends a deadlock. Nobody has to book, pay, verify or confirm.
- `JobQueue`: the loop of a worker goes on and its handlers return; what a
  promoter has read it promotes; some promoter reads what is due. No fairness on
  deaths or enqueuing.
- `Sitting`: the interval of the player ticks (strong, because in the model a
  request waits for one of `Calls`, a bound the code does not have); handlers run,
  answers are taken. The student has to do nothing.
- `Bank`: the interval fires, a request is answered or lost, the answer is taken.
- `QueryCache`: a fetch is answered, lands, and the intervals of polled queries
  fire, one assumption per view (the window is visible).
- `PhoneScreen`: loads are answered or fail, intervals fire.
- `PhoneApp`: writes of the store are done, a screen in front loads, and the server
  does not stay out of reach for ever: any number of requests may be lost, but where
  one is begun again and again one is answered (strong fairness on `Replies`).
- `Purchase`: the card's interval fires, and its read is answered and lands.
- `Onboarding`, `Vetting`: none; their properties are safety.

## Proofs

All theorems are proved from the named assumptions of the modules only: constants are
numbers or sets of the kind their declarations say, nil is no id, Plus orders
have no tutor, tabs are not phones. The exceptions carry their hypothesis in the
theorem: `SeatCountExact` (`OneOrderEach`) and the theorems of
`QueryCacheProofs` (`CoverRule`), those of phone screens in `PhoneProofs`
(`ScreenRule`), `EveryScreenIs` (`LinksLead`) and `OnboardingOwnDraft` (`Overlap`
without "verify"). The two rules of rows are evaluated by TLC on the tables of this code;
the `phone` run follows the links of every kind of screen it reaches. A property is seldom inductive; each
component's strengthening stands at the end of its module or before the steps of
its proof, as a conjunction of named parts, and is proved as `Init => Inv`,
`Inv /\ [Next]_vars => Inv'`, one lemma per action or group of conjuncts, then the
temporal step.

**`EscrowProofs`**, settlements and sweeps alone (`Invariance`, `TypeCorrect`, `SettlesOnce`,
`SuccessIsFunded`, `PaidHasSeat`, `SettledForGood`, `BookingNeverOversells`,
`SeatCountExact`). That an order has no second successful payment rests on the
request that is about to commit one: its payment belongs to its order
(`RequestsWellFormed`); the winner of the compare-and-set is the only one and its
order is still settleable (`WinnerIsAlone`); an attempt being inserted is used by
nobody else (`InsertsAreUnseen`); what a webhook, or a verification with its
answer, carries was captured (`SettlersAreFunded`). These, with the type
invariant and the two properties, are `Core`. `IInv` adds that rows locked by a
sweep stay PENDING and a seat seen CONFIRMED stays so (`RowsStayLocked`), and
`PaidIsSeated`. The split is what refunds force: a refund leaves a payer who has
paid twice without a confirmed seat, so `Escrow` keeps `Core` only.
`BookingNeverOversells` needs in addition that an open checkout is the one its
payer's seat was taken for (`OpenCheckoutHasSeat`): a settler that retakes a seat
then settles a CANCELLED order. `SeatCountExact` needs that seats follow their
orders and that what a settler has seen of its seat is still so when it commits
(`SeatFollowsOrder`). That is true as long as nobody books the cohort again after
losing a seat, which is its hypothesis; with rebooking the count goes wrong in
the code as well (`ConfirmedSeatsCounted`, below).

**`EscrowProofs`**, releases and refunds as well (`EscrowInvariant`, `EscrowTyped`, `BooksBalance`,
`HoldsAreFunded`, `StillSettledOnce`, `RefundedForGood`,
`EscrowImplementsCustody`). `EscrowInv` is `Core` again, over the larger
next-state relation, with `BooksAgree`, `HoldIsFunded` and the shape of the
requests (`RefundsWellFormed`): a refund never touches an order whose row a
settler has locked, and moves it only to REFUNDED, from which none settles.
Refinement: the initial custody is the payer's; `SettleCommit` of a tutored order
is `Custody!Hold`, `ReleaseCommit` is `PayOut`, `RefundHoldCommit` is `Return`;
every other step leaves `CustodyOf` as it is. The theorem states the whole of
`Custody`'s specification.

**`JobQueueProofs`** (`QueueInvariant`, `DeadHadAllAttempts`, `FaultsForgetOneEach`).
Copies still to be handled have attempts left and claim none that was not made
(`CopiesPending`); each consumer that holds a copy has an element of its own in
the processing list (`HeldIsListed`, a count, since promoters can duplicate a
copy and workers then hold equal ones); an unfinished job has a copy somebody
still has to deal with, or one that nobody holds in the processing list (`Owed`),
save one job at most for each failed command and panic so far (`FewDropped`).

**`PracticeProofs`**, timed exams (`SittingInvariant`, `SittingTyped`, `OneSittingAtATime`,
`LatchIsExact`, `PhoneIsHonest`, `NeverClosedEarly`), for any number of tabs,
phones, questions, attempts and requests. Each request names the attempts it may
still touch (`Consistent`): a start that has gone on to write names a due attempt,
which is why no start closes one with time left. A tab awaits one answer at a
time, a phone one to what it submitted, in the phase it asked in (`OneAwaited`,
`AwaitedInPhase`): that makes the latch exact.

**`PracticeProofs`**, practice bank (`BankInvariant`, `BankTyped`, `OneGradingAtATime`,
`AutoSubmitIsDue`), for any answers, limits, grace and number of
restarts. `ClockReachesDeadline` relates the clock shown, the second that is not
counted yet and the ticket's deadline; `IntervalOfRunning` and `LatchOfGrading`
say which player the interval and a grading belong to.

**`PurchaseProofs`** (`PurchaseInvariant`, `PurchaseTyped`, `OneOrderEachVisit`,
`LinkIsOfPress`), for any learners, keys, visits, orders and requests. The key of a
checkout stands for the opening of the page (`KeyIsVisit`) and no two orders have
one in common (`OneOrderPerKey`, the unique column). A request that is about an
order fits it (`Fits`, `Matches`); in the private form every press has a key of its
own (`PressesDiffer`), so no replay can answer it with another press's order.

**`QueryCacheProofs`** (`CacheTyped`, `OwnWrites`, `NoPhantoms`), for any panels
that keep `CoverRule`, any number of changes and faults. What a view has to show
(`sure`) are requests whose outcome does not change any more; what a fetch has read
was made, with every told change of `sure` among it; and a view at rest that is on
screen, or fresh, holds those and none that failed (`Good`, `Counted`). A closed view
that was invalidated need not be right: it is fetched when it is opened. A view that
answers only set stays right because nothing invalidates it (`OnlySetIsApart`, part of
the rule). A list that an error puts back into a member of a family is fetched again
in the same step, whichever member that is by then; the member the guess was made in
is closed, and has to show nothing that is heard of meanwhile (`Reaches`).

**`PhoneProofs`**, screens (`ScreenTyped`, `ListIsOfLearner`, `GuessesGo`,
`OwnChanges`), for any screens that keep `ScreenRule` (a list asked for a learner is
asked again on every focus; what changes a list reloads or sets it; a guess is
replaced by what its answer, or error, loads), any learners, changes, loads and
faults. `LearnerInv`: once a load was begun for the selected learner with nothing else
under way (`steady`), every load under way and the list are of that learner.
`GhostInv`: a guess has its request or a reload of it under way. `ChangeInv`: a
change in `sure` is in the list of a screen at rest and in whatever a load under way
has read (`Holds`), so that it is there whichever lands last.

**`PhoneProofs`**, the app (`PhoneTyped`, `EveryScreenIs`), for
any table of screens, sessions and bounds. `AppInv`: whatever is on the stack is a
place the app's steps or links lead to, and what is stored, about to be stored or
carried by a press is a session there has been, or none. A screen is then dead only
by a link, and the tables have none (`LinksLead`).

**`OnboardingProofs`** (`OnboardingTyped`, `OnboardingDraft`, `OnboardingKeeps`,
`OnboardingOwnDraft`), for any people, accounts, requests and faults.
`ProvenKeepsDraft` is a step's property; what a step may rely on is `DraftInv`: once
the address is verified on this page, draft and disk agree and have an owner
(`ProvenDraft`), so the effect that drops a stranger's draft has nothing to drop; a
code or a registration under way is to its address (`OwnCode`, `Addressed`); and a page
that is left takes its requests with it (`CallsOfPage`). `OwnInv` adds, for
`OwnDraftOnly`, who the draft, the cookie and the cached session belong to: the cached
session is not another account's than the cookie (`SameUser`), an answer that plants a
session plants one's own (`AnswersOwn`), and a page at rest that proves nothing has no
draft of another account (`Matched`). The hypothesis is needed: with "verify" and
"register" both in `Overlap` and four slots, TLC finds a registration of an address
typed earlier that is answered after another one was verified, and makes the draft
its own. The page disables its buttons while a request is under way (`submitting`); the
hypothesis is that nothing gets around that for the code.

**`VettingProofs`** (`VettingTyped`, `AttemptMarkedOnce`, `ApprovedVetted`,
`DraftSavable`).
Results are of completed attempts and are written with the completion
(`Recorded`, `ResultsOfCompleted`); what a transaction of an admin has read -- an
approved document, a passed quiz -- is never taken back before it writes
(`StatusEarned`, `TxnEarned`), although the profile's row is not locked; both except
whom the console has approved (`waived`). A save of the
subjects is asked for on a page that needs the stored id, which there is only
with a profile (`PagesNeedProfile`); nothing makes a profile a draft again, so an
answer that refuses the save for its status is still right when it is read.

Only model-checked: liveness (`CaptureSettles`, `StaleSeatResolved`,
`EndsSaveOnePerFault`, `TimeUpEndsSitting`, `ClockRunsOut`, `PolledCatchesUp`,
`PolledScreenCatchesUp`, `DeadSessionNoticed`, `CardNoticesPayment`), which is
beyond the prover. Every invariant and action property of a run is stated by a
theorem.
A private package is created but not paid for in the runs; that its activation
happens once is part of `SettledExactlyOnce`, which `SettlesOnce` proves for it.

## Disagreements

Each is stated in its module as a property with "It does not hold.", which is the
place to begin when the code changes.

| property | the source says | the code does |
|---|---|---|
| `Settlement!FreshCheckoutKept` | the sweep cancels enrollments "older than olderThan" (`booking_service.go:693`) | it goes by `created_at` of the enrollment (`booking_repo.go:282`), which a rebooking keeps: a checkout made a moment ago is cancelled |
| `Settlement!ConfirmedSeatsCounted` | a late settlement "must re-take" the seat (`payment_service.go:584`) | it re-takes by what it read before the rebooking or the sweep: a confirmed student without a counted seat |
| `Settlement!RewardNeedsPayment` | side effects belong to the one settlement (`payment_service.go:487`) | the referral reward commits on its own connection (`:518`) and survives a rollback of the settlement |
| `Escrow!NoRefundAfterRelease` | such an order "can never reach the gateway" (`payment_service.go:972`) | the check (`:1002`) is not under a lock: a release or a second refund between check and call is refunded all the same |
| `Escrow!RefundedByGateway` | "the books never say REFUNDED unless the gateway accepted" (`payment_service.go:976`) | the order is overwritten (`:1036`) also when its payment succeeded after the refund had read the payments |
| `JobQueue!AtLeastOnce` | "delivery is at-least-once" (`queue.go:26`) | nothing reads the processing list, so a job whose worker died with it is not delivered again; the errors of ZADD and LPUSH are ignored (`:216`, `:224`) and the LREM runs all the same, as it does under a panic (`:187`): the job is gone |
| `Sitting!MarkIsFinal` | "You cannot change anything after submitting." (`ExamPlayer.tsx:532`) | `UpdateAttempt` (`practice_exam_repo.go:230`) is unconditional: of two overlapping submissions the later replaces mark and answers |
| `Bank!AutoSubmitLands` | the grace is "so a browser auto-submit at 00:00 still lands" (`CBT-EXPANSION.md:28`) | the clock shown starts when the player is mounted and counts from "start", so a brief read for long uses the grace up |
| `Bank!AutoSubmitSendsScreen` | "the paper auto-submits when the clock hits zero" (`PracticePlayer.tsx:157`) | the interval's closure (`:117`) is that of an earlier render: it sends the answers of then |
| `Onboarding!NameIsOwn` | "the next person on this browser starts from step 1 clean" (`onboarding/page.tsx:1010`) | a draft that has no owner yet is kept for the next person, name included |
| `PhoneApp!ClearsDeadSession` | only a 401 with a token means "your session died" (`mobile/src/lib/api.ts:146`) | a late 401 of an earlier session clears the token a new sign-in has stored |
| `QueryCache!OwnWritesShownAtOnce` | a mutation invalidates or writes what it has changed, so that the page shows it (`TutorLearning.tsx:48`) | the gradebook invalidates the assignment selected by the time of the answer; a first load is not restarted by an invalidation; what `setQueryData` writes (`chat/page.tsx:90`, `account/page.tsx:144`) is overwritten by a fetch that was under way; some requests forget a view (`tutor-dashboard/page.tsx:272`) |
| `QueryCache!NoPhantomAtOnce` | an optimistic message is taken back on an error (`MessageCenter.tsx:85`) | the error puts back and invalidates the conversation selected by then (`:85-89`): the guess stays in the one it was written for, until that is fetched again |
| `PhoneScreen!OwnChangeShownAtOnce` | a notification that was read is shown as read (`notifications.tsx:69`) | a poll that was sent before and lands after overwrites it, until the next one |
| `Vetting!ApprovedIsVetted` | documents are reviewed, then interview and assessment, then "Approve" (`docs/OPS_MANUAL.md:8-14`) | the tutor console approves with neither (`admin_service.go:1665`) |
| `Purchase!SaysPaidWhenPaid` | "This booking was already paid" (`CheckoutClient.tsx:113`) | the replay of an unpaid order is answered like that of a paid one |

Seen while reading, not modelled: the notifier marshals its payload before
Enqueue marshals it again (`notifier_service.go:96`); the worker expires Plus
subscriptions in a unit of work that it rolls back (`cmd/worker/main.go:348`);
`PayoutRepo.UpdateStatus` has no condition on the old status
(`payment_repo.go:441`) and the weekly batch commits once at its end
(`payout_service.go:103`); the feedback prompt rates the first lesson of the list
(`student-dashboard/page.tsx:553`); the tuition wizard books for the first learner
(`PrivateTuitionWizard.tsx:150`); the account page's effect overwrites what was
typed when the query is fetched again (`account/page.tsx:108`); a tutor whose
profile was created but not answered gets 409 for ever (`vetting/api.ts:31`); a
reload of the sign-up loses the generated password (`onboarding/page.tsx:1248`); the
tutor console cannot create a profile in Postgres, whose enum has no empty status
(`admin_service.go:1646`, `migrations/000004_tutor_vetting.up.sql:2`), although
`TestUpsertTutorAdmin_CreateApproved` (`admin_tutor_console_test.go:32`) passes on the
in-memory repository; Google's late `finishSession` can store again a token that a 401
or a logout has cleared in between (`login.tsx:111-114`).

## Plan

1. `Payouts`: the weekly batch, ConfirmBankPayout, PayoutViaPaystack and
   CompletePaystackTransfer over a row whose UpdateStatus is unconditional; composed
   with `Escrow`'s payouts. A payout is transferred once; a failed one is tried again.
2. `CronLock`: TTL, ownerless DEL, two replicas; the Plus expiry.
3. `Referral`: QualifyOnOrderPaid step by step over the wallet ledger with its
   idempotency keys; credited once at most, and once when a later order is paid.
4. `Booking`: private requests matched by two administrators, coupons with limited
   redemptions, the waitlist; `Tokens` (refresh rotation, login throttle); `Broker`.
