# forsa-api in TLA+

Models of the FORSA OS back end (`src/src`, NestJS over PostgreSQL), the runs
that check them with TLC, and theorems about them checked by TLAPS. FORSA lets
students pay their tuition in installments: a student applies, a ten-stage
pipeline and human reviewers decide, a contract is signed, the university is
paid, and the student repays under guarantors, a score and a collections desk.

Everything here is read from the code. The one thing all services share decides
how they are modelled: **a handler is a sequence of awaited SQL statements, and
hardly any handler opens a transaction**. One statement is one step; the
statements of different requests interleave in any order; a statement may throw,
and the server may die, between any two of them. What a handler has read it
keeps in memory and uses later, however stale.

## 1. Inventory

| Component (source) | State | Operations | What is hard | What makes it correct |
|---|---|---|---|---|
| Payments (`payments/payments.service.ts`) | `installments`, `payments` | record, submit, verify, reject, reverse, daily status job | lost updates of `amount_paid`, guards not repeated by the UPDATE, half-done postings | money accepted = money shown = money posted; never more than due; paid iff full |
| Konnect (`payments/konnect.service.ts`) | rows of `payments` | initiate, webhook | webhooks come twice, late, or for an installment paid meanwhile | settles, never exceeds |
| Ledger (`payments/ledger.service.ts`) | `financial_ledger` | recordEntries | two inserts, either may fail | double entry |
| Applications (`applications/applications.service.ts`, `application-stages.util.ts`) | `applications`, `application_status_history`, `students.membership_status`, `case_meetings` | submit, create, transitionStatus, confirmEnrollment, appeal; schedule and update meetings; the stages shown to staff, the timeline shown to the student | validation against a status read earlier; membership read, compared, overwritten; views computed from separate lists of statuses; a meeting moved in two statements | published lifecycle; history is a trail; membership only rises; the two views move together; who is to attend has been told |
| Pipeline (`pipeline/pipeline.service.ts`) | `pipeline_runs`, `multi_approval_sets`, `reviewer_decisions`, `financing_decisions`, `capital_queue`, `risk_profiles` | startRun, submitHumanDecision, overrideDecision, flagFraud | several runs of one application, votes racing, a run superseded while it goes on, exceptions in a stage | runs end and are numbered; approvals rest on a decision and on enough people |
| Score (`score/score.service.ts`) | `score_events`, `corrective_score_events`, `score_running_balances`, `forsa_scores` | recordEvent, createCorrectiveEvent, reconcile, getScore | absolute writes of a balance read earlier; numbers that arrive as strings; corrections racing | the score follows the log; frauds stay capped |
| Execution (`execution/execution.service.ts`) | `execution_ledger`, `outbox_events`, `university_disbursements` | execute, processOutbox | idempotency by check-then-act; a transaction that protects nothing and keeps a connection | an id takes effect once, and every effect is on record |
| Contracts (`contracts/contracts.service.ts`) | `contracts`, `contract_signatures`, terms in S3 | generate, send, sign | terms stored before their row; signatures counted, then the status written | fully signed means signed; terms are the contract's own |
| Membership, Digital pass (`membership/`, `digital-pass/`) | `membership_requests`, `students`, `users`, `digital_student_passes` | request, approve, reject; issue, verify, revoke | the request is checked outside the transaction that approves it | a member is a student with an account and a pass, once per address |
| Guarantors, Students (`guarantors/`, `students/`) | `guarantors`, `student_guarantors`, `users` | invite, resend, accept, decline, withdraw, receipt on behalf | tokens mailed again; answers that do not repeat their check | an invitation is answered once |
| Policy (`policy/policy.service.ts`) | `policy_versions`, `policy_conflicts`, an in-memory cache | propose, approve, resolve | a cache filled after it was cleared; approvals that supersede each other | one version in force per scope, resolved by all |
| Authentication, MFA, Users (`auth/`, `users/`) | `users`, `user_roles`, `mfa_configs`, `mfa_challenges`, `user_sessions`, `password_setup_tokens` | login, second factor, refresh, logout, set password, create, update, deactivate, roles | sessions opened by several ways, closed by what is found; a counter read, then written | an open session of a deactivated account was left open by an update of the status or by a deactivation cut off, by nothing else; no lockout before the limit |
| Documents (`documents/`) | `documents`, `application_documents`, `document_access_logs` | announce, confirm, review, view | the entry of a review is found by type | a checklist entry names a confirmed document |
| Universities (`universities/`) | `universities`, `university_agreements`, `agreement_tranches`, `student_exceptional_events` | create, rename, link an account; draft and approve agreements; business continuity | one agreement expires and another starts in two statements | one agreement in force |
| Financial assessment (`financial-assessment/`) | `financial_assessments`, `financial_assessment_field_corrections` | draft, submit, interview | answers, corrections, total and score written by separate statements over several visits | a score explained by the answers, an answer by its declaration and corrections |
| Partners (`partners/`) | commission records | calculate, advance | status checked, then written | not reachable: see section 7 |
| Notifications | `notification_logs` | send | swallowed failures | the mails of meetings only |
| Collections, Reports, AI, infrastructure, seeds | | | appends, reads, wiring | |

How they interact: Execution dispatches into Payments and Contracts; Payments
posts to the Ledger and asks Score for events; Pipeline calls
`ApplicationsService.transitionStatus` from stages 6, 8 and 10 and resolves
Policy everywhere; Membership issues a Digital pass; fraud in Pipeline revokes
it. All calls are in-process; the only shared state is the database, the only
callbacks the gateway's webhook and the scheduled jobs.

## 2. Plan

1. **Payments core** - `Payments`, `Receivable` (abstract), `PaymentBooks`
   (properties, refinement), `PaymentsProofs`. *Done.*
2. **Applications and pipeline** - `Applications`, `Pipeline` (extends it),
   `Lifecycle` (abstract), `CaseFile` (properties, refinement), `PipelineProofs`,
   `CaseFileProofs`. *Done.*
3. **Servicing** - `Handlers` (the server: handlers and connections),
   `Contracts`, `Execution` (extends it), `Score`, composed by `Services`. *Done.*
4. **Onboarding** - `Membership` (with the pass), `Guarantors`, `Documents`,
   `Accounts`, further desks of `Services`. *Done.*
5. **Reference data and assessment** - `Policy`, `Universities`, `Scoring` (the
   pure score) and `Assessment`, likewise. *Done.*
6. **What people are shown** - `Views` (the two views of a case, pure), checked
   against the moves of `Pipeline`, and `Meetings`. *Done.*

Proofs, in order: Payments (type and the safety under races), Pipeline (type and
the safety under races), the case file and the books when requests are served
one after the other, both refinements, then the desks of `Services` one by one,
under races and one request at a time: all done (section 6). What is left is
liveness, which the prover does not reach.

## 3. Modules

### Payments.tla
`inst`, `pay`, `ledger`, `score` are the tables; `req[r]` is a handler: its
endpoint, the statement it is at, and its copy of what it read. `RecordRead` ...
`RecordScore` are the statements of `recordPayment`, `verifyPayment`,
`rejectPayment`, `reversePayment`, `submitReceipt`, Konnect's `initiatePayment`
and `processWebhook`, and `LedgerService.recordEntries`, which they share from
`"debit"` on. `CronDueSoon` ... `CronDefaultRisk` are the four UPDATEs of
`updateInstallmentStatuses`; `Tick` moves the calendar. The calendar of an
installment has seven positions, one for each answer the date conditions can
give. `UpdateReturning` is the driver: it answers `UPDATE ... RETURNING` with
`[rows, count]`, and the loop over that pair reaches no row. `Fail` is an
exception or the end of the process between two statements. Amounts are small
naturals; currencies, notes, files, audit rows and e-mails are left out.

### Receivable.tla, PaymentBooks.tla
What repayment promises (accept once, within what is due; withdraw for good) and
the accounts of the same money compared. `KeepsPromise` is the refinement: a row
`confirmed` or `verified` is accepted, a `reversed` one withdrawn, any other
offered; the money is read from the payment rows.

### Applications.tla
`app`, `history`, `member` are the tables. `transitionStatus` is called from four
places, so it is a subroutine: `CheckTransition`, `UpdateStatus`,
`RecordTransition`, `SetTier`, `ReadMembership`, `RaiseMembership`, with
`req[r].back` the caller's next statement and `req[r].catch` the place an
exception lands. Ranks are shifted by one (blacklisted 0, bronze 1): only their
order matters. `Transition` stands for PATCH status and confirmEnrollment; `Apply`,
`LookForRequest` are createForSelf up to the create both ways of applying share.

### Pipeline.tla
The handler that starts a run names it. `Snapshot`, `NextNumber`, `InsertRun`,
`Supersede`, `SetCurrentRun` are startRun before its `try`; `Gate`,
`AssessRisk`, `CapitalPasses`/`CapitalExceeded`, `Threshold`, `AskReviewers`,
`GenerateDecision` with `WaitingList` and `InsertDecision`, `ExecuteDecision`
with `SetLevel` are the stages; `CompleteRun` with `StoreTrace`, and `CancelRun`, its two
ends (a trace that cannot be stored cancels a run that was completed).
`ReviewRun` ... `MarkDecided` are submitHumanDecision and overrideDecision, which
end in startRun from stage 9. `FraudRead`, `Condemn` are flagFraud, the only
handler here with a transaction, hence one step. What the gates and caps compute
from students, universities, policies and documents is left open: each may pass
or block, each risk may result. Approval by an executive is `dual` (it asks for
two as well). `dequeued_at` is never written, so `queue` only grows.

### Lifecycle.tla, CaseFile.tla
The published state machine (`STATUS_TRANSITIONS` as edges, fraud from anywhere)
and the properties of a case. `FollowsLifecycle` maps the status column alone.
`TimelineFollowsCase` evaluates `Views` on both sides of every step.

### Views.tla
`application-stages.util.ts`, two pure functions of a status and of the status of
the guarantor's link: the stage staff see with its bar (`AdminStage`,
`AdminBar`), the milestone the student sees with its bar (`Milestone`,
`StudentBar`) and the one thing the student is told to do (`NextAction`). The
status lists are kept apart as the code keeps them apart, and tested in the order
of its `if`s. Labels are left out.

### Handlers.tla
The server the services below run in: `req[r]` is a handler as above, requests
arrive in the order of their numbers, and `holding` is the set of handlers that
keep a connection of the pool (`database.poolMax`) because they are inside
`dataSource.transaction`. A plain statement needs a free connection (`At`) and
gives it back at once; there is no time limit. `Raise` is an exception: rollback,
connection returned, control at `catch`. `Throw` is a statement that fails,
`Crash` the end of the process.

### Contracts.tla, Execution.tla
`contract`, `signature` are the tables, `terms` the S3 documents by version.
`GenerateRead` ... `InsertContract` are generateContract (the decision it reads
exists), `Send` ... `MarkSent` sendForSignature, `SignRead` ... `MarkSigned`
recordSignature. `Lookup` or `Replay`, `InsertLedger`, `MarkExecuting`,
`BeginTransaction`, the action, `EndTransaction`, `Commit` are `execute`;
`MarkFailed` its catch block; `ReadOutbox` ... `Drained` processOutbox. The two
contract actions are the ContractsService's own statements, entered through
`Dispatch` and left through `back`; the three payment actions are the handlers of
`Payments` and are not composed here. An id always comes with the same action;
its payload may differ.

### Score.tla
`events`, `corrective`, `balance`, `forsa`, `integrity` are the tables. recordEvent
(`RecordEvent` ... `WriteScore`) is a subroutine of createCorrectiveEvent
(`FindOriginal` ... `LiftCeiling`). One SELECT per dimension is one step
(`SumDimension`). node-postgres hands NUMERIC columns over as strings, so
`previousBalance + pointValue` concatenates: a stored balance hardly moves with
positive points and becomes NaN with negative ones (`NewBalance`); the score does
not use it, it is computed from the events that count, clamped one after the other in
the order of insertion (`Computed`, `Aggregate`). The ceiling
query is modelled with the precedence SQL gives it (`CeilingEvent`).

### Policy.tla, Universities.tla
One policy key with its versions in two scopes, and the cache by context.
`Propose`, `InsertProposal` are createVersion, `FindProposal`, `Approve` are
approveVersion, whose two UPDATEs are two steps (there is no transaction);
`Invalidate` then clears the cache. `CacheHit`, or `ReadPolicies`,
`RecordConflict`, `FillCache`, is resolve. Of Universities, `FindName` ...
`LinkUniversity` keep names and accounts, `Draft` ... `Enact` agreements with
their tranches, `Suspend`, `OpenEvent` business continuity.

### Guarantors.tla, Membership.tla, Documents.tla, Accounts.tla
What a request inserts is named by its handler. Guarantors: addGuarantor,
resendGuarantorInvite, acceptInvite (its transaction is one step), declineInvite;
`FindLinked`, `StatementRefused` are the two operations whose statement the
database refuses. Membership: createRequest, approve (`FindWish`, `CheckOwner`,
`Provision`: one transaction that inserts account, student and pass, refused as a
whole by the UNIQUE key), reject; the pass is verified, revoked by staff, or
revoked by flagFraud with the tier (`Blacklist`). Documents: the upload is
announced, confirmed and listed; a review marks the document, then the entry of
its type; viewing logs. Accounts: passwords and codes are right or wrong; a login
opens a session or a challenge; refresh, idling, logout and deactivation act on
sessions, an update of the status does not; `assignRole` is refused by the database.

### Scoring.tla, Assessment.tla
`Scoring` is the pure score of a questionnaire under a policy, the five components
and the band, in integers (cents, hundredths). `Assessment` keeps one
application's row: `Answer`, `Upsert`, `UpdateTotal`, `Submit` for saveDraft and
submit, `StartInterview`, `LogCorrection`, `Rescore` for verify. The eleven
answers the score is computed from are fields of their own, the others one.
`Changed` models the comparison of texts the code makes: a whole amount comes back
from NUMERIC with decimals, so it counts as changed.

### Meetings.tla
`meeting` is the table in the order of `created_at`, `mailed` the mails. `Schedule`,
`Book` are scheduleMeeting; `FindMeeting`, then `LeaveMeeting`, `Rebook` or
`MarkMeeting` updateMeetingStatus; `TellStudent`, `TellGuarantor` notifyMeeting;
`CurrentMeeting` is getCurrentMeeting, which `Views` turns into what the student
is told. The case is one that has been approved.

### Services.tla
The services behind one server. They share no table except through Execution, so
`desk` picks, once per behaviour, the set of endpoints in use; what one desk does
cannot be seen from another, and `Handlers` is common to all. `Varying` lets only
the tables of the desk in use start in more than one way.

### SumProofs, PaymentsProofs, PipelineProofs, CaseFileProofs, ServicesProofs, RecordsProofs, SerialProofs, ScoreProofs
The theorems: section 6. `PaymentsProofs` is about `Payments` and `PaymentBooks`,
`CaseFileProofs` about `CaseFile`, `ServicesProofs` about the desks of `Services`
where people are members, meet and log in, `RecordsProofs` about those that keep
policies, documents, contracts and executions, `SerialProofs` about what the desks
keep one request at a time, `ScoreProofs` about the score and the types of all desks.

## 4. Runs

`MCPayments`, `MCPipeline` and `MCServices` give the constants their values; every handler set
is symmetric except where a run checks liveness.

| Run | Question | Bounds |
|---|---|---|
| payments_serial | one request at a time: do rows, installments and ledger agree, and do the handlers implement `Receivable`? | 2 installments (3 and 2), amounts 1-3, 4 requests: submit, resubmit, verify, reverse in a row |
| payments_races | what survives any interleaving and failure? | 1 installment, 3 handlers of any endpoint at once, each may die anywhere, staff act on any row |
| payments_calendar | does the daily job always flag what stays unpaid? | 3 requests, 2 at once, the whole calendar, fairness |
| payments_gateway (violated) | is money accepted within what is due when the gateway pays? | 4 requests one at a time |
| pipeline_serial | one request at a time: history, queue, decisions, membership, lifecycle, views | 2 applications of a student, one of them still to be submitted, 4 requests, all ten stages |
| pipeline_races | approvals, run numbers, approval sets under races and failures | 3 requests, 2 at once, 2 reviewers, runs from stage 7, two approvers needed |
| pipeline_ends | does every run end? | 2 requests at once (run, vote, override or transition), all stages, fairness |
| pipeline_paused (violated) | does a run wait for its reviewers? | one run |
| pipeline_blacklist (violated) | is a blacklist permanent? | 2 applications, 3 requests one at a time |
| services_serial | one request at a time, the server ending anywhere in an execution or generation: idempotence, terms, score and ceiling, cache, agreements, assessments, answered invitations; every handler ends | 3 requests at one of eleven desks, 4 execution ids (one per action), 2 decisions, 2 students, 2 dimensions, 4 sheets of answers, lockout after 2, pool of 2, fairness |
| services_races | what each desk keeps under races, and under failing executions, signatures, corrections, logins and deactivations | 3 requests, 2 at once, pool of 3, 3 execution ids, 1 student, 1 dimension; no assessment, which has one guarantor |
| execution_twice (violated) | does an execution id take effect once? | 1 id, 2 submissions at once |

Why the bounds are enough: a lost update, a stale guard or a double vote takes
two handlers and at most one row; a third handler puts a completed operation
before, between or after them. The longest chains the properties speak of
(submit, reject, resubmit, verify; run, vote, vote, decision) fit in four
requests. `Req` bounds how many requests arrive, `MaxInFlight` how many run at
once (1 serialises them), `MayFail` whether steps fail, `MaxAge` the calendar,
`Amount` the sums, `OnlyListed` whether staff pick from the default list of
receipts, `Opened` the status applications have at the start (a state reached by
one submission and one transition), `ByHand` the statuses staff choose,
`Reentry` the stages staff start runs from, `Ballots` the votes cast, `Ops` the
endpoints in use. In `Handlers`, `Requests` bounds how many requests arrive,
`Desks` which endpoints may be in use together, `PoolMax` the connections,
`MayThrow` and `MayCrash` the endpoints whose steps fail; `RetryLimit` (5 in the
code) is 1, so that one handler can put an event back and a later one can give
it up. Three requests suffice for the services: two submissions of an id and a
third after them; generate, send, sign; two events and a correction; two
approvals of a policy, an agreement or a request and a reader; schedule, move,
cancel; two questionnaires and an interview. The handlers
of `Handlers` are numbered in order of arrival, which does the work of symmetry.
Deadlock checking is off: when every request has been served
nothing is left to happen.

Each property of a passing run is paired with a mutant of the code (a dropped
guard, a lost row, a re-read) under which the same run finds it violated.

### Fairness
`FairSpec` of Payments, Pipeline and Services asks weak fairness of the continuation of
each accepted handler (Node resolves every awaited query) and of the daily job
(`@Cron`). Nobody is obliged to send a request or to let a day pass.

## 5. Where code and text part

With a run that shows it:

- the webhook accepts any amount on any installment (`konnect.service.ts:222`);
- `needs_review` does not leave the stage loop, so the run decides and executes
  before any vote (`pipeline.service.ts:186`);
- two submissions of one execution id both dispatch it, for the count of the
  guarded UPDATE is ignored (`execution.service.ts:75`);
- `blacklisted` ranks below `bronze`, so approving another application lifts it
  (`applications.service.ts:933`).

Modelled as the code has it, and asserted by no run because it does not hold:

- two concurrent `recordPayment` overwrite each other's amount (`payments.service.ts:251`);
- `rejectPayment` accepts a `confirmed` row, whose money stays, and overwrites a
  verification that came in between (`:926-935`);
- a handler that dies between its statements leaves an accepted payment without
  ledger entries (`:259`);
- a payment on the last day of grace is scored late (`:249`), and an installment
  marked late is never scored, for the loop runs over `[rows, count]` (`:496`);
- a reviewer's decision is stored under the run voted on and continued by a new
  run that cannot see it (`pipeline.service.ts:1336`);
- the capital queue row of a new lead stays although the transition is refused (`:706`);
- a superseded run goes on, executes and completes (`:198`); between `InsertRun`
  and the `try` a failure leaves a run active for ever (`:87-138`); a trace that
  cannot be stored turns a completed run into a cancelled one (`:205-216`);
- votes are checked, then inserted: a reviewer can vote twice at once (`:1242`);
- a transition validated before a fraud flag is written after it, and
  `fraud_flagged` can be set by hand without a blacklist (`applications.service.ts:896`);
- an execution that fails after its action wrote its rows (the transaction does
  not cover them) is marked failed and can be executed again, and a failure after
  the commit marks a committed execution failed (`execution.service.ts:85-105`);
- an execution whose server died stays `executing` and is refused for ever (`:57`);
- two outbox processors handle the same event, and the error path of one puts
  back what the other processed (`:196-215`);
- `poolMax` executions at once keep every connection and wait for one more (`:85`);
- two generations at once store their terms under the same version, and the later
  overwrites the earlier (`contracts.service.ts:84-99`);
- signatures are counted, not signatories; a draft can be signed; sending at the
  same time as signing puts the status back (`:131`, `:176`);
- a breach of any student, superseded or not, caps every student's next score;
  two recordings at once leave the score of the slower one (`score.service.ts:338`, `:366`);
- a running balance is appended to, not added to, and reconciliation takes the
  NaN that results for 500 (`:68`, `:275`);
- two approvals at once may leave the lower tier (`:935`), two submissions at
  once two requests in flight (`:211`).

Of the onboarding and reference services:

- an acceptance and a refusal of one invitation that cross both take effect
  (`guarantors.service.ts:62`, `:122`);
- withdrawGuarantor passes three values to a statement with `$3` to `$5`, the
  guarantor's receipt and assignRole use `ON CONFLICT` where no unique index
  matches: each is refused by the database every time
  (`students.service.ts`, `guarantors.service.ts:429`, `users.service.ts:228`);
- a review of a document that was replaced, or never uploaded, marks the entry of
  the one that replaced it (`documents.service.ts:289`);
- createAgreement stores the draft before it looks at the tranches, and a refusal
  leaves it (`universities.service.ts:181-220`); a rename may repeat a name, a new
  account leaves the old link in place (`:59-81`); business continuity for a
  faculty reads the students of no program (`:388`); two approvals of agreements
  may leave two in force, a failure in between none (`:249`);
- approving a policy that starts later supersedes the one in force at once, and a
  value resolved before an approval may be cached after the cache was cleared
  (`policy.service.ts:262`, `:122`);
- attempts to log in that cross are counted as one, and a challenge or a setup
  token still live opens a session on, or activates, a deactivated account
  (`auth.service.ts:514`, `:284`, `:454`); two verifications that cross may both
  use one challenge;
- an account deactivated or suspended by PATCH /users/:id keeps its open sessions
  (`users.service.ts:113`), so does one whose `deactivate` fails between its two
  statements (`:136-143`), and `validateJwtPayload` never looks at the status
  (`auth.service.ts:378`); a login that crosses a deactivation makes the account
  active again (`:454`); changePassword, which would close sessions too, has no
  caller (`users.service.ts:158`);
- the audit INSERT of a membership approval is caught inside the transaction
  (`membership.service.ts:233`): were it refused, the COMMIT would roll back what
  the answer and the mail then tell of; the model leaves this INSERT out;
- a draft that crosses the submission leaves a score of other answers, and verify
  logs whole amounts, the tenure and dates that did not change as corrections, and
  fields sent as null as corrections that were never applied
  (`financial-assessment.service.ts:344-364`, whose comment says no-ops are skipped);
- a score event may be corrected twice at once up to the UNIQUE key, by when both
  have superseded it (`score.service.ts:191-204`).

Of what people are shown:

- `application-stages.util.ts:17-18` says nothing "can silently disagree", but a
  withdrawn application is an exception to staff and "No action needed - FORSA is
  reviewing your case" to the student (`:235`), and one flagged for fraud is back
  at its guarantor (`:256`);
- inviting the missing guarantor moves the student's bar back from the guarantor
  to the application (`:251-256`), and a student with nothing left to do is told
  to complete the application (`:219`);
- "the old row is marked 'rescheduled' (terminal for it)"
  (`applications.service.ts:704`), but any status may follow: a meeting may be
  moved twice and then stands twice, or be reopened after its cancellation without
  a mail; cancelling the meeting another was moved to shows the student the one
  that was left (`:346`);
- the mail of a cancellation is filled in from the pair `[rows, count]`, that is
  with no date and no reference (`:726-731`); a guarantor who accepts later, or a
  mail that fails, is never told again (`:783`).

## 6. Proofs

Every theorem is `Spec => ...`, for all values of the constants that satisfy the
named assumptions of the modules, and of the hypotheses in the third column.

| Theorem (module) | Property | Under |
|---|---|---|
| `TypeCorrect`, `NoOverpayment`, `PaidExactlyWhenFull`, `DoubleEntry` (PaymentsProofs) | `TypeOK`, `NeverOverpaid`, `PaidIffFull`, `LedgerBalanced` | nothing: any races and failures |
| `OneReceipt`, `VerifiedSettles` (PaymentsProofs) | `OnePendingReceipt`, `VerifiedIsFinal` | one at a time |
| `BooksBalance`, `AcceptsWithinDue`, `PromiseKept` (PaymentsProofs) | `BooksAgree`, `AcceptedWithinDue`, the refinement `KeepsPromise` of `Receivable` | `Orderly`: one at a time, no failure, staff pick from the list of receipts, no gateway |
| `Typed`, `Numbering`, `TwoPeople` (PipelineProofs) | `TypeOK`, `RunsAreNumbered`, `TwoApproversAreTwoPeople` | nothing |
| `DecisionFirst`, `ListedFirst` (PipelineProofs) | `ApprovalHasDecision`, `WaitingIsListed` | staff set no approval, no `capital_queue`, by hand |
| `MembershipOnlyRises`, `DecisionExecuted`, `LifecycleRefined` (CaseFileProofs) | `MembershipNeverFalls`, `DecisionIsExecuted`, the refinement `FollowsLifecycle` of `Lifecycle` | one at a time |
| `ViewsAgree` (CaseFileProofs) | `TimelineFollowsCase` | one at a time |
| `TrailIsKept` (CaseFileProofs) | `HistoryIsTrail` | one at a time, no failure |
| `WholeMembers`, `LockedAreFailed` (ServicesProofs) | `MembersAreWhole`, `NeverLockedEarly` | nothing |
| `OnlyTheseLeaveSessions` (ServicesProofs) | `OpenSessionsAreExplained` | nothing: any races and failures |
| `Attendance` (ServicesProofs) | `AttendanceIsAnnounced` | no statement of a meeting throws |
| `BackedChecklist`, `ResultsAreReal`, `SignedAreSigned` (RecordsProofs) | `ChecklistIsBacked`, `ResultIsReal`, `SignedHasSignatures` | nothing |
| `ScopeKeeps` (RecordsProofs) | `ScopeKeepsPolicy` | no statement of an approval throws |
| `TypesHold` (ScoreProofs) | `TypeOK` of `Services` | nothing |
| `TermsAreTheirs`, `AnswersAreFinal` (SerialProofs) | `TermsMatch`, `AnsweredOnce` | one at a time |
| `CacheCurrent`, `AgreementInForce` (SerialProofs) | `CacheIsCurrent`, `OneAgreementInForce` | one at a time, no statement of an approval throws |
| `EffectIsOnce`, `AnswerIsTheSame` (SerialProofs) | `OncePerId`, `SameAnswer` | one at a time, no statement of an execution throws |
| `AssessmentIsExplained` (SerialProofs) | `AssessmentExplained` | one at a time, no statement of an interview throws |
| `SeriousStaysCapped`, `ScoreIsOfTheLog` (ScoreProofs) | `SeriousIsCapped`, `ScoreFollowsLog` | one at a time, no statement of an event or a correction throws; for the second, weights that sum to 100 |

**The hypotheses** are the conditions under which the code keeps the property, and the
runs of the same properties check it under them: section 5 says what happens without.
*One at a time* is `IsFiniteSet(Req)` (finitely many requests arrive, so that
`MaxInFlight` counts; in `Services` `Req` is `1..Requests`) and `MaxInFlight <= 1`: two
handlers at once overwrite each other's reads. A handler that is cut off (`MayCrash`) is
at work no longer, and no theorem on `Services` excludes it; but it never counts as
served, so what is stated of the time when all have been served (`AllServed`) says
nothing of what it left behind. *No failure* is `~MayFail`: a handler cut off between
the payment row and the installment, or between the status and the history, leaves them
apart. *No gateway* is that `initiate` and `webhook` are not among `Ops`: the gateway's
payment may exceed what is due (payments_gateway). *By hand*: the transition endpoint
lets staff set a status that the pipeline would have explained. Meetings, approvals of
policies and agreements, interviews and score events are several statements in no
transaction, and the failure of a later one leaves what the property rules out; so does
a statement of an execution that throws after its action wrote its rows. Every one of
these hypotheses names the endpoints concerned and leaves all others free to fail. That
the weights sum to 100 (hundredths) is what the default policy has
(`score.service.ts:324-330`) and `docs/PRODUCTION_CHECKLIST.md:51` asks for: the score a
student starts with, 500, is then the one no event gives. The assumptions the modules
name are on the constants alone: amounts and dues positive, `None` in no table, at least
one email address, document type and university name, finitely many dimensions with
natural weights.

**Payments.** `NeverOverpaid` and `PaidIffFull` are not inductive: between its read and
its UPDATE a handler carries the amount it is going to write, so the invariant also says
of every handler before that statement that its copy plus its amount fits the
installment it will write (`TargetsOK`), and of the ledger what each handler has posted
so far (`LedgerOK`).

**Books.** One at a time, the handler at work knows its installment and its payment row
as they are (`Steady`); with `OnePendingReceipt` that makes `SInv` of PaymentsProofs
inductive. The books themselves are sums over sets of rows. `BInv` says what the handler
at work still owes to the installment, to the receivable account and to the bank
account, so that each of the three sums differs from the accepted payments by exactly
the debts to it; every statement pays one. The sums are the community modules' folds,
whose definition is recursive in a choice: SumProofs proves, by a smallest
counterexample among the subsets, that the recursion has one solution and that adding or
changing one row changes the total by as much.

**Pipeline.** The invariant says of each handler that it is equipped for the statement
it is at: its application exists, its run is the row it inserted, the decision or queue
row that the next status needs is there already (`Founded`). The facts about the tables
(`Numbered`, `ApprovedByEnough`, `ApprovedIsDecided`, `WaitsOnList`) survive the steps
of others because nobody takes a row away: every step of another handler only adds.

**Case file.** One at a time: what the handler at work read of the status, of the
membership and of its decision is still so (`Steady`). Both refinements follow from it
statement by statement: one statement of each endpoint is the abstract step (the UPDATE
of the status; the write of the payment row) and every other maps to a stutter. The
trail needs what a handler between the UPDATE and the history owes (`Owes`). For the
views, a bar is shown to reach the place of what is current in it, so that each status
has two places; every published edge is checked to move the two alike, and `SInv` lets
no handler move a case along anything else.

**Services.** A first part of ServicesProofs proves that a step of one desk leaves the
handlers and the tables of all others alone (`Keeps`, `Away`); each desk then has an
invariant of its own that only its own statements and failures can disturb. Each is of
three parts: what a handler carries at each statement (`...Placed`), whose rows exist,
and what is owed between two statements. Membership: student, account and pass are
written in one transaction, named by the handler that is through with it (`MemberRows`),
and the owner of the address is that student (`MemberWhole`), so no address has two.
Meetings: who inserts a meeting owes its mail. Accounts: the counter a handler carries,
and the one stored, are at most the number of failed attempts, which only grows.
Sessions: an open session belongs to the user of the handler that opened it, which still
has to mark the account active or has ended, and only a deactivation or an update stands
before the statement that shuts an account (`OpenedBy`, `Placed`: with the property
itself, and on top of `LockInv`, they make up `SessionInv`). Policy:
a scope with a superseded version has one in force, or somebody who still activates one
(`Replaced`). Documents: an entry names a document of its type whose confirmation is
over, and who marks it verified has seen such a document pass. Contracts and executions:
the handler, its contract and its disbursement are named alike, no row of these tables
goes away or changes hands (`Grows`), so what a handler puts in the ledger stays true
(`RealStays`), and a count of signatures read before others were inserted can only be
too low (`SignaturesGrow`).

**One at a time at the desks.** Requests arrive in order, and all but the last to arrive
have ended (`InTurn`): at the step of a handler those before it have ended and those
after it have not begun (`Turn`), so each desk needs one lemma per statement of its own.
Each invariant says what the handler at work has read and that it is still so, and,
where a property speaks of the time when all have been served, what that handler still
has to write. Cache: who fills it holds what the database answers, who enacts a
version has superseded the others of its scope, and the cache may be behind only while
an approval has not emptied it (`CurrentInv`). Agreements: one is in force, or the
handler between the two UPDATEs is about to enact one (`AgreementInv`). Terms: who
stores a document does so under a version above every contract's (`TermsInv`).
Executions: an id with an effect is executing or committed, only an id whose action
leaves no row is ever marked failed, and the answer given is the one in the ledger
(`ExecInv`). Invitations: who is being asked has not answered yet (`AnsweredInv`).
Assessments: a submitted row explains itself, or an interview is under way that knows
which fields it has still to log (`ExplainInv`). Score: a student is under the ceiling,
or has the score its log gives, or the handler of an event or a correction is still on
its way to that student's score and holds sums that are true (`CapInv`, `FollowInv`).
For these sums `Computed` is a fold over the indices of the events that count, the last
one outermost; that it depends on those rows alone is proved, as in SumProofs, from the
uniqueness of the recursion.

**Only model-checked**: all liveness (`OverdueIsFlagged`, `RunEnds`, `HandlersEnd`:
fairness and ENABLED are outside the prover). Every other property of a passing run is
stated by a theorem; the runs that expect a violation need no proof.

## 7. Not modelled

Partners and commissions: nothing in the repository calls `calculateCommission` or
`createCommissionRecord`, and nothing activates a partner agreement, so no row its
handlers work on can come to exist. Collections (it appends contact notes),
reports, the AI interview, listings, audit logs, files, the texts of mails (only
who is mailed about which meeting is modelled, and mail is taken to be delivered),
staff assignment, the estimated place on the waiting list, the profiles of
students and guarantors, programs and contacts of universities;
`generateSchedule`'s arithmetic; the time to live of cached policies and sessions
(a session may idle out at any time, a policy never does), changePassword and
disableMfa, which nothing calls; fractional years and the rounding of fractions of
cents; policies of the assessment other than the default; the audit INSERTs next to
what a handler writes (a review's, `documents.service.ts:296`, an approval's,
`membership.service.ts:233`). A university's look at its checklist and the read of the
document it asks for (`documents.service.ts:208`, `:230`) are one step. Row-level
visibility is PostgreSQL's read committed: a single statement is atomic and sees all
committed ones, which is what one step does. Statements are taken to be accepted by
PostgreSQL as written, with the constraints of `src/migrations`, except where section 5
says that they are refused: those are refused for every value. A few more may be: four use one parameter as two types
(`SET status = $n ... CASE WHEN $n = ...` in `payments.service.ts:253`, `:848` and
`contracts.service.ts:202`, and `$2` in the UPDATE of `recordSignature`), and the
INSERT of `reconcileStudentScore` quotes `'$1'`. They are taken to be accepted;
what follows when a statement of a signature fails is among the behaviours of
services_races. The decay of score events with age is
left out, and what policies say is a constant.
