---------------------------- MODULE ServicesProofs ----------------------------
(***************************************************************************)
(* What holds at the desks of the API whatever interleaves.                 *)
(***************************************************************************)
EXTENDS Services, SumProofs

\* The handlers are a table, and who has not begun has no endpoint.
Tabled == /\ req = [r \in Req |-> req[r]]
          /\ \A r \in Req : {"op", "pc"} \subseteq DOMAIN req[r]
          /\ \A r \in Req : req[r].op = "none" => req[r].pc = "idle"

\* What a step of r leaves of the others, and which endpoints r may be at.
Keeps(r, ops) == /\ Tabled'
                 /\ \A q \in Req : q # r => req'[q] = req[q]
                 /\ req'[r].op \in ops

LEMMA BeginKeeps ==
  ASSUME Tabled, NEW r \in Req, NEW handler, Begin(r, handler),
         {"op", "pc"} \subseteq DOMAIN handler, handler.op # "none"
  PROVE  Keeps(r, {handler.op}) /\ req'[r] = handler
BY DEF Tabled, Keeps, Begin

LEMMA GotoKeeps ==
  ASSUME Tabled, NEW r \in Req, NEW pc, Goto(r, pc), req[r].op # "none"
  PROVE  /\ Keeps(r, {req[r].op})
         /\ req'[r] = [req[r] EXCEPT !.pc = pc]
BY DEF Tabled, Keeps, Goto

LEMMA RaiseKeeps ==
  ASSUME Tabled, NEW r \in Req, Raise(r), req[r].op # "none"
  PROVE  /\ Keeps(r, {req[r].op})
         /\ req'[r] = [req[r] EXCEPT !.pc = req[r].catch, !.catch = "failed"]
BY DEF Tabled, Keeps, Raise

LEMMA MembershipKeeps ==
  ASSUME Tabled, NEW r \in Req, Handles(r, MembershipOps), MembershipStep(r)
  PROVE  Keeps(r, MembershipOps)
<1> USE DEF Handles, MembershipOps, CanStart, At
<1>1. CASE Apply(r)
  BY <1>1, BeginKeeps DEF Apply, MembershipCall, Keeps
<1>2. CASE FindWish(r)
  BY <1>2, BeginKeeps DEF FindWish, MembershipCall, Keeps
<1>3. CASE FindPass(r)
  BY <1>3, BeginKeeps DEF FindPass, MembershipCall, Keeps
<1>4. CASE Blacklist(r)
  BY <1>4, BeginKeeps DEF Blacklist, MembershipCall, Keeps
<1>5. CASE VerifyPass(r)
  <2>1. CanStart(r, "verifyPass")
    BY <1>5 DEF VerifyPass
  <2>2. PICK s, v : Begin(r, [MembershipCall("verifyPass", "done", None, None)
                                EXCEPT !.pass = s, !.valid = v])
    BY <1>5 DEF VerifyPass
  <2> QED
    BY <2>1, <2>2, BeginKeeps DEF MembershipCall, Keeps
<1>6. CASE CheckMember(r) \/ InsertRequest(r) \/ CheckOwner(r) \/ Provision(r)
         \/ ProvisionRefused(r) \/ RejectWish(r) \/ RevokePass(r)
  <2>1. /\ req[r].pc # "idle"
        /\ (\E pc : Goto(r, pc)) \/ Raise(r)
    BY <1>6 DEF CheckMember, InsertRequest, CheckOwner, Provision, ProvisionRefused, RejectWish,
                RevokePass
  <2>2. req[r].op \in MembershipOps /\ req[r].op # "none"
    BY <2>1 DEF Tabled
  <2>3. Keeps(r, {req[r].op})
    BY <2>1, <2>2, GotoKeeps, RaiseKeeps
  <2> QED
    BY <2>2, <2>3 DEF Keeps
<1> QED
  BY <1>1, <1>2, <1>3, <1>4, <1>5, <1>6 DEF MembershipStep

LEMMA GuarantorKeeps ==
  ASSUME Tabled, NEW r \in Req, Handles(r, GuarantorOps), GuarantorsStep(r)
  PROVE  Keeps(r, GuarantorOps)
<1> USE DEF Handles, GuarantorOps, CanStart, At
<1>1. CASE Invite(r)
  BY <1>1, BeginKeeps DEF Invite, GuarantorCall, Keeps
<1>2. CASE Resend(r)
  BY <1>2, BeginKeeps DEF Resend, GuarantorCall, Keeps
<1>3. CASE Accept(r)
  BY <1>3, BeginKeeps DEF Accept, GuarantorCall, Keeps
<1>4. CASE Decline(r)
  BY <1>4, BeginKeeps DEF Decline, GuarantorCall, Keeps
<1>5. CASE FindLinked(r)
  BY <1>5, BeginKeeps DEF FindLinked, GuarantorCall, Keeps
<1>6. CASE InsertGuarantor(r) \/ InsertLink(r) \/ RenewToken(r) \/ CheckAccount(r)
         \/ AccountExists(r) \/ AcceptTransaction(r) \/ MarkDeclined(r) \/ ClearToken(r)
         \/ StatementRefused(r)
  <2>1. /\ req[r].pc # "idle"
        /\ (\E pc : Goto(r, pc)) \/ Raise(r)
    BY <1>6 DEF InsertGuarantor, InsertLink, RenewToken, CheckAccount, AccountExists,
                AcceptTransaction, MarkDeclined, ClearToken, StatementRefused
  <2>2. req[r].op \in GuarantorOps /\ req[r].op # "none"
    BY <2>1 DEF Tabled
  <2>3. Keeps(r, {req[r].op})
    BY <2>1, <2>2, GotoKeeps, RaiseKeeps
  <2> QED
    BY <2>2, <2>3 DEF Keeps
<1> QED
  BY <1>1, <1>2, <1>3, <1>4, <1>5, <1>6 DEF GuarantorsStep

LEMMA AccountKeeps ==
  ASSUME Tabled, NEW r \in Req, Handles(r, AccountOps), AccountsStep(r)
  PROVE  Keeps(r, AccountOps)
<1> USE DEF Handles, AccountOps, CanStart, At
<1>1. CASE WrongPassword(r)
  BY <1>1, BeginKeeps DEF WrongPassword, AccountCall, Keeps
<1>2. CASE RightPassword(r)
  BY <1>2, BeginKeeps DEF RightPassword, AccountCall, Keeps
<1>3. CASE VerifyMfa(r)
  BY <1>3, BeginKeeps DEF VerifyMfa, AccountCall, Keeps
<1>4. CASE UseSession(r)
  BY <1>4, BeginKeeps DEF UseSession, AccountCall, Keeps
<1>5. CASE Logout(r)
  BY <1>5, BeginKeeps DEF Logout, AccountCall, Keeps
<1>6. CASE ReadAccount(r)
  BY <1>6, BeginKeeps DEF ReadAccount, AccountCall, Keeps
<1>7. CASE FindSetupToken(r)
  BY <1>7, BeginKeeps DEF FindSetupToken, AccountCall, Keeps
<1>8. CASE CreateUser(r)
  BY <1>8, BeginKeeps DEF CreateUser, AccountCall, Keeps
<1>9. CASE UpdateUser(r)
  BY <1>9, BeginKeeps DEF UpdateUser, AccountCall, Keeps
<1>10. CASE RevokeRole(r)
  BY <1>10, BeginKeeps DEF RevokeRole, AccountCall, Keeps
<1>11. CASE AssignRole(r)
  BY <1>11, BeginKeeps DEF AssignRole, AccountCall, Keeps
<1>12. CASE EnableMfa(r)
  BY <1>12, BeginKeeps DEF EnableMfa, AccountCall, Keeps
<1>13. CASE CountFailure(r) \/ ResetFailures(r) \/ CreateChallenge(r) \/ GetSecret(r)
         \/ CodeRefused(r) \/ UseChallenge(r) \/ InsertSession(r) \/ MarkActive(r)
         \/ RefreshToken(r) \/ ExpireSession(r) \/ ChangeAccount(r) \/ CloseAll(r)
         \/ SetPassword(r) \/ InsertUser(r) \/ UserExists(r) \/ InsertRole(r) \/ SaveUser(r)
         \/ SetMfaFlag(r)
  <2>1. /\ req[r].pc # "idle"
        /\ (\E pc : Goto(r, pc)) \/ Raise(r)
    BY <1>13 DEF CountFailure, ResetFailures, CreateChallenge, GetSecret, CodeRefused,
                UseChallenge, InsertSession, MarkActive, RefreshToken, ExpireSession,
                ChangeAccount, CloseAll, SetPassword, InsertUser, UserExists, InsertRole,
                SaveUser, SetMfaFlag, Return
  <2>2. req[r].op \in AccountOps /\ req[r].op # "none"
    BY <2>1 DEF Tabled
  <2>3. Keeps(r, {req[r].op})
    BY <2>1, <2>2, GotoKeeps, RaiseKeeps
  <2> QED
    BY <2>2, <2>3 DEF Keeps
<1>14. CASE ReadPermissions(r)
  BY <1>14 DEF ReadPermissions, Keeps, Tabled
<1> QED
  BY <1>1, <1>2, <1>3, <1>4, <1>5, <1>6, <1>7, <1>8, <1>9, <1>10, <1>11, <1>12, <1>13, <1>14 DEF AccountsStep

LEMMA MeetingKeeps ==
  ASSUME Tabled, NEW r \in Req, Handles(r, MeetingOps), MeetingsStep(r)
  PROVE  Keeps(r, MeetingOps)
<1> USE DEF Handles, MeetingOps, CanStart, At
<1>1. CASE Schedule(r)
  BY <1>1, BeginKeeps DEF Schedule, MeetingCall, Keeps
<1>2. CASE FindMeeting(r)
  BY <1>2, BeginKeeps DEF FindMeeting, MeetingCall, Keeps
<1>3. CASE LeaveMeeting(r) \/ TellStudent(r) \/ TellGuarantor(r)
  <2>1. /\ req[r].pc # "idle"
        /\ (\E pc : Goto(r, pc)) \/ Raise(r)
    BY <1>3 DEF LeaveMeeting, TellStudent, TellGuarantor
  <2>2. req[r].op \in MeetingOps /\ req[r].op # "none"
    BY <2>1 DEF Tabled
  <2>3. Keeps(r, {req[r].op})
    BY <2>1, <2>2, GotoKeeps, RaiseKeeps
  <2> QED
    BY <2>2, <2>3 DEF Keeps
<1>4. CASE Book(r)
  BY <1>4 DEF Book, Keeps, Tabled, InsertMeeting
<1>5. CASE Rebook(r)
  BY <1>5 DEF Rebook, Keeps, Tabled, InsertMeeting
<1>6. CASE MarkMeeting(r)
  BY <1>6 DEF MarkMeeting, Keeps, Tabled
<1> QED
  BY <1>1, <1>2, <1>3, <1>4, <1>5, <1>6 DEF MeetingsStep

LEMMA PolicyKeeps ==
  ASSUME Tabled, NEW r \in Req, Handles(r, PolicyOps), PolicyStep(r)
  PROVE  Keeps(r, PolicyOps)
<1> USE DEF Handles, PolicyOps, CanStart, At
<1>1. CASE Propose(r)
  BY <1>1, BeginKeeps DEF Propose, PolicyCall, Keeps
<1>2. CASE FindProposal(r)
  BY <1>2, BeginKeeps DEF FindProposal, PolicyCall, Keeps
<1>3. CASE CacheHit(r)
  BY <1>3, BeginKeeps DEF CacheHit, PolicyCall, Keeps
<1>4. CASE ReadPolicies(r)
  <2>1. PICK ctx, v, seen, doubled :
          \/ Begin(r, PolicyCall("resolve", "done", None, ctx))
          \/ Begin(r, [PolicyCall("resolve", "conflict", v, ctx) EXCEPT
                         !.seen = seen, !.doubled = doubled, !.catch = "fill"])
    BY <1>4 DEF ReadPolicies
  <2> DEFINE h == [PolicyCall("resolve", "conflict", v, ctx) EXCEPT
                     !.seen = seen, !.doubled = doubled, !.catch = "fill"]
             g == PolicyCall("resolve", "done", None, ctx)
  <2>2. /\ {"op", "pc"} \subseteq DOMAIN h /\ h.op = "resolve"
        /\ {"op", "pc"} \subseteq DOMAIN g /\ g.op = "resolve"
    BY DEF PolicyCall
  <2>3. Begin(r, h) \/ Begin(r, g)
    BY <2>1
  <2> HIDE DEF h, g
  <2> QED
    BY <2>2, <2>3, BeginKeeps DEF Keeps
<1>5. CASE InsertProposal(r) \/ Approve(r) \/ Invalidate(r) \/ NoConflict(r) \/ FillCache(r)
  <2>1. /\ req[r].pc # "idle"
        /\ (\E pc : Goto(r, pc)) \/ Raise(r)
    BY <1>5 DEF InsertProposal, Approve, Invalidate, NoConflict, FillCache
  <2>2. req[r].op \in PolicyOps /\ req[r].op # "none"
    BY <2>1 DEF Tabled
  <2>3. Keeps(r, {req[r].op})
    BY <2>1, <2>2, GotoKeeps, RaiseKeeps
  <2> QED
    BY <2>2, <2>3 DEF Keeps
<1>6. CASE RecordConflict(r)
  BY <1>6 DEF RecordConflict, Keeps, Tabled
<1> QED
  BY <1>1, <1>2, <1>3, <1>4, <1>5, <1>6 DEF PolicyStep

LEMMA DocumentKeeps ==
  ASSUME Tabled, NEW r \in Req, Handles(r, DocumentOps), DocumentsStep(r)
  PROVE  Keeps(r, DocumentOps)
<1> USE DEF Handles, DocumentOps, CanStart, At
<1>1. CASE RequestUpload(r)
  BY <1>1, BeginKeeps DEF RequestUpload, DocumentCall, Keeps
<1>2. CASE FindUpload(r)
  BY <1>2, BeginKeeps DEF FindUpload, DocumentCall, Keeps
<1>3. CASE ReadForReview(r)
  BY <1>3, BeginKeeps DEF ReadForReview, DocumentCall, Keeps
<1>4. CASE ReadForView(r)
  BY <1>4, BeginKeeps DEF ReadForView, DocumentCall, Keeps
<1>5. CASE InsertDocument(r) \/ MarkUploaded(r) \/ ListDocument(r) \/ MarkReviewed(r)
         \/ MarkEntry(r) \/ LogView(r)
  <2>1. /\ req[r].pc # "idle"
        /\ (\E pc : Goto(r, pc)) \/ Raise(r)
    BY <1>5 DEF InsertDocument, MarkUploaded, ListDocument, MarkReviewed, MarkEntry, LogView
  <2>2. req[r].op \in DocumentOps /\ req[r].op # "none"
    BY <2>1 DEF Tabled
  <2>3. Keeps(r, {req[r].op})
    BY <2>1, <2>2, GotoKeeps, RaiseKeeps
  <2> QED
    BY <2>2, <2>3 DEF Keeps
<1> QED
  BY <1>1, <1>2, <1>3, <1>4, <1>5 DEF DocumentsStep

LEMMA UniversityKeeps ==
  ASSUME Tabled, NEW r \in Req, Handles(r, UniversityOps), UniversitiesStep(r)
  PROVE  Keeps(r, UniversityOps)
<1> USE DEF Handles, UniversityOps, CanStart, At
<1>1. CASE FindName(r)
  BY <1>1, BeginKeeps DEF FindName, UniversityCall, Keeps
<1>2. CASE FindUniversity(r)
  BY <1>2, BeginKeeps DEF FindUniversity, UniversityCall, Keeps
<1>3. CASE Draft(r)
  BY <1>3, BeginKeeps DEF Draft, UniversityCall, Keeps
<1>4. CASE FindAgreement(r)
  BY <1>4, BeginKeeps DEF FindAgreement, UniversityCall, Keeps
<1>5. CASE Suspend(r)
  BY <1>5, BeginKeeps DEF Suspend, UniversityCall, Keeps
<1>6. CASE StoreName(r) \/ LinkAccount(r) \/ LinkUniversity(r) \/ InsertAgreement(r)
         \/ TranchesRefused(r) \/ ExpireOthers(r) \/ Enact(r)
  <2>1. /\ req[r].pc # "idle"
        /\ (\E pc : Goto(r, pc)) \/ Raise(r)
    BY <1>6 DEF StoreName, LinkAccount, LinkUniversity, InsertAgreement, TranchesRefused,
                ExpireOthers, Enact
  <2>2. req[r].op \in UniversityOps /\ req[r].op # "none"
    BY <2>1 DEF Tabled
  <2>3. Keeps(r, {req[r].op})
    BY <2>1, <2>2, GotoKeeps, RaiseKeeps
  <2> QED
    BY <2>2, <2>3 DEF Keeps
<1>7. CASE InsertTranche(r)
  <2>1. PICK todo, pc : req' = [req EXCEPT ![r].todo = todo, ![r].pc = pc]
    BY <1>7 DEF InsertTranche
  <2>2. req[r].op \in UniversityOps
    BY <1>7 DEF InsertTranche, Tabled
  <2> QED
    BY <2>1, <2>2 DEF Keeps, Tabled
<1>8. CASE OpenEvent(r)
  <2>1. PICK s, pc : req' = [req EXCEPT ![r].todo = @ \ {s}, ![r].pc = pc]
    BY <1>8 DEF OpenEvent
  <2>2. req[r].op \in UniversityOps
    BY <1>8 DEF OpenEvent, Tabled
  <2> QED
    BY <2>1, <2>2 DEF Keeps, Tabled
<1> QED
  BY <1>1, <1>2, <1>3, <1>4, <1>5, <1>6, <1>7, <1>8 DEF UniversitiesStep

LEMMA AssessmentKeeps ==
  ASSUME Tabled, NEW r \in Req, Handles(r, AssessmentOps), AssessmentStep(r)
  PROVE  Keeps(r, AssessmentOps)
<1> USE DEF Handles, AssessmentOps, CanStart, At
<1>1. CASE Answer(r)
  BY <1>1, BeginKeeps DEF Answer, AssessmentCall, Keeps
<1>2. CASE StartInterview(r)
  <2>1. PICK sheet, d, todo :
          Begin(r, [AssessmentCall("interview", "upsert", sheet)
                      EXCEPT !.decision = d, !.todo = todo])
    BY <1>2 DEF StartInterview
  <2> DEFINE h == [AssessmentCall("interview", "upsert", sheet)
                     EXCEPT !.decision = d, !.todo = todo]
  <2>2. {"op", "pc"} \subseteq DOMAIN h /\ h.op = "interview"
    BY DEF AssessmentCall
  <2>3. Begin(r, h)
    BY <2>1
  <2> HIDE DEF h
  <2> QED
    BY <2>2, <2>3, BeginKeeps DEF Keeps
<1>3. CASE Upsert(r) \/ UpdateTotal(r) \/ Incomplete(r) \/ Submit(r) \/ Rescore(r)
  <2>1. /\ req[r].pc # "idle"
        /\ (\E pc : Goto(r, pc)) \/ Raise(r)
    BY <1>3 DEF Upsert, UpdateTotal, Incomplete, Submit, Rescore
  <2>2. req[r].op \in AssessmentOps /\ req[r].op # "none"
    BY <2>1 DEF Tabled
  <2>3. Keeps(r, {req[r].op})
    BY <2>1, <2>2, GotoKeeps, RaiseKeeps
  <2> QED
    BY <2>2, <2>3 DEF Keeps
<1>4. CASE ReadRow(r)
  BY <1>4 DEF ReadRow, Keeps, Tabled
<1>5. CASE LogCorrection(r)
  BY <1>5 DEF LogCorrection, Keeps, Tabled
<1> QED
  BY <1>1, <1>2, <1>3, <1>4, <1>5 DEF AssessmentStep

LEMMA ContractKeeps ==
  ASSUME Tabled, NEW r \in Req, Handles(r, CoreOps), ContractsStep(r)
  PROVE  Keeps(r, CoreOps)
<1> USE DEF Handles, CoreOps, CanStart, At
<1>1. CASE GenerateRead(r)
  BY <1>1, BeginKeeps DEF GenerateRead, ContractCall, Keeps
<1>2. CASE Send(r)
  BY <1>2, BeginKeeps DEF Send, ContractCall, Keeps
<1>3. CASE SignRead(r)
  BY <1>3, BeginKeeps DEF SignRead, ContractCall, Keeps
<1>4. CASE PutTerms(r) \/ FindDraft(r) \/ NoDraft(r) \/ InsertSignature(r) \/ MarkSigned(r)
  <2>1. /\ req[r].pc # "idle"
        /\ (\E pc : Goto(r, pc)) \/ Raise(r)
    BY <1>4 DEF PutTerms, FindDraft, NoDraft, InsertSignature, MarkSigned, Return
  <2>2. req[r].op \in CoreOps /\ req[r].op # "none"
    BY <2>1 DEF Tabled
  <2>3. Keeps(r, {req[r].op})
    BY <2>1, <2>2, GotoKeeps, RaiseKeeps
  <2> QED
    BY <2>2, <2>3 DEF Keeps
<1>5. CASE ReadVersion(r)
  BY <1>5 DEF ReadVersion, Keeps, Tabled
<1>6. CASE InsertContract(r)
  BY <1>6 DEF InsertContract, Keeps, Tabled
<1>7. CASE MarkSent(r)
  BY <1>7 DEF MarkSent, Keeps, Tabled
<1>8. CASE CountSignatures(r)
  BY <1>8 DEF CountSignatures, Keeps, Tabled
<1> QED
  BY <1>1, <1>2, <1>3, <1>4, <1>5, <1>6, <1>7, <1>8 DEF ContractsStep

LEMMA ExecutionKeeps ==
  ASSUME Tabled, NEW r \in Req, Handles(r, CoreOps), ExecutionStep(r)
  PROVE  Keeps(r, CoreOps)
<1> USE DEF Handles, CoreOps, CanStart, At
<1>1. CASE Lookup(r)
  BY <1>1, BeginKeeps DEF Lookup, ContractCall, Keeps
<1>2. CASE Replay(r)
  <2>1. PICK res : Begin(r, [ContractCall("execute", "done", None, None, None)
                               EXCEPT !.result = res])
    BY <1>2 DEF Replay, Begin
  <2> QED
    BY <2>1, BeginKeeps DEF ContractCall, Keeps
<1>3. CASE InsertLedger(r) \/ UnknownAction(r) \/ Disburse(r) \/ Commit(r) \/ MarkFailed(r)
         \/ Drained(r)
  <2>1. /\ req[r].pc # "idle"
        /\ (\E pc : Goto(r, pc)) \/ Raise(r)
    BY <1>3 DEF InsertLedger, UnknownAction, Disburse, Commit, MarkFailed, Drained
  <2>2. req[r].op \in CoreOps /\ req[r].op # "none"
    BY <2>1 DEF Tabled
  <2>3. Keeps(r, {req[r].op})
    BY <2>1, <2>2, GotoKeeps, RaiseKeeps
  <2> QED
    BY <2>2, <2>3 DEF Keeps
<1>4. CASE MarkExecuting(r)
  BY <1>4 DEF MarkExecuting, Keeps, Tabled
<1>5. CASE BeginTransaction(r)
  BY <1>5 DEF BeginTransaction, Keeps, Tabled
<1>6. CASE QueueEvent(r)
  BY <1>6 DEF QueueEvent, Keeps, Tabled
<1>7. CASE EndTransaction(r)
  BY <1>7 DEF EndTransaction, Keeps, Tabled
<1>8. CASE ReadOutbox(r)
  BY <1>8 DEF ReadOutbox, Keeps, Tabled
<1>9. CASE EventFails(r)
  BY <1>9 DEF EventFails, Keeps, Tabled
<1>10. CASE RetryEvent(r)
  BY <1>10 DEF RetryEvent, Keeps, Tabled
<1>11. CASE HandleEvent(r)
  BY <1>11 DEF HandleEvent, Keeps, Tabled, server
<1> QED
  BY <1>1, <1>2, <1>3, <1>4, <1>5, <1>6, <1>7, <1>8, <1>9, <1>10, <1>11 DEF ExecutionStep

LEMMA ScoreKeeps ==
  ASSUME Tabled, NEW r \in Req, Handles(r, CoreOps), ScoreStep(r)
  PROVE  Keeps(r, CoreOps)
<1> USE DEF Handles, CoreOps, CanStart, At
<1>1. CASE RecordEvent(r)
  BY <1>1, BeginKeeps DEF RecordEvent, ScoreCall, Keeps
<1>2. CASE FindOriginal(r)
  <2>1. PICK i, d, s, k :
          Begin(r, [ScoreCall("correct", "unique", s, d, k) EXCEPT !.event = i, !.back = "lift"])
    BY <1>2 DEF FindOriginal
  <2> DEFINE h == [ScoreCall("correct", "unique", s, d, k) EXCEPT !.event = i, !.back = "lift"]
  <2>2. {"op", "pc"} \subseteq DOMAIN h /\ h.op = "correct"
    BY DEF ScoreCall
  <2>3. Begin(r, h)
    BY <2>1
  <2> HIDE DEF h
  <2> QED
    BY <2>2, <2>3, BeginKeeps DEF Keeps
<1>3. CASE GetScore(r)
  BY <1>3, BeginKeeps DEF GetScore, ScoreCall, Keeps
<1>4. CASE Reconcile(r)
  BY <1>4, BeginKeeps DEF Reconcile, ScoreCall, Keeps
<1>5. CASE InsertEvent(r) \/ WriteBalance(r) \/ WriteScore(r) \/ CheckCorrective(r)
         \/ Supersede(r) \/ InsertCorrective(r) \/ DuplicateCorrective(r) \/ CheckCeiling(r)
         \/ LiftCeiling(r) \/ InsertScore(r) \/ Compare(r) \/ Report(r)
  <2>1. /\ req[r].pc # "idle"
        /\ (\E pc : Goto(r, pc)) \/ Raise(r)
    BY <1>5 DEF InsertEvent, WriteBalance, WriteScore, CheckCorrective, Supersede,
                InsertCorrective, DuplicateCorrective, CheckCeiling, LiftCeiling, InsertScore,
                Compare, Report, Return, Summed
  <2>2. req[r].op \in CoreOps /\ req[r].op # "none"
    BY <2>1 DEF Tabled
  <2>3. Keeps(r, {req[r].op})
    BY <2>1, <2>2, GotoKeeps, RaiseKeeps
  <2> QED
    BY <2>2, <2>3 DEF Keeps
<1>6. CASE ReadBalance(r)
  BY <1>6 DEF ReadBalance, Keeps, Tabled
<1>7. CASE SumDimension(r)
  BY <1>7 DEF SumDimension, Keeps, Tabled
<1>8. CASE ReadCeiling(r)
  BY <1>8 DEF ReadCeiling, Keeps, Tabled, Summed
<1>9. CASE InitializeBalance(r)
  <2>1. req[r].op \in CoreOps /\ req[r].op # "none"
    BY <1>9 DEF InitializeBalance, Tabled
  <2>2. \/ Goto(r, "done")
        \/ \E sums : req' = [req EXCEPT ![r].sums = sums]
    BY <1>9 DEF InitializeBalance
  <2> QED
    BY <2>1, <2>2, GotoKeeps DEF Keeps, Tabled
<1> QED
  BY <1>1, <1>2, <1>3, <1>4, <1>5, <1>6, <1>7, <1>8, <1>9 DEF ScoreStep

-------------------------------------------------------------------------------
(***************************************************************************)
(* A step belongs to one desk, and leaves the others alone.                 *)
(***************************************************************************)
Endpoints == {CoreOps, GuarantorOps, AccountOps, MembershipOps, MeetingOps, PolicyOps,
              DocumentOps, UniversityOps, AssessmentOps}

LEMMA Disjoint ==
  \A X, Y \in Endpoints : "none" \notin X /\ (X # Y => X \cap Y = {})
BY DEF Endpoints, CoreOps, GuarantorOps, AccountOps, MembershipOps, MeetingOps, PolicyOps,
       DocumentOps, UniversityOps, AssessmentOps

\* r is not at one of these endpoints, and does not come to one.
Away(r, ops) == /\ \A q \in Req : q # r => req'[q] = req[q]
                /\ req[r].op \notin ops
                /\ req'[r].op \notin ops

LEMMA ElsewhereIsAway ==
  ASSUME NEW ops \in Endpoints, NEW r \in Req,
         NEW others \in Endpoints \ {ops}, Handles(r, others), Keeps(r, others)
  PROVE  Away(r, ops)
BY Disjoint DEF Away, Keeps, Handles

LEMMA CoreKeeps ==
  ASSUME Tabled, NEW r \in Req, Handles(r, CoreOps), CoreStep(r)
  PROVE  Keeps(r, CoreOps)
BY ContractKeeps, ExecutionKeeps, ScoreKeeps DEF CoreStep

LEMMA BreakKeeps ==
  ASSUME Tabled, NEW r \in Req, Break(r)
  PROVE  /\ Keeps(r, {req[r].op})
         /\ r \in InFlight
         /\ \/ /\ req[r].op \in MayThrow
               /\ req'[r] = [req[r] EXCEPT !.pc = req[r].catch, !.catch = "failed"]
            \/ req'[r] = [req[r] EXCEPT !.pc = "died"]
BY RaiseKeeps DEF Break, Throw, Crash, Tabled, Keeps, InFlight, Ended

LEMMA StepKeeps ==
  ASSUME Tabled, NEW r \in Req, Step(r)
  PROVE  \E ops \in Endpoints : Handles(r, ops) /\ Keeps(r, ops)
BY CoreKeeps, GuarantorKeeps, AccountKeeps, MembershipKeeps, MeetingKeeps, PolicyKeeps,
   DocumentKeeps, UniversityKeeps, AssessmentKeeps DEF Step, Endpoints

LEMMA AlwaysTabled == Spec => []Tabled
<1>1. Init => Tabled
  BY DEF Init, ServerInit, Tabled
<1>2. Tabled /\ [Next]_vars => Tabled'
  <2> SUFFICES ASSUME Tabled, [Next]_vars PROVE Tabled'
    OBVIOUS
  <2>1. CASE UNCHANGED vars
    BY <2>1 DEF vars, server, Tabled
  <2>2. CASE Next
    BY <2>2, StepKeeps, BreakKeeps DEF Next, Keeps
  <2> QED
    BY <2>1, <2>2
<1> QED
  BY <1>1, <1>2, PTL DEF Spec

LEMMA ReqIsFinite == IsFiniteSet(Req)
BY FS_Interval, ServerAssumption DEF Req

LEMMA VaryingIn ==
  ASSUME NEW ops, NEW rows, rows # {}
  PROVE  Varying(ops, rows) \subseteq rows
BY DEF Varying

-------------------------------------------------------------------------------
(***************************************************************************)
(* Membership.                                                              *)
(***************************************************************************)
LEMMA AtMembership ==
  ASSUME Tabled, NEW r \in Req, Step(r)
  PROVE  \/ MembershipStep(r) /\ Handles(r, MembershipOps)
         \/ UNCHANGED members /\ Away(r, MembershipOps)
<1>1. MembershipOps \in Endpoints
  BY DEF Endpoints
<1>2. CASE MembershipStep(r) /\ Handles(r, MembershipOps)
  BY <1>2
<1>3. CASE ~(MembershipStep(r) /\ Handles(r, MembershipOps))
  <2>1. UNCHANGED members
    BY <1>3 DEF Step, people
  <2>2. "apply" \in MembershipOps /\ "apply" \notin CoreOps \cup GuarantorOps \cup AccountOps
             \cup MeetingOps \cup PolicyOps \cup DocumentOps \cup UniversityOps \cup AssessmentOps
    BY DEF CoreOps, GuarantorOps, AccountOps, MembershipOps, MeetingOps, PolicyOps, DocumentOps,
           UniversityOps, AssessmentOps
  <2>3. \E ops \in Endpoints \ {MembershipOps} : Handles(r, ops) /\ Keeps(r, ops)
    BY <1>3, <2>2, CoreKeeps, GuarantorKeeps, AccountKeeps, MeetingKeeps, PolicyKeeps,
       DocumentKeeps, UniversityKeeps, AssessmentKeeps DEF Step, Endpoints
  <2> QED
    BY <2>1, <2>3, <1>1, ElsewhereIsAway
<1> QED
  BY <1>2, <1>3

MemberRow ==
  [op : MembershipOps,
   pc : {"member", "insert", "account", "provision", "reject", "revoke", "done", "failed", "died"},
   catch : {"failed"}, back : {"done"}, wish : Wish \cup {None}, email : Address \cup {None},
   pass : Req \cup {None}, valid : BOOLEAN]

\* What a handler of this desk carries from one statement to the next.
MemberPlaced(r) ==
  req[r].op \in MembershipOps =>
    /\ req[r] \in MemberRow
    /\ req[r].pc \in {"member", "insert"} => req[r].email \in Address
    /\ req[r].pc \in {"account", "provision"} =>
         /\ req[r].wish \in Wish /\ wish[req[r].wish].status # "absent"
         /\ req[r].email = wish[req[r].wish].email
    /\ req[r].pc = "reject" => req[r].wish \in Wish /\ wish[req[r].wish].status # "absent"
    /\ req[r].pc = "revoke" => req[r].pass \in Req /\ pass[req[r].pass] # "absent"

\* Rows are named by handlers that are through.
Provided(r) == req[r].op \in MembershipOps /\ req[r].pc = "done"
MemberRows ==
  \A r \in Req : student[r].tier # "none" \/ wish[r].status # "absent" => Provided(r)

MemberWhole ==
  /\ \A w \in Wish : /\ wish[w].status # "absent" => wish[w].email \in Address
                     /\ wish[w].status = "approved" =>
                          /\ wish[w].student \in Req
                          /\ student[wish[w].student].tier # "none"
                          /\ student[wish[w].student].email = wish[w].email
  /\ \A s \in Req :
       IF student[s].tier = "none" THEN student[s].email = None /\ pass[s] = "absent"
       ELSE student[s].email \in Address /\ owner[student[s].email] = s /\ pass[s] # "absent"

MemberInv == /\ MembershipTypeOK
             /\ \A r \in Req : MemberPlaced(r)
             /\ MemberRows
             /\ MemberWhole

LEMMA MemberInit == Init => MemberInv
<1> SUFFICES ASSUME Init PROVE MemberInv
  OBVIOUS
<1>1. \A r \in Req : req[r].op \notin MembershipOps
  BY DEF Init, ServerInit, MembershipOps
<1>2. PICK e \in Varying(MembershipOps, Address) :
        wish = [w \in Wish |-> [email |-> IF w = 0 THEN e ELSE None, student |-> None,
                                status |-> IF w = 0 THEN "pending" ELSE "absent"]]
  BY DEF Init, MembershipInit
<1>3. e \in Address
  BY <1>2, VaryingIn, MembershipAssumption
<1>4. owner \in [Address -> {None, Staff}]
  <2>1. [x \in Address |-> None] \in [Address -> {None, Staff}]
    OBVIOUS
  <2> QED
    BY <2>1, VaryingIn DEF Init, MembershipInit
<1>5. /\ student = [r \in Req |-> [email |-> None, tier |-> "none"]]
      /\ pass = [r \in Req |-> "absent"]
  BY DEF Init, MembershipInit
<1>6. MembershipTypeOK
  BY <1>2, <1>3, <1>4, <1>5 DEF MembershipTypeOK, WishStatus, Tier, PassStatus, Staff, Wish
<1>7. MemberWhole
  BY <1>2, <1>3, <1>5 DEF MemberWhole
<1>8. MemberRows
  BY <1>2, <1>5, ServerAssumption DEF MemberRows, Wish, Req
<1> QED
  BY <1>1, <1>6, <1>7, <1>8 DEF MemberInv, MemberPlaced

LEMMA QuietMembers ==
  ASSUME Tabled, MemberInv, NEW r \in Req, \A q \in Req : q # r => req'[q] = req[q],
         UNCHANGED members, ~Provided(r), MemberPlaced(r)'
  PROVE  MemberInv'
<1> USE DEF MemberInv, members
<1>1. MembershipTypeOK' /\ MemberWhole'
  BY DEF MembershipTypeOK, MemberWhole
<1>2. \A q \in Req : MemberPlaced(q)'
  BY DEF MemberPlaced
<1>3. MemberRows'
  BY DEF MemberRows, Provided
<1> QED
  BY <1>1, <1>2, <1>3

\* A handler of the desk that has begun.
LEMMA MemberAtWork ==
  ASSUME Tabled, MemberInv, NEW r \in Req, Handles(r, MembershipOps), req[r].pc # "idle"
  PROVE  req[r].op \in MembershipOps /\ req[r] \in MemberRow /\ MemberPlaced(r)
BY DEF Tabled, MemberInv, MemberPlaced, Handles

LEMMA MemberGoes ==
  ASSUME Tabled, MemberInv, NEW r \in Req, Handles(r, MembershipOps), req[r].pc # "idle",
         NEW pc \in {"insert", "provision", "done"}, Goto(r, pc)
  PROVE  /\ req'[r] \in MemberRow
         /\ req'[r] = [req[r] EXCEPT !.pc = pc]
         /\ req'[r].pc = pc /\ req'[r].op = req[r].op
         /\ req'[r].wish = req[r].wish /\ req'[r].email = req[r].email
         /\ \A q \in Req : q # r => req'[q] = req[q]
<1>1. req[r] \in MemberRow
  BY MemberAtWork
<1>2. req'[r] = [req[r] EXCEPT !.pc = pc] /\ \A q \in Req : q # r => req'[q] = req[q]
  BY <1>1, GotoKeeps DEF MemberRow, MembershipOps, Keeps
<1> QED
  BY <1>1, <1>2 DEF MemberRow

LEMMA MemberFails ==
  ASSUME Tabled, MemberInv, NEW r \in Req, Handles(r, MembershipOps), req[r].pc # "idle",
         Raise(r)
  PROVE  /\ MemberPlaced(r)'
         /\ \A q \in Req : q # r => req'[q] = req[q]
<1>1. req[r] \in MemberRow
  BY MemberAtWork
<1>2. /\ req'[r] = [req[r] EXCEPT !.pc = req[r].catch, !.catch = "failed"]
      /\ \A q \in Req : q # r => req'[q] = req[q]
  BY <1>1, RaiseKeeps DEF MemberRow, MembershipOps, Keeps
<1>3. req'[r] \in MemberRow /\ req'[r].pc = "failed"
  BY <1>1, <1>2 DEF MemberRow
<1> QED
  BY <1>2, <1>3 DEF MemberPlaced

LEMMA MemberQuietStep ==
  ASSUME Tabled, MemberInv, NEW r \in Req, Handles(r, MembershipOps),
         \/ Apply(r) \/ CheckMember(r) \/ FindWish(r) \/ CheckOwner(r) \/ ProvisionRefused(r)
         \/ FindPass(r) \/ VerifyPass(r)
  PROVE  MemberInv'
<1>1. UNCHANGED members /\ ~Provided(r)
  BY DEF Apply, CheckMember, FindWish, CheckOwner, ProvisionRefused, FindPass, VerifyPass,
         Provided, CanStart, At
<1> SUFFICES /\ MemberPlaced(r)'
             /\ \A q \in Req : q # r => req'[q] = req[q]
  BY <1>1, QuietMembers
<1> USE DEF At, CanStart
<1>2. CASE Apply(r)
  <2>1. PICK e \in Address : Begin(r, MembershipCall("apply", "member", r, e))
    BY <1>2 DEF Apply
  <2>2. /\ req'[r] = MembershipCall("apply", "member", r, e)
        /\ \A q \in Req : q # r => req'[q] = req[q]
    BY <2>1 DEF Begin, Tabled
  <2> QED
    BY <2>2 DEF MemberPlaced, MemberRow, MembershipCall, MembershipOps, Wish
<1>3. CASE FindWish(r)
  <2>1. PICK op \in {"approve", "reject"}, w \in Wish :
          /\ wish[w].status = "pending"
          /\ Begin(r, MembershipCall(op, IF op = "approve" THEN "account" ELSE "reject",
                                     w, wish[w].email))
    BY <1>3 DEF FindWish
  <2>2. /\ req'[r] = MembershipCall(op, IF op = "approve" THEN "account" ELSE "reject",
                                    w, wish[w].email)
        /\ \A q \in Req : q # r => req'[q] = req[q]
    BY <2>1 DEF Begin, Tabled
  <2>3. wish[w].email \in Address
    BY <2>1 DEF MemberInv, MemberWhole
  <2> QED
    BY <1>1, <2>1, <2>2, <2>3 DEF MemberPlaced, MemberRow, MembershipCall, MembershipOps, members
<1>4. CASE FindPass(r)
  <2>1. PICK s \in Req :
          /\ pass[s] = "active"
          /\ Begin(r, [MembershipCall("revoke", "revoke", None, None) EXCEPT !.pass = s])
    BY <1>4 DEF FindPass
  <2>2. /\ req'[r] = [MembershipCall("revoke", "revoke", None, None) EXCEPT !.pass = s]
        /\ \A q \in Req : q # r => req'[q] = req[q]
    BY <2>1 DEF Begin, Tabled
  <2> QED
    BY <1>1, <2>1, <2>2 DEF MemberPlaced, MemberRow, MembershipCall, MembershipOps, members
<1>5. CASE VerifyPass(r)
  <2>1. PICK s \in Req, v \in BOOLEAN :
          Begin(r, [MembershipCall("verifyPass", "done", None, None)
                      EXCEPT !.pass = s, !.valid = v])
    BY <1>5 DEF VerifyPass
  <2>2. /\ req'[r] = [MembershipCall("verifyPass", "done", None, None)
                        EXCEPT !.pass = s, !.valid = v]
        /\ \A q \in Req : q # r => req'[q] = req[q]
    BY <2>1 DEF Begin, Tabled
  <2> QED
    BY <2>2 DEF MemberPlaced, MemberRow, MembershipCall, MembershipOps
<1>6. CASE CheckMember(r)
  <2>1. CASE Raise(r)
    BY <1>6, <2>1, MemberFails DEF CheckMember
  <2>2. CASE Goto(r, "insert")
    BY <1>1, <1>6, <2>2, MemberAtWork, MemberGoes DEF CheckMember, MemberPlaced, members
  <2> QED
    BY <1>6, <2>1, <2>2 DEF CheckMember
<1>7. CASE CheckOwner(r)
  <2>1. CASE Raise(r)
    BY <1>7, <2>1, MemberFails DEF CheckOwner
  <2>2. CASE Goto(r, "provision")
    BY <1>1, <1>7, <2>2, MemberAtWork, MemberGoes DEF CheckOwner, MemberPlaced, members
  <2> QED
    BY <1>7, <2>1, <2>2 DEF CheckOwner
<1>8. CASE ProvisionRefused(r)
  BY <1>8, MemberFails DEF ProvisionRefused
<1> QED
  BY <1>2, <1>3, <1>4, <1>5, <1>6, <1>7, <1>8

\* A handler that was placed stays so when no row it names goes away.
LEMMA OthersPlaced ==
  ASSUME MemberInv, NEW r \in Req, \A q \in Req : q # r => req'[q] = req[q],
         MemberPlaced(r)',
         \A w \in Wish : wish[w].status # "absent" =>
           wish'[w].status # "absent" /\ wish'[w].email = wish[w].email,
         \A s \in Req : pass[s] # "absent" => pass'[s] # "absent"
  PROVE  \A q \in Req : MemberPlaced(q)'
<1> SUFFICES ASSUME NEW q \in Req, q # r, req'[q].op \in MembershipOps
             PROVE  MemberPlaced(q)'
  BY DEF MemberPlaced
<1>1. MemberPlaced(q) /\ req'[q] = req[q]
  BY DEF MemberInv
<1> QED
  BY <1>1 DEF MemberPlaced, MemberRow

LEMMA InsertRequestKeeps ==
  ASSUME Tabled, MemberInv, NEW r \in Req, Handles(r, MembershipOps), InsertRequest(r)
  PROVE  MemberInv'
<1>1. /\ req[r].op \in MembershipOps /\ req[r] \in MemberRow /\ req[r].pc = "insert"
      /\ req[r].email \in Address
  BY MemberAtWork DEF InsertRequest, At, MemberPlaced
<1>2. /\ req'[r] \in MemberRow /\ req'[r].pc = "done" /\ req'[r].op = req[r].op
      /\ \A q \in Req : q # r => req'[q] = req[q]
  BY <1>1, MemberGoes DEF InsertRequest, At
<1>3. /\ wish' = [wish EXCEPT ![r] = [email |-> req[r].email, student |-> None,
                                      status |-> "pending"]]
      /\ UNCHANGED <<student, owner, pass>>
  BY DEF InsertRequest
<1>4. wish[r].status = "absent" /\ r \in Wish
  BY <1>1 DEF MemberInv, MemberRows, Provided, Wish
<1>5. MembershipTypeOK'
  BY <1>1, <1>3 DEF MemberInv, MembershipTypeOK, WishStatus
<1>6. MemberRows'
  BY <1>1, <1>2, <1>3, <1>4 DEF MemberInv, MemberRows, Provided, MembershipTypeOK
<1>7. MemberWhole'
  BY <1>1, <1>3, <1>4 DEF MemberInv, MemberWhole, MembershipTypeOK
<1>8. \A q \in Req : MemberPlaced(q)'
  <2>1. MemberPlaced(r)'
    BY <1>2 DEF MemberPlaced
  <2>2. \A w \in Wish : wish[w].status # "absent" =>
           wish'[w].status # "absent" /\ wish'[w].email = wish[w].email
    BY <1>3, <1>4 DEF MemberInv, MembershipTypeOK
  <2> QED
    BY <1>2, <1>3, <2>1, <2>2, OthersPlaced
<1> QED
  BY <1>5, <1>6, <1>7, <1>8 DEF MemberInv

LEMMA ProvisionKeeps ==
  ASSUME Tabled, MemberInv, NEW r \in Req, Handles(r, MembershipOps), Provision(r)
  PROVE  MemberInv'
<1> DEFINE e == req[r].email
           w == req[r].wish
<1>1. /\ req[r].op \in MembershipOps /\ req[r] \in MemberRow /\ req[r].pc = "provision"
      /\ w \in Wish /\ wish[w].status # "absent" /\ e = wish[w].email
  BY MemberAtWork DEF Provision, At, MemberPlaced
<1>2. /\ req'[r] \in MemberRow /\ req'[r].pc = "done" /\ req'[r].op = req[r].op
      /\ \A q \in Req : q # r => req'[q] = req[q]
  BY <1>1, MemberGoes DEF Provision, At
<1>3. /\ student' = [student EXCEPT ![r] = [email |-> e, tier |-> "bronze"]]
      /\ owner' = [owner EXCEPT ![e] = r]
      /\ pass' = [pass EXCEPT ![r] = "active"]
      /\ owner[e] = None
  BY DEF Provision
<1>4. /\ wish' = [wish EXCEPT ![w] = [@ EXCEPT !.status = "approved", !.student = r]]
  BY <1>1 DEF Provision, MemberInv, MembershipTypeOK
<1>5. e \in Address /\ student[r].tier = "none"
  BY <1>1 DEF MemberInv, MemberWhole, MemberRows, Provided
<1> HIDE DEF e, w
<1>6. /\ wish'[w] = [wish[w] EXCEPT !.status = "approved", !.student = r]
      /\ \A x \in Wish : x # w => wish'[x] = wish[x]
      /\ wish'[w].status = "approved" /\ wish'[w].student = r /\ wish'[w].email = e
  BY <1>1, <1>4 DEF MemberInv, MembershipTypeOK
<1>7. MembershipTypeOK'
  <2> USE DEF MemberInv, MembershipTypeOK
  <2>1. wish[w] \in [email : Address \cup {None}, status : WishStatus, student : Req \cup {None}]
    BY <1>1
  <2>2. [wish[w] EXCEPT !.status = "approved", !.student = r]
          \in [email : Address \cup {None}, status : WishStatus, student : Req \cup {None}]
    BY <2>1 DEF WishStatus
  <2>3. wish' \in [Wish -> [email : Address \cup {None}, status : WishStatus,
                            student : Req \cup {None}]]
    BY <1>1, <1>4, <2>2
  <2>4. student' \in [Req -> [email : Address \cup {None}, tier : Tier]]
    BY <1>3, <1>5 DEF Tier
  <2>5. owner' \in [Address -> Req \cup {None, Staff}] /\ pass' \in [Req -> PassStatus]
    BY <1>3, <1>5 DEF PassStatus
  <2> QED
    BY <2>3, <2>4, <2>5
<1>8. MemberRows'
  <2>1. \A q \in Req : wish'[q].status # "absent" => q = r \/ wish[q].status # "absent"
    BY <1>1, <1>6 DEF Wish
  <2> QED
    BY <1>1, <1>2, <1>3, <2>1 DEF MemberInv, MemberRows, Provided, MembershipTypeOK
<1>9. MemberWhole'
  <2>1. \A s \in Req \ {r} : student'[s] = student[s] /\ pass'[s] = pass[s]
    BY <1>3 DEF MemberInv, MembershipTypeOK
  <2>2. /\ student'[r].tier = "bronze" /\ student'[r].email = e
        /\ pass'[r] = "active" /\ owner'[e] = r
    BY <1>3, <1>5 DEF MemberInv, MembershipTypeOK
  <2>3. \A s \in Req \ {r} : student[s].tier # "none" =>
          student[s].email # e /\ owner'[student[s].email] = s
    BY <1>3, <1>5, ServerAssumption DEF MemberInv, MemberWhole, MembershipTypeOK
  <2>4. \A s \in Req :
          IF student'[s].tier = "none" THEN student'[s].email = None /\ pass'[s] = "absent"
          ELSE student'[s].email \in Address /\ owner'[student'[s].email] = s
               /\ pass'[s] # "absent"
    BY <1>5, <2>1, <2>2, <2>3 DEF MemberInv, MemberWhole
  <2>5. \A x \in Wish : /\ wish'[x].status # "absent" => wish'[x].email \in Address
                        /\ wish'[x].status = "approved" =>
                             /\ wish'[x].student \in Req
                             /\ student'[wish'[x].student].tier # "none"
                             /\ student'[wish'[x].student].email = wish'[x].email
    <3> SUFFICES ASSUME NEW x \in Wish
                 PROVE  /\ wish'[x].status # "absent" => wish'[x].email \in Address
                        /\ wish'[x].status = "approved" =>
                             /\ wish'[x].student \in Req
                             /\ student'[wish'[x].student].tier # "none"
                             /\ student'[wish'[x].student].email = wish'[x].email
      OBVIOUS
    <3>1. CASE x = w
      BY <1>5, <1>6, <2>2, <3>1
    <3>2. CASE x # w
      <4>1. wish'[x] = wish[x]
        BY <1>6, <3>2
      <4>2. wish[x].status = "approved" => wish[x].student \in Req \ {r}
        BY <1>5 DEF MemberInv, MemberWhole
      <4> QED
        BY <4>1, <4>2, <2>1 DEF MemberInv, MemberWhole
    <3> QED
      BY <3>1, <3>2
  <2> QED
    BY <2>4, <2>5 DEF MemberWhole
<1>10. \A q \in Req : MemberPlaced(q)'
  <2>1. MemberPlaced(r)'
    BY <1>2 DEF MemberPlaced
  <2>2. \A x \in Wish : wish[x].status # "absent" =>
           wish'[x].status # "absent" /\ wish'[x].email = wish[x].email
    BY <1>1, <1>6, MemberAtWork DEF e
  <2>3. \A s \in Req : pass[s] # "absent" => pass'[s] # "absent"
    BY <1>3 DEF MemberInv, MembershipTypeOK
  <2> QED
    BY <1>2, <2>1, <2>2, <2>3, OthersPlaced
<1> QED
  BY <1>7, <1>8, <1>9, <1>10 DEF MemberInv

LEMMA RejectKeeps ==
  ASSUME Tabled, MemberInv, NEW r \in Req, Handles(r, MembershipOps), RejectWish(r)
  PROVE  MemberInv'
<1> DEFINE w == req[r].wish
<1>1. /\ req[r].op \in MembershipOps /\ req[r] \in MemberRow /\ req[r].pc = "reject"
      /\ w \in Wish /\ wish[w].status # "absent"
  BY MemberAtWork DEF RejectWish, At, MemberPlaced
<1>2. /\ req'[r] \in MemberRow /\ req'[r].pc = "done" /\ req'[r].op = req[r].op
      /\ \A q \in Req : q # r => req'[q] = req[q]
  BY <1>1, MemberGoes DEF RejectWish, At
<1>3. /\ wish' = [wish EXCEPT ![w] = [@ EXCEPT !.status = "rejected"]]
      /\ UNCHANGED <<student, owner, pass>>
  BY DEF RejectWish
<1> HIDE DEF w
<1>4. /\ \A x \in Wish : x # w => wish'[x] = wish[x]
      /\ wish'[w].status = "rejected" /\ wish'[w].email = wish[w].email
  BY <1>1, <1>3 DEF MemberInv, MembershipTypeOK
<1>5. MembershipTypeOK'
  BY <1>1, <1>3 DEF MemberInv, MembershipTypeOK, WishStatus
<1>6. MemberRows'
  <2>1. \A q \in Req : wish'[q].status # "absent" => wish[q].status # "absent"
    BY <1>1, <1>4 DEF Wish
  <2> QED
    BY <1>1, <1>2, <1>3, <2>1 DEF MemberInv, MemberRows, Provided
<1>7. MemberWhole'
  BY <1>1, <1>3, <1>4 DEF MemberInv, MemberWhole
<1>8. \A q \in Req : MemberPlaced(q)'
  <2>1. MemberPlaced(r)'
    BY <1>2 DEF MemberPlaced
  <2> QED
    BY <1>1, <1>2, <1>3, <1>4, <2>1, OthersPlaced
<1> QED
  BY <1>5, <1>6, <1>7, <1>8 DEF MemberInv

LEMMA RevokeKeeps ==
  ASSUME Tabled, MemberInv, NEW r \in Req, Handles(r, MembershipOps), RevokePass(r)
  PROVE  MemberInv'
<1>1. /\ req[r].op \in MembershipOps /\ req[r] \in MemberRow /\ req[r].pc = "revoke"
      /\ req[r].pass \in Req /\ pass[req[r].pass] # "absent"
  BY MemberAtWork DEF RevokePass, At, MemberPlaced
<1>2. /\ req'[r] \in MemberRow /\ req'[r].pc = "done" /\ req'[r].op = req[r].op
      /\ \A q \in Req : q # r => req'[q] = req[q]
  BY <1>1, MemberGoes DEF RevokePass, At
<1>3. /\ pass' = [pass EXCEPT ![req[r].pass] = "revoked"]
      /\ UNCHANGED <<wish, student, owner>>
  BY DEF RevokePass
<1>4. MembershipTypeOK' /\ \A s \in Req : pass[s] = "absent" <=> pass'[s] = "absent"
  BY <1>1, <1>3 DEF MemberInv, MembershipTypeOK, PassStatus
<1>5. MemberRows'
  BY <1>1, <1>2, <1>3 DEF MemberInv, MemberRows, Provided
<1>6. MemberWhole'
  BY <1>3, <1>4 DEF MemberInv, MemberWhole
<1>7. \A q \in Req : MemberPlaced(q)'
  <2>1. MemberPlaced(r)'
    BY <1>2 DEF MemberPlaced
  <2> QED
    BY <1>2, <1>3, <1>4, <2>1, OthersPlaced
<1> QED
  BY <1>4, <1>5, <1>6, <1>7 DEF MemberInv

LEMMA BlacklistKeeps ==
  ASSUME Tabled, MemberInv, NEW r \in Req, Handles(r, MembershipOps), Blacklist(r)
  PROVE  MemberInv'
<1>1. PICK s \in Req :
        /\ student[s].tier = "bronze"
        /\ student' = [student EXCEPT ![s] = [@ EXCEPT !.tier = "blacklisted"]]
        /\ pass' = [pass EXCEPT ![s] = "revoked"]
        /\ Begin(r, [MembershipCall("blacklist", "done", None, None) EXCEPT !.pass = s])
  BY DEF Blacklist
<1>2. UNCHANGED <<wish, owner>> /\ req[r].pc = "idle"
  BY DEF Blacklist, CanStart
<1>3. /\ req'[r] = [MembershipCall("blacklist", "done", None, None) EXCEPT !.pass = s]
      /\ \A q \in Req : q # r => req'[q] = req[q]
  BY <1>1 DEF Begin, Tabled
<1>4. /\ req'[r] \in MemberRow /\ req'[r].pc = "done" /\ req'[r].op \in MembershipOps
  BY <1>3 DEF MemberRow, MembershipCall, MembershipOps
<1>5. /\ pass'[s] = "revoked" /\ \A x \in Req : x # s => pass'[x] = pass[x]
      /\ student'[s].tier = "blacklisted" /\ student'[s].email = student[s].email
      /\ \A x \in Req : x # s => student'[x] = student[x]
  BY <1>1 DEF MemberInv, MembershipTypeOK
<1>6. MembershipTypeOK'
  BY <1>1, <1>2 DEF MemberInv, MembershipTypeOK, PassStatus, Tier
<1>7. MemberRows'
  BY <1>1, <1>2, <1>3, <1>4, <1>5 DEF MemberInv, MemberRows, Provided
<1>8. MemberWhole'
  BY <1>1, <1>2, <1>5 DEF MemberInv, MemberWhole
<1>9. \A q \in Req : MemberPlaced(q)'
  <2>1. MemberPlaced(r)'
    BY <1>4 DEF MemberPlaced
  <2> QED
    BY <1>2, <1>3, <1>5, <2>1, OthersPlaced
<1> QED
  BY <1>6, <1>7, <1>8, <1>9 DEF MemberInv

LEMMA AlwaysMembers == Spec => []MemberInv
<1>1. Tabled /\ Tabled' /\ MemberInv /\ [Next]_vars => MemberInv'
  <2> SUFFICES ASSUME Tabled, Tabled', MemberInv, [Next]_vars PROVE MemberInv'
    OBVIOUS
  <2>1. CASE UNCHANGED vars
    BY <2>1 DEF vars, server, people, members, MemberInv, MembershipTypeOK, MemberPlaced, MemberRows,
                MemberWhole, Provided
  <2>2. ASSUME NEW r \in Req, MembershipStep(r), Handles(r, MembershipOps)
        PROVE  MemberInv'
    BY <2>2, MemberQuietStep, InsertRequestKeeps, ProvisionKeeps, RejectKeeps, RevokeKeeps,
       BlacklistKeeps DEF MembershipStep
  <2>3. ASSUME NEW r \in Req, UNCHANGED members, Away(r, MembershipOps)
        PROVE  MemberInv'
    BY <2>3, QuietMembers DEF Away, Provided, MemberPlaced
  <2>4. ASSUME NEW r \in Req, Break(r)
        PROVE  MemberInv'
    <3>1. /\ UNCHANGED members /\ r \in InFlight
          /\ \A q \in Req : q # r => req'[q] = req[q]
          /\ req'[r].op = req[r].op
          /\ \/ req'[r] = [req[r] EXCEPT !.pc = req[r].catch, !.catch = "failed"]
             \/ req'[r] = [req[r] EXCEPT !.pc = "died"]
      BY <2>4, BreakKeeps DEF Break, people, Keeps
    <3>2. MemberPlaced(r)'
      <4>1. CASE req[r].op \in MembershipOps
        <5>1. req[r] \in MemberRow
          BY <4>1 DEF MemberInv, MemberPlaced
        <5>2. req'[r] \in MemberRow /\ req'[r].pc \in {"failed", "died"}
          BY <3>1, <5>1 DEF MemberRow
        <5> QED
          BY <5>2 DEF MemberPlaced
      <4> QED
        BY <3>1, <4>1 DEF MemberPlaced
    <3> QED
      BY <3>1, <3>2, QuietMembers DEF InFlight, Ended, Provided
  <2> QED
    BY <2>1, <2>2, <2>3, <2>4, AtMembership DEF Next
<1> QED
  BY <1>1, MemberInit, AlwaysTabled, PTL DEF Spec

\* However requests, approvals and rejections of membership cross: an address
\* has one student at most, who has the account and a pass, and an approved
\* request has its student (membership.service.ts; digital-pass.service.ts).
THEOREM WholeMembers == Spec => []MembersAreWhole
<1>1. MemberInv => MembersAreWhole
  <2> SUFFICES ASSUME MemberInv PROVE MembersAreWhole
    OBVIOUS
  <2>1. ASSUME NEW s \in Req, NEW t \in Req, student[s].tier # "none",
               student[s].email = student[t].email
        PROVE  s = t
    <3>1. student[s].email \in Address /\ owner[student[s].email] = s
      BY <2>1 DEF MemberInv, MemberWhole
    <3>2. student[t].tier # "none"
      BY <2>1, <3>1, MembershipAssumption DEF MemberInv, MemberWhole
    <3>3. owner[student[t].email] = t
      BY <3>2 DEF MemberInv, MemberWhole
    <3> QED
      BY <2>1, <3>1, <3>3
  <2>2. \A s \in Req : LET exists == student[s].tier # "none" IN
          /\ exists <=> pass[s] # "absent"
          /\ exists => owner[student[s].email] = s
    BY DEF MemberInv, MemberWhole
  <2>3. \A w \in Wish : wish[w].status = "approved" =>
          /\ wish[w].student # None
          /\ student[wish[w].student].email = wish[w].email
    BY ServerAssumption DEF MemberInv, MemberWhole
  <2> QED
    BY <2>1, <2>2, <2>3 DEF MembersAreWhole
<1> QED
  BY <1>1, AlwaysMembers, PTL

-------------------------------------------------------------------------------
(***************************************************************************)
(* Meetings.                                                                *)
(***************************************************************************)

LEMMA AtMeetings ==
  ASSUME Tabled, NEW r \in Req, Step(r)
  PROVE  \/ MeetingsStep(r) /\ Handles(r, MeetingOps)
         \/ UNCHANGED meetings /\ Away(r, MeetingOps)
<1>1. MeetingOps \in Endpoints
  BY DEF Endpoints
<1>2. CASE MeetingsStep(r) /\ Handles(r, MeetingOps)
  BY <1>2
<1>3. CASE ~(MeetingsStep(r) /\ Handles(r, MeetingOps))
  <2>1. UNCHANGED meetings
    BY <1>3 DEF Step, people, files
  <2>2. "schedule" \in MeetingOps
        /\ "schedule" \notin CoreOps \cup GuarantorOps \cup AccountOps \cup MembershipOps
                           \cup PolicyOps \cup DocumentOps \cup UniversityOps \cup AssessmentOps
    BY DEF CoreOps, GuarantorOps, AccountOps, MembershipOps, MeetingOps,
           PolicyOps, DocumentOps, UniversityOps, AssessmentOps
  <2>3. \E ops \in Endpoints \ {MeetingOps} : Handles(r, ops) /\ Keeps(r, ops)
    BY <1>3, <2>2, CoreKeeps, GuarantorKeeps, AccountKeeps, MembershipKeeps, PolicyKeeps,
       DocumentKeeps, UniversityKeeps, AssessmentKeeps DEF Step, Endpoints
  <2> QED
    BY <2>1, <2>3, <1>1, ElsewhereIsAway
<1> QED
  BY <1>2, <1>3

MeetingRow == [status : MeetingStatus, from : Nat]

MeetingHandler ==
  [op : MeetingOps,
   pc : {"book", "leave", "rebook", "mark", "tellStudent", "tellGuarantor", "done", "failed",
         "died"},
   catch : {"failed"}, back : {"done"}, meeting : Nat, status : MeetingStatus \cup {None},
   news : {"meeting_scheduled", "meeting_rescheduled", "meeting_cancelled", None}]

MeetingPlaced(r) ==
  req[r].op \in MeetingOps =>
    /\ req[r] \in MeetingHandler
    /\ req[r].pc \in {"leave", "rebook", "mark"} => req[r].meeting \in DOMAIN meeting
    /\ req[r].pc = "mark" => req[r].status \in MeetingStatus \ {"rescheduled"}
    /\ req[r].pc = "tellStudent" => req[r].meeting \in {Nothing} \cup DOMAIN meeting

\* Who may still owe a step to m, having taken the one before it; who was cut
\* off after that one owes it for ever.
CutOff(r) == req[r].op \in MeetingOps /\ \/ req[r].pc = "died"
                                         \/ req[r].pc = "failed" /\ req[r].op \in MayThrow
Owing(pc, m) == \E r \in Req : \/ CutOff(r)
                               \/ /\ req[r].op \in MeetingOps
                                  /\ req[r].pc = pc /\ req[r].meeting = m

\* The student has been, or is being, told of m; what m was moved to is there, or comes.
StudentTold(m) == \/ \E mail \in mailed : mail.to = "student" /\ mail.about = m
                 \/ Owing("tellStudent", m)
Followed(m) == meeting[m].status = "rescheduled" =>
                 (\E n \in DOMAIN meeting : meeting[n].from = m) \/ Owing("rebook", m)

MeetingInv == /\ meeting \in Seq(MeetingRow) /\ MeetingsTypeOK
              /\ \A r \in Req : MeetingPlaced(r)
              /\ \A m \in DOMAIN meeting : StudentTold(m) /\ Followed(m)

LEMMA MeetingBegins == Init => MeetingInv
<1> SUFFICES ASSUME Init PROVE MeetingInv
  OBVIOUS
<1>1. \A r \in Req : req[r].op \notin MeetingOps
  BY DEF Init, ServerInit, MeetingOps
<1>2. meeting = <<>>
  BY DEF Init, MeetingsInit
<1>3. meeting \in Seq(MeetingRow) /\ MeetingsTypeOK
  BY <1>2 DEF Init, MeetingsInit, MeetingsTypeOK
<1> QED
  BY <1>1, <1>2, <1>3 DEF MeetingInv, MeetingPlaced

LEMMA MeetingAtWork ==
  ASSUME Tabled, MeetingInv, NEW r \in Req, Handles(r, MeetingOps), req[r].pc # "idle"
  PROVE  req[r].op \in MeetingOps /\ req[r] \in MeetingHandler /\ MeetingPlaced(r)
BY DEF Tabled, MeetingInv, MeetingPlaced, Handles

\* Rows are added and change, none goes away and none is moved from another.
LEMMA MeetingsStay ==
  ASSUME MeetingInv, NEW r \in Req, \A q \in Req : q # r => req'[q] = req[q],
         meeting' \in Seq(MeetingRow), DOMAIN meeting \subseteq DOMAIN meeting',
         MeetingsTypeOK', MeetingPlaced(r)',
         \A m \in DOMAIN meeting' : StudentTold(m)' /\ Followed(m)'
  PROVE  MeetingInv'
<1> SUFFICES ASSUME NEW q \in Req, q # r PROVE MeetingPlaced(q)'
  BY DEF MeetingInv
<1>1. MeetingPlaced(q) /\ req'[q] = req[q]
  BY DEF MeetingInv
<1> QED
  BY <1>1 DEF MeetingPlaced

\* The debts of the others stay; so does that of r where r is not the debtor.
LEMMA DebtsStay ==
  ASSUME NEW r \in Req, \A q \in Req : q # r => req'[q] = req[q], NEW pc, NEW m,
         ~CutOff(r),
         ~(req[r].op \in MeetingOps /\ req[r].pc = pc /\ req[r].meeting = m),
         Owing(pc, m)
  PROVE  Owing(pc, m)'
BY DEF Owing, CutOff

LEMMA QuietMeetings ==
  ASSUME MeetingInv, NEW r \in Req, \A q \in Req : q # r => req'[q] = req[q],
         UNCHANGED meetings, MeetingPlaced(r)',
         req[r].op \in MeetingOps =>
           req[r].pc \notin {"died", "failed", "rebook", "tellStudent"} \/ CutOff(r)'
  PROVE  MeetingInv'
<1>1. meeting' = meeting /\ mailed' = mailed
  BY DEF meetings
<1>2. \A m : /\ Owing("tellStudent", m) => Owing("tellStudent", m)'
             /\ Owing("rebook", m) => Owing("rebook", m)'
  BY DEF Owing, CutOff
<1>3. \A m \in DOMAIN meeting' : StudentTold(m)' /\ Followed(m)'
  BY <1>1, <1>2 DEF MeetingInv, StudentTold, Followed
<1>4. MeetingsTypeOK'
  BY <1>1 DEF MeetingInv, MeetingsTypeOK
<1> QED
  BY <1>1, <1>3, <1>4, MeetingsStay DEF MeetingInv

LEMMA ScheduleKeeps ==
  ASSUME Tabled, MeetingInv, NEW r \in Req, Schedule(r) \/ FindMeeting(r)
  PROVE  MeetingInv'
<1>1. req[r].pc = "idle" /\ UNCHANGED meetings /\ Len(meeting) \in Nat
  BY DEF Schedule, FindMeeting, CanStart, MeetingInv
<1>2. CASE Schedule(r)
  <2>1. req'[r] = MeetingCall("schedule", "book", Nothing, None)
        /\ \A q \in Req : q # r => req'[q] = req[q]
    BY <1>2 DEF Schedule, Begin, Tabled
  <2>2. MeetingPlaced(r)'
    BY <2>1 DEF MeetingPlaced, MeetingCall, MeetingHandler, MeetingOps, Nothing
  <2> QED
    BY <1>1, <2>1, <2>2, QuietMeetings
<1>3. CASE FindMeeting(r)
  <2>1. PICK m \in DOMAIN meeting, status \in MeetingStatus :
          Begin(r, MeetingCall("update", IF status = "rescheduled" THEN "leave" ELSE "mark",
                               m, status))
    BY <1>3 DEF FindMeeting
  <2>2. /\ req'[r] = MeetingCall("update", IF status = "rescheduled" THEN "leave" ELSE "mark",
                                 m, status)
        /\ \A q \in Req : q # r => req'[q] = req[q]
    BY <2>1 DEF Begin, Tabled
  <2>3. meeting' = meeting /\ m \in Nat
    BY <1>1 DEF meetings, MeetingInv
  <2>4. MeetingPlaced(r)'
    <3>1. req'[r] \in MeetingHandler
      BY <2>2, <2>3 DEF MeetingCall, MeetingHandler, MeetingOps
    <3>2. req'[r].pc \in {"leave", "mark"} /\ req'[r].meeting = m /\ req'[r].status = status
          /\ (req'[r].pc = "mark" => status # "rescheduled")
      BY <2>2 DEF MeetingCall
    <3> QED
      BY <2>3, <3>1, <3>2 DEF MeetingPlaced
  <2> QED
    BY <1>1, <2>2, <2>4, QuietMeetings
<1> QED
  BY <1>2, <1>3

\* A row that is added is told of by who adds it.
LEMMA InsertMeetingKeeps ==
  ASSUME Tabled, MeetingInv, NEW r \in Req, Handles(r, MeetingOps), Book(r) \/ Rebook(r)
  PROVE  MeetingInv'
<1>0. PICK n : n = Len(meeting) + 1
  OBVIOUS
<1>1. PICK from \in Nat, news \in {"meeting_scheduled", "meeting_rescheduled"} :
        /\ InsertMeeting(r, from, news)
        /\ req[r].pc \in {"book", "rebook"}
        /\ req[r].pc = "rebook" => from = req[r].meeting
        /\ req[r].pc = "book" => from = 0
  <2>1. CASE Book(r)
    BY <2>1 DEF Book, At, Nothing
  <2>2. CASE Rebook(r)
    <3>1. req[r].meeting \in Nat
      BY <2>2, MeetingAtWork DEF Rebook, At, MeetingHandler
    <3> QED
      BY <2>2, <3>1 DEF Rebook, At
  <2> QED
    BY <2>1, <2>2
<1>2. req[r].op \in MeetingOps /\ req[r] \in MeetingHandler /\ MeetingPlaced(r)
  BY <1>1, MeetingAtWork
<1>3. /\ meeting' = Append(meeting, [status |-> "scheduled", from |-> from])
      /\ mailed' = mailed
      /\ req'[r] = [req[r] EXCEPT !.meeting = n, !.news = news, !.pc = "tellStudent"]
      /\ \A q \in Req : q # r => req'[q] = req[q]
  BY <1>0, <1>1, <1>2 DEF InsertMeeting, Tabled
<1>4. /\ meeting' \in Seq(MeetingRow) /\ n \in Nat /\ Len(meeting) \in Nat
      /\ DOMAIN meeting' = DOMAIN meeting \cup {n} /\ n \notin DOMAIN meeting
      /\ meeting'[n] = [status |-> "scheduled", from |-> from]
      /\ \A m \in DOMAIN meeting : meeting'[m] = meeting[m]
  <2>1. [status |-> "scheduled", from |-> from] \in MeetingRow
    BY DEF MeetingRow, MeetingStatus
  <2> QED
    BY <1>0, <1>3, <2>1 DEF MeetingInv
<1>5. req'[r].op \in MeetingOps /\ req'[r].pc = "tellStudent" /\ req'[r].meeting = n
      /\ req'[r] \in MeetingHandler
  <2>1. [req[r] EXCEPT !.meeting = n, !.news = news, !.pc = "tellStudent"] \in MeetingHandler
    BY <1>2, <1>4 DEF MeetingHandler
  <2> QED
    BY <1>2, <1>3, <2>1 DEF MeetingHandler
<1>6. MeetingPlaced(r)' /\ MeetingsTypeOK'
  <2>1. MeetingPlaced(r)'
    BY <1>4, <1>5 DEF MeetingPlaced
  <2>2. from \in 0..(n - 1)
    <3>1. CASE req[r].pc = "book"
      BY <1>0, <1>1, <1>4, <3>1
    <3>2. CASE req[r].pc = "rebook"
      BY <1>0, <1>1, <1>2, <1>4, <3>2 DEF MeetingPlaced, MeetingInv
    <3> QED
      BY <1>1, <3>1, <3>2
  <2>3. "scheduled" \in MeetingStatus
    BY DEF MeetingStatus
  <2> QED
    BY <1>3, <1>4, <2>1, <2>2, <2>3 DEF MeetingInv, MeetingsTypeOK
<1>7. \A m \in DOMAIN meeting' : StudentTold(m)'
  <2>1. StudentTold(n)'
    BY <1>5 DEF StudentTold, Owing, CutOff
  <2>2. ASSUME NEW m \in DOMAIN meeting PROVE StudentTold(m)'
    <3>1. StudentTold(m)
      BY DEF MeetingInv
    <3>2. Owing("tellStudent", m) => Owing("tellStudent", m)'
      BY <1>1, <1>3, DebtsStay DEF CutOff
    <3> QED
      BY <1>3, <3>1, <3>2 DEF StudentTold
  <2> QED
    BY <1>4, <2>1, <2>2
<1>8. \A m \in DOMAIN meeting' : Followed(m)'
  <2>1. Followed(n)'
    BY <1>4 DEF Followed
  <2>2. ASSUME NEW m \in DOMAIN meeting PROVE Followed(m)'
    <3>1. Followed(m)
      BY DEF MeetingInv
    <3>2. CASE req[r].pc = "rebook" /\ req[r].meeting = m
      <4>1. n \in DOMAIN meeting' /\ meeting'[n].from = m
        BY <1>1, <1>4, <3>2
      <4> QED
        BY <4>1 DEF Followed
    <3>3. CASE ~(req[r].pc = "rebook" /\ req[r].meeting = m)
      <4>1. Owing("rebook", m) => Owing("rebook", m)'
        BY <1>1, <1>3, <3>3, DebtsStay DEF CutOff
      <4> QED
        BY <1>4, <3>1, <4>1 DEF Followed
    <3> QED
      BY <3>2, <3>3
  <2> QED
    BY <1>4, <2>1, <2>2
<1> QED
  BY <1>3, <1>4, <1>6, <1>7, <1>8, MeetingsStay

\* A row whose status is set; "rescheduled" is followed by its copy.
LEMMA StatusKeeps ==
  ASSUME Tabled, MeetingInv, NEW r \in Req, Handles(r, MeetingOps), LeaveMeeting(r) \/ MarkMeeting(r)
  PROVE  MeetingInv'
<1> DEFINE w == req[r].meeting
<1>1. /\ req[r].op \in MeetingOps /\ req[r] \in MeetingHandler /\ MeetingPlaced(r)
      /\ req[r].pc \in {"leave", "mark"} /\ w \in DOMAIN meeting
  <2>1. req[r].pc \in {"leave", "mark"}
    BY DEF LeaveMeeting, MarkMeeting, At
  <2>2. req[r].op \in MeetingOps /\ req[r] \in MeetingHandler /\ MeetingPlaced(r)
    BY <2>1, MeetingAtWork
  <2> QED
    BY <2>1, <2>2 DEF MeetingPlaced
<1>2. PICK s \in MeetingStatus :
        /\ meeting' = [meeting EXCEPT ![w].status = s]
        /\ mailed' = mailed
        /\ \A q \in Req : q # r => req'[q] = req[q]
        /\ req'[r] \in MeetingHandler /\ req'[r].op = req[r].op
        /\ s = "rescheduled" => req'[r].pc = "rebook"
        /\ req'[r].pc = "rebook" => req'[r].meeting = w
        /\ req'[r].pc \in {"rebook", "tellStudent", "done"}
        /\ req'[r].meeting \in {w, Nothing}
  <2>1. CASE LeaveMeeting(r)
    <3>1. /\ meeting' = [meeting EXCEPT ![w].status = "rescheduled"] /\ mailed' = mailed
          /\ Goto(r, "rebook")
      BY <2>1 DEF LeaveMeeting
    <3>2. req'[r] = [req[r] EXCEPT !.pc = "rebook"] /\ \A q \in Req : q # r => req'[q] = req[q]
      BY <1>1, <3>1, GotoKeeps DEF MeetingOps, Keeps
    <3>3. req'[r] \in MeetingHandler /\ req'[r].op = req[r].op /\ req'[r].pc = "rebook"
          /\ req'[r].meeting = w
      BY <1>1, <3>2 DEF MeetingHandler
    <3>4. "rescheduled" \in MeetingStatus
      BY DEF MeetingStatus
    <3> HIDE DEF w
    <3> QED
      BY <3>1, <3>2, <3>3, <3>4
  <2>2. CASE MarkMeeting(r)
    <3>1. /\ meeting' = [meeting EXCEPT ![w].status = req[r].status] /\ mailed' = mailed
      BY <2>2 DEF MarkMeeting
    <3>2. req[r].status \in MeetingStatus \ {"rescheduled"}
      BY <1>1, <2>2 DEF MarkMeeting, At, MeetingPlaced
    <3>3. /\ \A q \in Req : q # r => req'[q] = req[q]
          /\ \/ req'[r] = [req[r] EXCEPT !.meeting = Nothing, !.news = "meeting_cancelled",
                                         !.pc = "tellStudent"]
             \/ req'[r] = [req[r] EXCEPT !.pc = "done"]
      BY <1>1, <2>2 DEF MarkMeeting, Tabled
    <3>4. /\ req'[r] \in MeetingHandler /\ req'[r].op = req[r].op
          /\ req'[r].pc \in {"tellStudent", "done"}
          /\ req'[r].meeting \in {w, Nothing}
      <4>1. CASE req'[r] = [req[r] EXCEPT !.pc = "done"]
        BY <1>1, <4>1 DEF MeetingHandler
      <4>2. CASE req'[r] = [req[r] EXCEPT !.meeting = Nothing, !.news = "meeting_cancelled",
                                          !.pc = "tellStudent"]
        <5>1. [req[r] EXCEPT !.meeting = Nothing, !.news = "meeting_cancelled",
                             !.pc = "tellStudent"] \in MeetingHandler
          BY <1>1 DEF MeetingHandler, Nothing
        <5> QED
          BY <1>1, <4>2, <5>1 DEF MeetingHandler
      <4> QED
        BY <3>3, <4>1, <4>2
    <3> HIDE DEF w
    <3> QED
      BY <3>1, <3>2, <3>3, <3>4
  <2> QED
    BY <2>1, <2>2
<1>3. meeting[w] \in MeetingRow
  BY <1>1 DEF MeetingInv
<1> HIDE DEF w
<1>4. /\ meeting' \in Seq(MeetingRow) /\ DOMAIN meeting' = DOMAIN meeting
      /\ meeting'[w].status = s
      /\ \A m \in DOMAIN meeting : /\ meeting'[m].from = meeting[m].from
                                   /\ m # w => meeting'[m] = meeting[m]
  <2>1. [meeting[w] EXCEPT !.status = s] \in MeetingRow
    BY <1>3 DEF MeetingRow
  <2>2. meeting' = [meeting EXCEPT ![w] = [meeting[w] EXCEPT !.status = s]]
    BY <1>2
  <2>3. [meeting[w] EXCEPT !.status = s].from = meeting[w].from
        /\ [meeting[w] EXCEPT !.status = s].status = s
    BY <1>3 DEF MeetingRow
  <2>4. /\ DOMAIN meeting' = DOMAIN meeting
        /\ meeting'[w] = [meeting[w] EXCEPT !.status = s]
        /\ \A m \in DOMAIN meeting : m # w => meeting'[m] = meeting[m]
    BY <1>1, <2>2 DEF MeetingInv
  <2>5. meeting' \in Seq(MeetingRow)
    BY <1>1, <2>1, <2>2 DEF MeetingInv
  <2> QED
    BY <1>1, <2>3, <2>4, <2>5
<1>5. MeetingPlaced(r)' /\ MeetingsTypeOK'
  <2>1. MeetingPlaced(r)'
    BY <1>1, <1>2, <1>4 DEF MeetingPlaced
  <2> QED
    BY <1>2, <1>4, <2>1 DEF MeetingInv, MeetingsTypeOK
<1>6. \A m : /\ Owing("tellStudent", m) => Owing("tellStudent", m)'
             /\ Owing("rebook", m) => Owing("rebook", m)'
  BY <1>1, <1>2, DebtsStay DEF CutOff
<1>7. \A m \in DOMAIN meeting' : StudentTold(m)'
  BY <1>2, <1>4, <1>6 DEF MeetingInv, StudentTold
<1>8. \A m \in DOMAIN meeting' : Followed(m)'
  <2> SUFFICES ASSUME NEW m \in DOMAIN meeting PROVE Followed(m)'
    BY <1>4
  <2>1. CASE m = w /\ s = "rescheduled"
    <3>1. Owing("rebook", m)'
      BY <1>1, <1>2, <2>1 DEF Owing, CutOff
    <3> QED
      BY <3>1 DEF Followed
  <2>2. CASE m = w /\ s # "rescheduled"
    BY <1>4, <2>2 DEF Followed
  <2>3. CASE m # w
    BY <1>4, <1>6, <2>3 DEF MeetingInv, Followed
  <2> QED
    BY <2>1, <2>2, <2>3
<1> QED
  BY <1>2, <1>4, <1>5, <1>7, <1>8, MeetingsStay

LEMMA TellKeeps ==
  ASSUME Tabled, MeetingInv, NEW r \in Req, Handles(r, MeetingOps), TellStudent(r) \/ TellGuarantor(r)
  PROVE  MeetingInv'
<1>1. /\ req[r].op \in MeetingOps /\ req[r] \in MeetingHandler /\ MeetingPlaced(r)
      /\ req[r].pc \in {"tellStudent", "tellGuarantor"}
  <2>1. req[r].pc \in {"tellStudent", "tellGuarantor"}
    BY DEF TellStudent, TellGuarantor, At
  <2> QED
    BY <2>1, MeetingAtWork
<1>2. PICK pc \in {"tellGuarantor", "done"} : Goto(r, pc)
  BY DEF TellStudent, TellGuarantor
<1>3. req'[r] = [req[r] EXCEPT !.pc = pc] /\ \A q \in Req : q # r => req'[q] = req[q]
  BY <1>1, <1>2, GotoKeeps DEF MeetingOps, Keeps
<1>4. req'[r] \in MeetingHandler /\ req'[r].op = req[r].op /\ req'[r].pc = pc
  BY <1>1, <1>3 DEF MeetingHandler
<1>5. MeetingPlaced(r)'
  BY <1>4 DEF MeetingPlaced
<1>6. meeting' = meeting /\ mailed \subseteq mailed' /\ MeetingsTypeOK'
  <2>1. meeting' = meeting /\ mailed \subseteq mailed'
    BY DEF TellStudent, TellGuarantor, Mail
  <2>2. ASSUME NEW sent \in mailed'
        PROVE  \/ sent \in mailed
               \/ sent.to \in {"student", "guarantor"} /\ sent.about = req[r].meeting
    <3>1. \E to \in {"student", "guarantor"} :
            mailed' \subseteq
              mailed \cup {[to |-> to, news |-> req[r].news, about |-> req[r].meeting]}
      BY DEF TellStudent, TellGuarantor, Mail, Told
    <3>2. \E to \in {"student", "guarantor"} :
            \/ sent \in mailed
            \/ sent = [to |-> to, news |-> req[r].news, about |-> req[r].meeting]
      BY <2>2, <3>1
    <3> QED
      BY <3>2
  <2>3. req[r].meeting \in Nat
    BY <1>1 DEF MeetingHandler
  <2> QED
    BY <2>1, <2>2, <2>3 DEF MeetingInv, MeetingsTypeOK
<1>7. \A m : Owing("rebook", m) => Owing("rebook", m)'
  BY <1>1, <1>3, DebtsStay DEF CutOff
<1>8. ASSUME NEW m \in DOMAIN meeting, StudentTold(m)
      PROVE  StudentTold(m)'
  <2>1. CASE req[r].pc = "tellStudent" /\ req[r].meeting = m
    <3>1. mailed' = mailed \cup {[to |-> "student", news |-> req[r].news, about |-> m]}
      BY <2>1 DEF TellStudent, TellGuarantor, At, Mail, Told
    <3>2. [to |-> "student", news |-> req[r].news, about |-> m] \in mailed'
      BY <3>1
    <3> QED
      BY <3>2 DEF StudentTold
  <2>2. CASE ~(req[r].pc = "tellStudent" /\ req[r].meeting = m)
    <3>1. Owing("tellStudent", m) => Owing("tellStudent", m)'
      BY <1>1, <1>3, <2>2, DebtsStay DEF CutOff
    <3> QED
      BY <1>6, <1>8, <3>1 DEF StudentTold
  <2> QED
    BY <2>1, <2>2
<1>9. \A m \in DOMAIN meeting' : StudentTold(m)' /\ Followed(m)'
  BY <1>6, <1>7, <1>8 DEF MeetingInv, Followed
<1> QED
  BY <1>3, <1>5, <1>6, <1>9, MeetingsStay DEF MeetingInv

\* The meeting shown, where one is, is one of the table.
LEMMA CurrentIsThere ==
  ASSUME MeetingInv, CurrentMeeting # Nothing
  PROVE  CurrentMeeting \in DOMAIN meeting
<1> DEFINE standing == {m \in DOMAIN meeting : meeting[m].status # "cancelled"}
<1>1. standing # {}
  BY DEF CurrentMeeting
<1>2. standing \subseteq 1..Len(meeting) /\ Len(meeting) \in Nat
  BY DEF MeetingInv
<1>3. IsFiniteSet(standing) /\ standing \subseteq Int
  <2>1. IsFiniteSet(1..Len(meeting)) /\ standing \in SUBSET (1..Len(meeting))
    BY <1>2, FS_Interval
  <2> HIDE DEF standing
  <2>2. IsFiniteSet(standing)
    BY ONLY <2>1, FS_Subset
  <2> QED
    BY <1>2, <2>2
<1>4. \E m \in standing : \A n \in standing : n <= m
  <2> HIDE DEF standing
  <2> QED
    BY ONLY <1>1, <1>3, Greatest
<1> QED
  BY <1>1, <1>4 DEF CurrentMeeting

LEMMA AlwaysMeetings == Spec => []MeetingInv
<1>1. Tabled /\ Tabled' /\ MeetingInv /\ [Next]_vars => MeetingInv'
  <2> SUFFICES ASSUME Tabled, Tabled', MeetingInv, [Next]_vars PROVE MeetingInv'
    OBVIOUS
  <2>1. CASE UNCHANGED vars
    BY <2>1 DEF vars, server, people, meetings, MeetingInv, MeetingsTypeOK, MeetingPlaced,
                StudentTold, Followed, Owing, CutOff
  <2>2. ASSUME NEW r \in Req, MeetingsStep(r), Handles(r, MeetingOps)
        PROVE  MeetingInv'
    BY <2>2, ScheduleKeeps, InsertMeetingKeeps, StatusKeeps, TellKeeps DEF MeetingsStep
  <2>3. ASSUME NEW r \in Req, UNCHANGED meetings, Away(r, MeetingOps)
        PROVE  MeetingInv'
    BY <2>3, QuietMeetings DEF Away, MeetingPlaced
  <2>4. ASSUME NEW r \in Req, Break(r)
        PROVE  MeetingInv'
    <3>1. /\ UNCHANGED meetings
          /\ \A q \in Req : q # r => req'[q] = req[q]
          /\ req'[r].op = req[r].op
          /\ \/ /\ req[r].op \in MayThrow
                /\ req'[r] = [req[r] EXCEPT !.pc = req[r].catch, !.catch = "failed"]
             \/ req'[r] = [req[r] EXCEPT !.pc = "died"]
      BY <2>4, BreakKeeps DEF Break, people, Keeps, Throw
    <3>2. CASE req[r].op \notin MeetingOps
      BY <3>1, <3>2, QuietMeetings DEF MeetingPlaced
    <3>3. CASE req[r].op \in MeetingOps
      <4>1. req[r] \in MeetingHandler
        BY <3>3 DEF MeetingInv, MeetingPlaced
      <4>2. /\ req'[r] \in MeetingHandler
            /\ req'[r].pc = "died" \/ (req'[r].pc = "failed" /\ req[r].op \in MayThrow)
        BY <3>1, <3>3, <4>1 DEF MeetingHandler
      <4>3. MeetingPlaced(r)' /\ CutOff(r)'
        BY <3>1, <3>3, <4>2 DEF MeetingPlaced, CutOff
      <4> QED
        BY <3>1, <3>3, <4>2, <4>3, QuietMeetings
    <3> QED
      BY <3>2, <3>3
  <2> QED
    BY <2>1, <2>2, <2>3, <2>4, AtMeetings DEF Next
<1> QED
  BY <1>1, MeetingBegins, AlwaysTabled, PTL DEF Spec

\* However staff schedule, move, cancel and reopen meetings at once: a student
\* who is asked to attend a meeting has been mailed that one, and a meeting
\* that was moved has the row it was moved to (scheduleMeeting and
\* updateMeetingStatus).  A statement that throws between the row and its mail
\* leaves a meeting nobody is told of: that none does is assumed.
THEOREM Attendance ==
  ASSUME MayThrow \cap MeetingOps = {}
  PROVE  Spec => []AttendanceIsAnnounced
<1>1. MeetingInv => AttendanceIsAnnounced
  <2> SUFFICES ASSUME MeetingInv, AllServed PROVE AttendanceIsAnnounced
    BY DEF AttendanceIsAnnounced
  <2>1. \A pc, m : pc \in {"rebook", "tellStudent"} => ~Owing(pc, m)
    BY DEF Owing, CutOff, AllServed
  <2>2. ASSUME NextAction("approved_level1", "active", Shown) = "attend_meeting"
        PROVE  \E mail \in mailed : mail.to = "student" /\ mail.about = CurrentMeeting
    <3>1. Shown \in {"scheduled", "confirmed"}
      BY <2>2 DEF NextAction, Milestone, IsActiveStudent, UniversityConfirmed, DecisionMade
    <3>2. CurrentMeeting # Nothing
      BY <3>1 DEF Shown
    <3>3. StudentTold(CurrentMeeting)
      BY <3>2, CurrentIsThere DEF MeetingInv
    <3> QED
      BY <2>1, <3>3 DEF StudentTold
  <2>3. \A m \in DOMAIN meeting : meeting[m].status = "rescheduled" =>
          \E n \in DOMAIN meeting : meeting[n].from = m
    BY <2>1 DEF MeetingInv, Followed
  <2> QED
    BY <2>2, <2>3 DEF AttendanceIsAnnounced
<1> QED
  BY <1>1, AlwaysMeetings, PTL

-------------------------------------------------------------------------------
(***************************************************************************)
(* Accounts.                                                                *)
(***************************************************************************)

LEMMA AtAccounts ==
  ASSUME Tabled, NEW r \in Req, Step(r)
  PROVE  \/ AccountsStep(r) /\ Handles(r, AccountOps)
         \/ UNCHANGED accounts /\ Away(r, AccountOps)
<1>1. AccountOps \in Endpoints
  BY DEF Endpoints
<1>2. CASE AccountsStep(r) /\ Handles(r, AccountOps)
  BY <1>2
<1>3. CASE ~(AccountsStep(r) /\ Handles(r, AccountOps))
  <2>1. UNCHANGED accounts
    BY <1>3 DEF Step, people, files
  <2>2. "login" \in AccountOps
        /\ "login" \notin CoreOps \cup GuarantorOps \cup MembershipOps \cup MeetingOps
                           \cup PolicyOps \cup DocumentOps \cup UniversityOps \cup AssessmentOps
    BY DEF CoreOps, GuarantorOps, AccountOps, MembershipOps, MeetingOps,
           PolicyOps, DocumentOps, UniversityOps, AssessmentOps
  <2>3. \E ops \in Endpoints \ {AccountOps} : Handles(r, ops) /\ Keeps(r, ops)
    BY <1>3, <2>2, CoreKeeps, GuarantorKeeps, MembershipKeeps, MeetingKeeps, PolicyKeeps,
       DocumentKeeps, UniversityKeeps, AssessmentKeeps DEF Step, Endpoints
  <2> QED
    BY <2>1, <2>3, <1>1, ElsewhereIsAway
<1> QED
  BY <1>2, <1>3

UserRow == [status : UserStatus, failed : Nat, locked : BOOLEAN, mfa : BOOLEAN, role : BOOLEAN]

AccountPc == {"count", "reset", "challenge", "permissions", "secret", "use", "session", "token",
              "greet", "expire", "change", "close", "password", "insert", "role", "save", "mfa",
              "done", "failed", "died"}

AccountRow ==
  [op : AccountOps,
   pc : AccountPc,
   catch : {"failed"}, back : {"done", "challenge", "permissions"}, user : User,
   attempts : Nat, on : Req \cup {None}, granted : BOOLEAN, becomes : UserStatus \cup {None}]

Failures(u) == {r \in Req : req[r].op = "login" /\ req[r].pc = "failed" /\ req[r].user = u}

AccountTyped(r) ==
  req[r].op \in AccountOps =>
    /\ req[r] \in AccountRow
    /\ req[r].pc = "save" => req[r].becomes \in UserStatus
    /\ req[r].pc = "count" => req[r].op = "login"

\* No attempt is counted that was not made.
Counting(r) == req[r].op \in AccountOps /\ req[r].pc = "count" =>
                 req[r].attempts <= Cardinality(Failures(req[r].user))
Counted(u) == /\ user[u].failed <= Cardinality(Failures(u))
              /\ user[u].locked => MaxAttempts <= Cardinality(Failures(u))

LockInv == /\ AccountsTypeOK
           /\ \A s \in Req : session[s].open => session[s].user \in User
           /\ \A r \in Req : AccountTyped(r) /\ Counting(r)
           /\ \A u \in User : Counted(u)

LEMMA NewUserIsOpen ==
  ASSUME NEW s \in UserStatus, NEW mfa \in BOOLEAN
  PROVE  NewUser(s, mfa) \in UserRow /\ NewUser(s, mfa).failed = 0 /\ ~NewUser(s, mfa).locked
<1>1. (s = "active") \in BOOLEAN
  OBVIOUS
<1> QED
  BY <1>1 DEF NewUser, UserRow

LEMMA LocksBegin == Init => LockInv
<1> SUFFICES ASSUME Init PROVE LockInv
  OBVIOUS
<1>1. \A r \in Req : req[r].op \notin AccountOps
  BY DEF Init, ServerInit, AccountOps
<1> DEFINE rows == [User -> {NewUser("absent", FALSE), NewUser("pending_verification", FALSE),
                             NewUser("active", FALSE), NewUser("active", TRUE)}]
<1>2. user \in Varying(AccountOps, rows)
  BY DEF Init, AccountsInit
<1>3. user \in rows
  <2>1. [u \in User |-> NewUser("absent", FALSE)] \in rows
    OBVIOUS
  <2> HIDE DEF rows
  <2> QED
    BY <1>2, <2>1, VaryingIn
<1>4. \A u \in User : user[u] \in UserRow /\ user[u].failed = 0 /\ ~user[u].locked
  BY <1>3, NewUserIsOpen DEF UserStatus
<1>5. AccountsTypeOK
  BY <1>3, <1>4 DEF AccountsTypeOK, UserRow, Init, AccountsInit
<1>6. \A s \in Req : ~session[s].open
  BY DEF Init, AccountsInit
<1>7. \A u \in User : Cardinality(Failures(u)) \in Nat
  BY ReqIsFinite, FS_Subset, FS_CardinalityType DEF Failures
<1>8. \A u \in User : Counted(u)
  BY <1>4, <1>7 DEF Counted
<1> QED
  BY <1>1, <1>5, <1>6, <1>8 DEF LockInv, AccountTyped, Counting

\* A login that has failed stays among the failures.
LEMMA FailuresGrow ==
  ASSUME NEW r \in Req, req[r].op # "login" \/ req[r].pc # "failed",
         \A q \in Req : q # r => req'[q] = req[q], NEW u
  PROVE  /\ Failures(u) \subseteq Failures(u)'
         /\ Cardinality(Failures(u)) \in Nat /\ Cardinality(Failures(u)') \in Nat
         /\ Cardinality(Failures(u)) <= Cardinality(Failures(u)')
<1>1. Failures(u) \subseteq Failures(u)'
  BY DEF Failures
<1>2. IsFiniteSet(Failures(u)) /\ IsFiniteSet(Failures(u)')
  BY ReqIsFinite, FS_Subset DEF Failures
<1> QED
  BY <1>1, <1>2, FS_Subset, FS_CardinalityType

\* Who counts nothing locks nobody.
LEMMA LocksStay ==
  ASSUME LockInv, NEW r \in Req, req[r].op # "login" \/ req[r].pc # "failed",
         \A q \in Req : q # r => req'[q] = req[q],
         AccountsTypeOK', \A s \in Req : session'[s].open => session'[s].user \in User,
         AccountTyped(r)',
         req'[r].op \in AccountOps /\ req'[r].pc = "count" =>
           req'[r].attempts <= user[req'[r].user].failed,
         \A u \in User : /\ user'[u].failed \in {0, user[u].failed}
                         /\ user'[u].locked => user[u].locked
  PROVE  LockInv'
<1>1. \A u \in User : Counted(u)'
  <2> TAKE u \in User
  <2>1. /\ Cardinality(Failures(u)) \in Nat /\ Cardinality(Failures(u)') \in Nat
        /\ Cardinality(Failures(u)) <= Cardinality(Failures(u)')
    BY FailuresGrow
  <2>2. Counted(u) /\ user[u].failed \in Nat /\ MaxAttempts \in Nat
    BY AccountsAssumption DEF LockInv, AccountsTypeOK
  <2>3. /\ user[u].failed <= Cardinality(Failures(u))
        /\ user[u].locked => MaxAttempts <= Cardinality(Failures(u))
    BY <2>2 DEF Counted
  <2>4. user'[u].failed <= Cardinality(Failures(u)')
    BY <2>1, <2>2, <2>3
  <2>5. user'[u].locked => MaxAttempts <= Cardinality(Failures(u)')
    BY <2>1, <2>2, <2>3
  <2> QED
    BY <2>4, <2>5 DEF Counted
<1>2. Counting(r)'
  <2> SUFFICES ASSUME req'[r].op \in AccountOps, req'[r].pc = "count"
               PROVE  req'[r].attempts <= Cardinality(Failures(req[r].user))'
    BY DEF Counting
  <2>1. PICK u \in User : u = req'[r].user
    BY DEF AccountTyped, AccountRow
  <2>2. /\ Cardinality(Failures(u)) \in Nat /\ Cardinality(Failures(u)') \in Nat
        /\ Cardinality(Failures(u)) <= Cardinality(Failures(u)')
    BY FailuresGrow
  <2>3. /\ req'[r].attempts \in Nat /\ user[u].failed \in Nat
        /\ req'[r].attempts <= user[u].failed
        /\ user[u].failed <= Cardinality(Failures(u))
    BY <2>1 DEF AccountTyped, AccountRow, LockInv, AccountsTypeOK, Counted
  <2>4. req'[r].attempts <= Cardinality(Failures(u)')
    BY <2>2, <2>3
  <2>5. Failures(req[r].user)' = Failures(u)'
    BY <2>1 DEF Failures
  <2> QED
    BY <2>4, <2>5
<1>3. ASSUME NEW q \in Req, q # r PROVE AccountTyped(q)' /\ Counting(q)'
  <2>1. AccountTyped(q) /\ Counting(q) /\ req'[q] = req[q]
    BY <1>3 DEF LockInv
  <2>2. AccountTyped(q)'
    BY <2>1 DEF AccountTyped
  <2>3. Counting(q)'
    <3> SUFFICES ASSUME req[q].op \in AccountOps, req[q].pc = "count"
                 PROVE  req[q].attempts <= Cardinality(Failures(req[q].user))'
      BY <2>1 DEF Counting
    <3>1. PICK u : u = req[q].user
      OBVIOUS
    <3>2. req[q].attempts \in Nat /\ req[q].attempts <= Cardinality(Failures(u))
      BY <2>1, <3>1 DEF AccountTyped, AccountRow, Counting
    <3>3. /\ Cardinality(Failures(u)) \in Nat /\ Cardinality(Failures(u)') \in Nat
          /\ Cardinality(Failures(u)) <= Cardinality(Failures(u)')
      BY FailuresGrow
    <3>4. req[q].attempts <= Cardinality(Failures(u)')
      BY <3>2, <3>3
    <3>5. Failures(req[q].user)' = Failures(u)'
      BY <2>1, <3>1 DEF Failures
    <3> QED
      BY <3>4, <3>5
  <2> QED
    BY <2>2, <2>3
<1> QED
  BY <1>1, <1>2, <1>3 DEF LockInv

LEMMA AccountAtWork ==
  ASSUME Tabled, LockInv, NEW r \in Req, Handles(r, AccountOps), req[r].pc # "idle"
  PROVE  /\ req[r].op \in AccountOps /\ req[r] \in AccountRow /\ AccountTyped(r)
         /\ req[r].user \in User /\ user[req[r].user] \in UserRow
<1>1. req[r].op \in AccountOps /\ req[r] \in AccountRow /\ AccountTyped(r)
  BY DEF Tabled, LockInv, AccountTyped, Handles
<1>2. req[r].user \in User
  BY <1>1 DEF AccountRow
<1> QED
  BY <1>1, <1>2 DEF LockInv, AccountsTypeOK, UserRow

LEMMA AccountGoes ==
  ASSUME Tabled, LockInv, NEW r \in Req, Handles(r, AccountOps), req[r].pc # "idle",
         NEW pc \in {"challenge", "permissions", "use", "session", "token", "greet", "close",
                     "role", "done", "failed"},
         Goto(r, pc)
  PROVE  /\ AccountTyped(r)' /\ req'[r].pc = pc /\ req'[r].op = req[r].op
         /\ req'[r].user = req[r].user
         /\ \A q \in Req : q # r => req'[q] = req[q]
<1>1. req[r] \in AccountRow
  BY AccountAtWork
<1>2. req'[r] = [req[r] EXCEPT !.pc = pc] /\ \A q \in Req : q # r => req'[q] = req[q]
  BY <1>1, GotoKeeps DEF AccountRow, AccountOps, Keeps
<1>3. req'[r] \in AccountRow /\ req'[r].pc = pc /\ req'[r].op = req[r].op
      /\ req'[r].user = req[r].user
  BY <1>1, <1>2 DEF AccountRow, AccountPc
<1> QED
  BY <1>2, <1>3 DEF AccountTyped

LEMMA AccountFails ==
  ASSUME Tabled, LockInv, NEW r \in Req, Handles(r, AccountOps), req[r].pc # "idle", Raise(r)
  PROVE  /\ AccountTyped(r)' /\ req'[r].pc = "failed"
         /\ \A q \in Req : q # r => req'[q] = req[q]
<1>1. req[r] \in AccountRow
  BY AccountAtWork
<1>2. /\ req'[r] = [req[r] EXCEPT !.pc = req[r].catch, !.catch = "failed"]
      /\ \A q \in Req : q # r => req'[q] = req[q]
  BY <1>1, RaiseKeeps DEF AccountRow, AccountOps, Keeps
<1>3. req'[r] \in AccountRow /\ req'[r].pc = "failed"
  BY <1>1, <1>2 DEF AccountRow, AccountPc
<1> QED
  BY <1>2, <1>3 DEF AccountTyped

\* A request that begins, counting what it has read at most.
LEMMA AccountStarts ==
  ASSUME Tabled, LockInv, NEW r \in Req, req[r].pc = "idle",
         NEW h, h \in AccountRow, Begin(r, h),
         h.pc = "save" => h.becomes \in UserStatus,
         h.pc = "count" => h.op = "login" /\ h.attempts = user[h.user].failed,
         AccountsTypeOK', \A s \in Req : session'[s].open => session'[s].user \in User,
         \A u \in User : /\ user'[u].failed = user[u].failed
                         /\ user'[u].locked = user[u].locked
  PROVE  LockInv'
<1>1. req'[r] = h /\ \A q \in Req : q # r => req'[q] = req[q]
  BY DEF Begin, Tabled
<1>2. AccountTyped(r)'
  BY <1>1 DEF AccountTyped
<1>3. h.pc = "count" => h.attempts <= user[h.user].failed
  <2>1. h.user \in User
    BY DEF AccountRow
  <2>2. user[h.user].failed \in Nat
    BY <2>1 DEF LockInv, AccountsTypeOK
  <2> QED
    BY <2>2
<1> QED
  BY <1>1, <1>2, <1>3, LocksStay

\* One row of the users changes, but for its lock.
LEMMA UserChanges ==
  ASSUME LockInv, NEW u \in User, NEW x \in UserRow, user' = [user EXCEPT ![u] = x],
         x.failed \in {0, user[u].failed}, x.locked => user[u].locked,
         mfaConfig' = mfaConfig, session' = session, challenge' = challenge,
         setup' \in [User -> {"absent", "live", "used"}]
  PROVE  /\ AccountsTypeOK' /\ \A s \in Req : session'[s].open => session'[s].user \in User
         /\ \A w \in User : /\ user'[w].failed \in {0, user[w].failed}
                            /\ user'[w].locked => user[w].locked
<1>1. user' \in [User -> UserRow]
  BY DEF LockInv, AccountsTypeOK, UserRow
<1>2. AccountsTypeOK'
  BY <1>1 DEF LockInv, AccountsTypeOK, UserRow
<1>3. \A w \in User : user'[w] = IF w = u THEN x ELSE user[w]
  BY DEF LockInv, AccountsTypeOK
<1> QED
  BY <1>2, <1>3 DEF LockInv

LEMMA CallIsRow ==
  ASSUME NEW op \in AccountOps, NEW pc \in AccountPc, NEW u \in User
  PROVE  /\ AccountCall(op, pc, u) \in AccountRow
         /\ AccountCall(op, pc, u).pc = pc /\ AccountCall(op, pc, u).op = op
         /\ AccountCall(op, pc, u).user = u
BY DEF AccountCall, AccountRow

LEMMA OnlyReads ==
  ASSUME Tabled, LockInv, NEW r \in Req,
         \/ WrongPassword(r) \/ RightPassword(r) \/ VerifyMfa(r) \/ UseSession(r) \/ ReadAccount(r)
         \/ FindSetupToken(r) \/ CreateUser(r) \/ UpdateUser(r) \/ AssignRole(r)
  PROVE  LockInv'
<1>1. req[r].pc = "idle" /\ UNCHANGED accounts
  BY DEF WrongPassword, RightPassword, VerifyMfa, UseSession, ReadAccount, FindSetupToken, CreateUser,
         UpdateUser, AssignRole, CanStart
<1>2. /\ AccountsTypeOK' /\ \A s \in Req : session'[s].open => session'[s].user \in User
      /\ \A u \in User : /\ user'[u].failed = user[u].failed
                         /\ user'[u].locked = user[u].locked
  BY <1>1 DEF accounts, LockInv, AccountsTypeOK
<1>3. ASSUME NEW h, Begin(r, h), h \in AccountRow, h.pc = "save" => h.becomes \in UserStatus,
             h.pc = "count" => h.op = "login" /\ h.attempts = user[h.user].failed
      PROVE  LockInv'
  BY <1>1, <1>2, <1>3, AccountStarts
<1>4. \A c \in Req : Usable(c) => challenge[c].user \in User
  BY DEF Usable, LockInv, AccountsTypeOK
<1>5. CASE WrongPassword(r)
  <2>1. PICK u \in User :
          Begin(r, [AccountCall("login", "count", u) EXCEPT !.attempts = user[u].failed])
    BY <1>5 DEF WrongPassword
  <2> DEFINE h == [AccountCall("login", "count", u) EXCEPT !.attempts = user[u].failed]
  <2>2. user[u].failed \in Nat
    BY DEF LockInv, AccountsTypeOK
  <2>3. h \in AccountRow /\ h.pc = "count" /\ h.op = "login" /\ h.attempts = user[h.user].failed
    BY <2>2 DEF AccountCall, AccountRow, AccountOps, AccountPc
  <2>4. Begin(r, h)
    BY <2>1
  <2> HIDE DEF h
  <2> QED
    BY <1>3, <2>3, <2>4
<1>6. CASE RightPassword(r)
  <2>1. PICK u \in User, pc \in {"reset", "challenge", "permissions"},
             back \in {"challenge", "permissions"} :
          Begin(r, [AccountCall("login", pc, u) EXCEPT !.back = back])
    BY <1>6 DEF RightPassword
  <2> DEFINE h == [AccountCall("login", pc, u) EXCEPT !.back = back]
  <2>2. h \in AccountRow /\ h.pc = pc
    BY DEF AccountCall, AccountRow, AccountOps, AccountPc
  <2>3. Begin(r, h)
    BY <2>1
  <2> HIDE DEF h
  <2> QED
    BY <1>3, <2>2, <2>3
<1>7. CASE VerifyMfa(r)
  <2>1. PICK c \in Req : /\ challenge[c].user \in User
                         /\ Begin(r, [AccountCall("verify", "secret", challenge[c].user)
                                        EXCEPT !.on = c])
    BY <1>4, <1>7 DEF VerifyMfa
  <2>2. PICK u \in User : u = challenge[c].user
    BY <2>1
  <2> DEFINE h == [AccountCall("verify", "secret", u) EXCEPT !.on = c]
  <2>3. h \in AccountRow /\ h.pc = "secret"
    BY DEF AccountCall, AccountRow, AccountOps, AccountPc
  <2>4. Begin(r, h)
    BY <2>1, <2>2
  <2> HIDE DEF h
  <2> QED
    BY <1>3, <2>3, <2>4
<1>8. CASE UseSession(r)
  <2>1. PICK op \in {"refresh", "idle"}, s \in Req :
          /\ session[s].open
          /\ Begin(r, [AccountCall(op, IF op = "idle" THEN "expire" ELSE "permissions",
                                   session[s].user) EXCEPT !.on = s])
    BY <1>8 DEF UseSession
  <2>2. PICK u \in User, pc \in {"expire", "permissions"} :
          u = session[s].user /\ pc = IF op = "idle" THEN "expire" ELSE "permissions"
    BY <2>1 DEF LockInv
  <2> DEFINE h == [AccountCall(op, pc, u) EXCEPT !.on = s]
  <2>3. h \in AccountRow /\ h.pc \in {"expire", "permissions"}
    BY DEF AccountCall, AccountRow, AccountOps, AccountPc
  <2>4. Begin(r, h)
    BY <2>1, <2>2
  <2> HIDE DEF h
  <2> QED
    BY <1>3, <2>3, <2>4
<1>9. CASE UpdateUser(r)
  <2>1. PICK u \in Existing, s \in UserStatus :
          Begin(r, [AccountCall("updateUser", "save", u) EXCEPT !.becomes = s])
    BY <1>9 DEF UpdateUser
  <2> DEFINE h == [AccountCall("updateUser", "save", u) EXCEPT !.becomes = s]
  <2>2. h \in AccountRow /\ h.pc = "save" /\ h.becomes = s
    BY DEF AccountCall, AccountRow, AccountOps, AccountPc, Existing
  <2>3. Begin(r, h)
    BY <2>1
  <2> HIDE DEF h
  <2> QED
    BY <1>3, <2>2, <2>3
<1>10. CASE ReadAccount(r) \/ FindSetupToken(r) \/ CreateUser(r) \/ AssignRole(r)
  <2>1. PICK op \in AccountOps, pc \in {"change", "password", "insert", "failed"}, u \in User :
          Begin(r, AccountCall(op, pc, u))
    BY <1>10 DEF ReadAccount, FindSetupToken, CreateUser, AssignRole, Existing, AccountOps
  <2> DEFINE h == AccountCall(op, pc, u)
  <2>2. pc \in AccountPc
    BY DEF AccountPc
  <2>3. h \in AccountRow /\ h.pc = pc
    BY <2>2, CallIsRow
  <2>4. Begin(r, h)
    BY <2>1
  <2> HIDE DEF h
  <2> QED
    BY <1>3, <2>3, <2>4
<1> QED
  BY <1>5, <1>6, <1>7, <1>8, <1>9, <1>10

SessionRow == [user : User \cup {None}, open : BOOLEAN, granted : BOOLEAN]

\* Sessions that change in every way but in whose they are.
LEMMA SessionsAreTyped ==
  ASSUME LockInv, session' = [s \in Req |-> session'[s]],
         UNCHANGED <<user, mfaConfig, setup, challenge>>,
         \A s \in Req : /\ session'[s] \in SessionRow
                        /\ session'[s].user = session[s].user
                        /\ session'[s].open => session[s].open
  PROVE  AccountsTypeOK' /\ \A s \in Req : session'[s].open => session'[s].user \in User
<1>1. session' \in [Req -> SessionRow]
  OBVIOUS
<1>2. AccountsTypeOK'
  BY <1>1 DEF LockInv, AccountsTypeOK, SessionRow
<1>3. \A s \in Req : session[s].open => session[s].user \in User
  BY DEF LockInv
<1> QED
  BY <1>2, <1>3

LEMMA ClosedIsTyped ==
  ASSUME LockInv, NEW closed, CloseSessions(closed), UNCHANGED <<user, mfaConfig, setup, challenge>>
  PROVE  AccountsTypeOK' /\ \A s \in Req : session'[s].open => session'[s].user \in User
<1>1. \A s \in Req : /\ session'[s] \in SessionRow
                     /\ session'[s].user = session[s].user
                     /\ session'[s].open => session[s].open
  <2> TAKE s \in Req
  <2>1. session[s] \in SessionRow
    BY DEF LockInv, AccountsTypeOK, SessionRow
  <2>2. session'[s] = IF s \in closed THEN [session[s] EXCEPT !.open = FALSE] ELSE session[s]
    BY DEF CloseSessions
  <2> QED
    BY <2>1, <2>2 DEF SessionRow
<1>2. session' = [s \in Req |-> session'[s]]
  BY DEF CloseSessions
<1> QED
  BY <1>1, <1>2, SessionsAreTyped

\* A request that changes something at once.
LEMMA ChangesOnStart ==
  ASSUME Tabled, LockInv, NEW r \in Req, Logout(r) \/ RevokeRole(r) \/ EnableMfa(r)
  PROVE  LockInv'
<1>1. req[r].pc = "idle"
  BY DEF Logout, RevokeRole, EnableMfa, CanStart
<1>2. ASSUME NEW op \in AccountOps, NEW pc \in {"done", "mfa"}, NEW u \in User,
             Begin(r, AccountCall(op, pc, u)),
             AccountsTypeOK', \A s \in Req : session'[s].open => session'[s].user \in User,
             \A w \in User : /\ user'[w].failed = user[w].failed
                             /\ user'[w].locked = user[w].locked
      PROVE  LockInv'
  <2> DEFINE h == AccountCall(op, pc, u)
  <2>1. pc \in AccountPc
    BY DEF AccountPc
  <2>2. h \in AccountRow /\ h.pc = pc
    BY <2>1, CallIsRow
  <2>3. Begin(r, h)
    BY <1>2
  <2> HIDE DEF h
  <2> QED
    BY <1>1, <1>2, <2>2, <2>3, AccountStarts
<1>3. CASE Logout(r)
  <2>1. PICK s \in Req, closed \in SUBSET Req :
          /\ session[s].open /\ CloseSessions(closed)
          /\ Begin(r, AccountCall("logout", "done", session[s].user))
    <3>1. PICK s \in Req, all \in BOOLEAN :
            /\ session[s].open
            /\ CloseSessions(IF all THEN OpenOf(session[s].user) ELSE {s})
            /\ Begin(r, AccountCall("logout", "done", session[s].user))
      BY <1>3 DEF Logout
    <3>2. (IF all THEN OpenOf(session[s].user) ELSE {s}) \in SUBSET Req
      BY DEF OpenOf
    <3> QED
      BY <3>1, <3>2
  <2>2. UNCHANGED <<user, mfaConfig, setup, challenge>>
    BY <1>3 DEF Logout
  <2>3. AccountsTypeOK' /\ \A x \in Req : session'[x].open => session'[x].user \in User
    BY <2>1, <2>2, ClosedIsTyped
  <2>4. session[s].user \in User /\ "logout" \in AccountOps
    BY <2>1 DEF LockInv, AccountOps
  <2> QED
    BY <1>2, <2>1, <2>2, <2>3, <2>4
<1>4. CASE RevokeRole(r)
  <2>1. PICK u \in Existing : /\ user' = [user EXCEPT ![u].role = FALSE]
                              /\ Begin(r, AccountCall("revokeRole", "done", u))
    BY <1>4 DEF RevokeRole
  <2>2. UNCHANGED <<mfaConfig, setup, challenge, session>> /\ u \in User
    BY <1>4 DEF RevokeRole, Existing
  <2>3. /\ user[u] \in UserRow /\ user' = [user EXCEPT ![u] = [user[u] EXCEPT !.role = FALSE]]
        /\ setup \in [User -> {"absent", "live", "used"}]
    BY <2>1, <2>2 DEF LockInv, AccountsTypeOK, UserRow
  <2>4. /\ [user[u] EXCEPT !.role = FALSE] \in UserRow
        /\ [user[u] EXCEPT !.role = FALSE].failed = user[u].failed
        /\ [user[u] EXCEPT !.role = FALSE].locked = user[u].locked
    BY <2>3 DEF UserRow
  <2>5. AccountsTypeOK' /\ \A s \in Req : session'[s].open => session'[s].user \in User
    BY <2>2, <2>3, <2>4, UserChanges
  <2>6. \A w \in User : user'[w].failed = user[w].failed /\ user'[w].locked = user[w].locked
    <3>1. \A w \in User : user'[w] = IF w = u THEN [user[u] EXCEPT !.role = FALSE] ELSE user[w]
      BY <2>2, <2>3 DEF LockInv, AccountsTypeOK
    <3> QED
      BY <2>4, <3>1
  <2>7. "revokeRole" \in AccountOps
    BY DEF AccountOps
  <2> QED
    BY <1>2, <2>1, <2>2, <2>5, <2>6, <2>7
<1>5. CASE EnableMfa(r)
  <2>1. PICK s \in Req : /\ session[s].open
                         /\ mfaConfig' = [mfaConfig EXCEPT ![session[s].user] = "active"]
                         /\ Begin(r, AccountCall("enableMfa", "mfa", session[s].user))
    BY <1>5 DEF EnableMfa
  <2>2. UNCHANGED <<user, setup, challenge, session>>
    BY <1>5 DEF EnableMfa
  <2>3. session[s].user \in User /\ "enableMfa" \in AccountOps
    BY <2>1 DEF LockInv, AccountOps
  <2>4. AccountsTypeOK'
    BY <2>1, <2>2 DEF LockInv, AccountsTypeOK
  <2>5. \A x \in Req : session'[x].open => session'[x].user \in User
    BY <2>2 DEF LockInv
  <2> QED
    BY <1>2, <2>1, <2>2, <2>3, <2>4, <2>5
<1> QED
  BY <1>3, <1>4, <1>5

\* A step that changes no user.
LEMMA LocksUntouched ==
  ASSUME Tabled, LockInv, NEW r \in Req, Handles(r, AccountOps),
         \/ CreateChallenge(r) \/ GetSecret(r) \/ CodeRefused(r) \/ UseChallenge(r)
         \/ ReadPermissions(r) \/ InsertSession(r) \/ RefreshToken(r) \/ ExpireSession(r)
         \/ CloseAll(r) \/ UserExists(r)
  PROVE  LockInv'
<1>1. req[r].pc \notin {"idle", "failed"} /\ UNCHANGED user
  BY DEF CreateChallenge, GetSecret, CodeRefused, UseChallenge, ReadPermissions, InsertSession,
         RefreshToken, ExpireSession, CloseAll, UserExists, At, accounts
<1>2. /\ req[r].op \in AccountOps /\ req[r] \in AccountRow /\ req[r].user \in User
      /\ user[req[r].user] \in UserRow
  BY <1>1, AccountAtWork
<1>3. /\ AccountTyped(r)' /\ \A q \in Req : q # r => req'[q] = req[q]
      /\ ~(req'[r].op \in AccountOps /\ req'[r].pc = "count")
  <2>1. CASE ReadPermissions(r)
    <3>1. PICK pc \in {"token", "session"} :
            req' = [req EXCEPT ![r].granted = user[req[r].user].role, ![r].pc = pc]
      BY <2>1 DEF ReadPermissions
    <3>2. /\ req'[r] = [req[r] EXCEPT !.granted = user[req[r].user].role, !.pc = pc]
          /\ \A q \in Req : q # r => req'[q] = req[q]
      BY <3>1 DEF Tabled
    <3>3. user[req[r].user].role \in BOOLEAN
      BY <1>2 DEF UserRow
    <3>4. req'[r] \in AccountRow /\ req'[r].pc = pc
      BY <1>2, <3>2, <3>3 DEF AccountRow, AccountPc
    <3> QED
      BY <3>2, <3>4 DEF AccountTyped
  <2>2. CASE CodeRefused(r) \/ UserExists(r)
    BY <1>1, <2>2, AccountFails DEF CodeRefused, UserExists
  <2>3. CASE \/ CreateChallenge(r) \/ GetSecret(r) \/ UseChallenge(r) \/ InsertSession(r)
             \/ RefreshToken(r) \/ ExpireSession(r) \/ CloseAll(r)
    <3>1. PICK pc \in {"done", "use", "permissions", "greet", "failed"} : Goto(r, pc)
      BY <2>3 DEF CreateChallenge, GetSecret, UseChallenge, InsertSession, RefreshToken,
                  ExpireSession, CloseAll
    <3> QED
      BY <1>1, <3>1, AccountGoes
  <2> QED
    BY <2>1, <2>2, <2>3
<1>4. AccountsTypeOK' /\ \A s \in Req : session'[s].open => session'[s].user \in User
  <2>1. CASE ReadPermissions(r) \/ CodeRefused(r) \/ UserExists(r) \/ GetSecret(r)
    <3>1. UNCHANGED accounts
      BY <2>1 DEF ReadPermissions, CodeRefused, UserExists, GetSecret, accounts
    <3> QED
      BY <3>1 DEF accounts, LockInv, AccountsTypeOK
  <2>2. CASE CreateChallenge(r) \/ UseChallenge(r)
    <3>1. /\ UNCHANGED <<user, mfaConfig, setup, session>>
          /\ \/ challenge' = [challenge EXCEPT ![r].user = req[r].user]
             \/ challenge' = [challenge EXCEPT ![req[r].on].used = TRUE]
      BY <2>2 DEF CreateChallenge, UseChallenge
    <3>2. challenge' \in [Req -> [user : User \cup {None}, used : BOOLEAN]]
      <4>1. CASE challenge' = [challenge EXCEPT ![r].user = req[r].user]
        BY <1>2, <4>1 DEF LockInv, AccountsTypeOK
      <4>2. CASE challenge' = [challenge EXCEPT ![req[r].on].used = TRUE]
        BY <4>2 DEF LockInv, AccountsTypeOK
      <4> QED
        BY <3>1, <4>1, <4>2
    <3> QED
      BY <3>1, <3>2 DEF LockInv, AccountsTypeOK
  <2>3. CASE InsertSession(r)
    <3>1. /\ UNCHANGED <<user, mfaConfig, setup, challenge>>
          /\ session' = [session EXCEPT ![r] =
               [user |-> req[r].user, open |-> TRUE, granted |-> req[r].granted]]
      BY <2>3 DEF InsertSession
    <3>2. [user |-> req[r].user, open |-> TRUE, granted |-> req[r].granted]
            \in [user : User, open : BOOLEAN, granted : BOOLEAN]
      BY <1>2 DEF AccountRow
    <3> QED
      BY <1>2, <3>1, <3>2 DEF LockInv, AccountsTypeOK
  <2>4. CASE RefreshToken(r)
    <3>1. /\ UNCHANGED <<user, mfaConfig, setup, challenge>>
          /\ session' = [session EXCEPT ![req[r].on].granted = req[r].granted]
      BY <2>4 DEF RefreshToken
    <3>2. req[r].granted \in BOOLEAN
      BY <1>2 DEF AccountRow
    <3>3. session \in [Req -> SessionRow]
      BY DEF LockInv, AccountsTypeOK, SessionRow
    <3>4. \A s \in Req : /\ session'[s] \in SessionRow
                         /\ session'[s].user = session[s].user
                         /\ session'[s].open => session[s].open
      BY <3>1, <3>2, <3>3 DEF SessionRow
    <3>5. session' = [s \in Req |-> session'[s]]
      BY <3>1, <3>3
    <3> QED
      BY <3>1, <3>4, <3>5, SessionsAreTyped
  <2>5. CASE ExpireSession(r) \/ CloseAll(r)
    <3>1. /\ UNCHANGED <<user, mfaConfig, setup, challenge>>
          /\ \E closed : CloseSessions(closed)
      BY <2>5 DEF ExpireSession, CloseAll
    <3> QED
      BY <3>1, ClosedIsTyped
  <2> QED
    BY <2>1, <2>2, <2>3, <2>4, <2>5
<1>5. \A u \in User : /\ user'[u].failed \in {0, user[u].failed}
                      /\ user'[u].locked => user[u].locked
  BY <1>1
<1> QED
  BY <1>1, <1>3, <1>4, <1>5, LocksStay

\* A step that changes a user, but counts nothing.
LEMMA UserSteps ==
  ASSUME Tabled, LockInv, NEW r \in Req, Handles(r, AccountOps),
         \/ ResetFailures(r) \/ MarkActive(r) \/ ChangeAccount(r) \/ SetPassword(r)
         \/ InsertUser(r) \/ InsertRole(r) \/ SaveUser(r) \/ SetMfaFlag(r)
  PROVE  LockInv'
<1>0. PICK u : u = req[r].user
  OBVIOUS
<1>1. /\ req[r].pc \notin {"idle", "failed"}
      /\ UNCHANGED <<mfaConfig, challenge, session>>
  BY DEF ResetFailures, MarkActive, ChangeAccount, SetPassword, InsertUser, InsertRole, SaveUser,
         SetMfaFlag, At
<1>2. /\ req[r] \in AccountRow /\ AccountTyped(r) /\ req[r].op \in AccountOps
      /\ u \in User /\ user[u] \in UserRow
  BY <1>0, <1>1, AccountAtWork
<1>3. PICK pc \in {"challenge", "permissions", "close", "role", "done"} : Goto(r, pc)
  BY <1>2 DEF ResetFailures, MarkActive, ChangeAccount, SetPassword, InsertUser, InsertRole,
              SaveUser, SetMfaFlag, Return, AccountRow
<1>4. /\ AccountTyped(r)' /\ req'[r].pc = pc
      /\ \A q \in Req : q # r => req'[q] = req[q]
  BY <1>1, <1>3, AccountGoes
<1>5. setup' \in [User -> {"absent", "live", "used"}]
  <2>1. setup' = setup \/ setup' = [setup EXCEPT ![u] = "used"]
    BY <1>0 DEF ResetFailures, MarkActive, ChangeAccount, SetPassword, InsertUser, InsertRole,
           SaveUser, SetMfaFlag
  <2> QED
    BY <2>1 DEF LockInv, AccountsTypeOK
<1>6. PICK x \in UserRow : /\ user' = [user EXCEPT ![u] = x]
                           /\ x.failed \in {0, user[u].failed}
                           /\ x.locked => user[u].locked
  <2>1. CASE ResetFailures(r)
    <3> DEFINE x == [user[u] EXCEPT !.failed = 0, !.locked = FALSE]
    <3>1. x \in UserRow /\ x.failed = 0 /\ ~x.locked
      BY <1>2 DEF UserRow
    <3>2. user' = [user EXCEPT ![u].failed = 0, ![u].locked = FALSE]
      BY <1>0, <2>1 DEF ResetFailures
    <3>3. user' = [user EXCEPT ![u] = x]
      BY <1>2, <3>2 DEF LockInv, AccountsTypeOK
    <3> QED
      BY <3>1, <3>3
  <2>2. CASE MarkActive(r) \/ SetPassword(r) \/ ChangeAccount(r) \/ SaveUser(r)
    <3>1. PICK s \in UserStatus : user' = [user EXCEPT ![u] = [user[u] EXCEPT !.status = s]]
      <4>1. CASE MarkActive(r) \/ SetPassword(r)
        <5>1. user' = [user EXCEPT ![u] = [user[u] EXCEPT !.status = "active"]]
          BY <1>0, <4>1 DEF MarkActive, SetPassword
        <5>2. "active" \in UserStatus
          BY DEF UserStatus
        <5> QED
          BY <5>1, <5>2
      <4>2. CASE SaveUser(r)
        <5>1. user' = [user EXCEPT ![u] = [user[u] EXCEPT !.status = req[r].becomes]]
          BY <1>0, <4>2 DEF SaveUser
        <5>2. req[r].becomes \in UserStatus
          BY <1>2, <4>2 DEF SaveUser, At, AccountTyped
        <5> QED
          BY <5>1, <5>2
      <4>3. CASE ChangeAccount(r)
        <5>1. user' = [user EXCEPT ![u] = [user[u] EXCEPT !.status = "deactivated"]]
          BY <1>0, <4>3 DEF ChangeAccount
        <5>2. "deactivated" \in UserStatus
          BY DEF UserStatus
        <5> QED
          BY <5>1, <5>2
      <4> QED
        BY <2>2, <4>1, <4>2, <4>3
    <3>2. /\ [user[u] EXCEPT !.status = s] \in UserRow
          /\ [user[u] EXCEPT !.status = s].failed = user[u].failed
          /\ [user[u] EXCEPT !.status = s].locked = user[u].locked
      BY <1>2 DEF UserRow
    <3> QED
      BY <3>1, <3>2
  <2>3. CASE InsertUser(r)
    <3>1. user' = [user EXCEPT ![u] = NewUser("pending_verification", FALSE)]
      BY <1>0, <2>3 DEF InsertUser
    <3>2. "pending_verification" \in UserStatus
      BY DEF UserStatus
    <3> QED
      BY <3>1, <3>2, NewUserIsOpen
  <2>4. CASE InsertRole(r)
    <3>1. user' = [user EXCEPT ![u] = [user[u] EXCEPT !.role = TRUE]]
      BY <1>0, <2>4 DEF InsertRole
    <3>2. /\ [user[u] EXCEPT !.role = TRUE] \in UserRow
          /\ [user[u] EXCEPT !.role = TRUE].failed = user[u].failed
          /\ [user[u] EXCEPT !.role = TRUE].locked = user[u].locked
      BY <1>2 DEF UserRow
    <3> QED
      BY <3>1, <3>2
  <2>5. CASE SetMfaFlag(r)
    <3>1. user' = [user EXCEPT ![u] = [user[u] EXCEPT !.mfa = TRUE]]
      BY <1>0, <2>5 DEF SetMfaFlag
    <3>2. /\ [user[u] EXCEPT !.mfa = TRUE] \in UserRow
          /\ [user[u] EXCEPT !.mfa = TRUE].failed = user[u].failed
          /\ [user[u] EXCEPT !.mfa = TRUE].locked = user[u].locked
      BY <1>2 DEF UserRow
    <3> QED
      BY <3>1, <3>2
  <2> QED
    BY <2>1, <2>2, <2>3, <2>4, <2>5
<1>7. /\ AccountsTypeOK' /\ \A s \in Req : session'[s].open => session'[s].user \in User
      /\ \A w \in User : /\ user'[w].failed \in {0, user[w].failed}
                         /\ user'[w].locked => user[w].locked
  BY <1>1, <1>2, <1>5, <1>6, UserChanges
<1> QED
  BY <1>1, <1>4, <1>7, LocksStay

\* An attempt is counted on top of those that were counted when it began.
LEMMA CountKeeps ==
  ASSUME Tabled, LockInv, NEW r \in Req, Handles(r, AccountOps), CountFailure(r)
  PROVE  LockInv'
<1>0. PICK u, n : u = req[r].user /\ n = req[r].attempts + 1
  OBVIOUS
<1>1. /\ req[r].pc = "count" /\ req[r].op = "login" /\ req[r] \in AccountRow
      /\ u \in User /\ user[u] \in UserRow /\ n \in Nat
  <2>1. req[r].pc = "count"
    BY DEF CountFailure, At
  <2>2. /\ req[r] \in AccountRow /\ AccountTyped(r) /\ req[r].op \in AccountOps
        /\ u \in User /\ user[u] \in UserRow
    BY <1>0, <2>1, AccountAtWork
  <2> QED
    BY <1>0, <2>1, <2>2 DEF AccountTyped, AccountRow
<1>2. /\ AccountTyped(r)' /\ req'[r].pc = "failed" /\ req'[r].op = "login" /\ req'[r].user = u
      /\ \A q \in Req : q # r => req'[q] = req[q]
  BY <1>0, <1>1, AccountGoes DEF CountFailure
<1>3. PICK locked \in BOOLEAN : locked <=> (user[u].locked \/ n >= MaxAttempts)
  <2>1. CASE user[u].locked \/ n >= MaxAttempts
    BY <2>1
  <2>2. CASE ~(user[u].locked \/ n >= MaxAttempts)
    BY <2>2
  <2> QED
    BY <2>1, <2>2
<1>4. /\ UNCHANGED <<mfaConfig, setup, challenge, session>>
      /\ user' = [user EXCEPT ![u] = [user[u] EXCEPT !.failed = n, !.locked = locked]]
  <2>1. /\ UNCHANGED <<mfaConfig, setup, challenge, session>>
        /\ user' = [user EXCEPT ![u].failed = n, ![u].locked = @ \/ n >= MaxAttempts]
    BY <1>0 DEF CountFailure
  <2>2. user' = [[user EXCEPT ![u].failed = n] EXCEPT ![u].locked = @ \/ n >= MaxAttempts]
    BY <2>1
  <2>3. [user EXCEPT ![u].failed = n] = [user EXCEPT ![u] = [user[u] EXCEPT !.failed = n]]
    OBVIOUS
  <2>4. [user EXCEPT ![u] = [user[u] EXCEPT !.failed = n]][u].locked = user[u].locked
    BY <1>1 DEF LockInv, AccountsTypeOK, UserRow
  <2>5. (user[u].locked \/ n >= MaxAttempts) = locked
    BY <1>1, <1>3 DEF UserRow
  <2>6. \A m : [[user EXCEPT ![u] = [user[u] EXCEPT !.failed = n]] EXCEPT ![u].locked = m]
                 = [user EXCEPT ![u] = [user[u] EXCEPT !.failed = n, !.locked = m]]
    BY <1>1 DEF LockInv, AccountsTypeOK
  <2> QED
    BY <2>1, <2>2, <2>3, <2>4, <2>5, <2>6
<1>5. /\ [user[u] EXCEPT !.failed = n, !.locked = locked] \in UserRow
      /\ [user[u] EXCEPT !.failed = n, !.locked = locked].failed = n
      /\ [user[u] EXCEPT !.failed = n, !.locked = locked].locked = locked
  BY <1>1 DEF UserRow
<1>6. /\ user'[u].failed = n /\ user'[u].locked = locked
      /\ \A w \in User : w # u => user'[w] = user[w]
      /\ user' \in [User -> UserRow]
  BY <1>1, <1>4, <1>5 DEF LockInv, AccountsTypeOK, UserRow
<1>7. AccountsTypeOK' /\ \A s \in Req : session'[s].open => session'[s].user \in User
  BY <1>4, <1>6 DEF LockInv, AccountsTypeOK, UserRow
<1>8. ASSUME NEW w
      PROVE  /\ Cardinality(Failures(w)) \in Nat /\ Cardinality(Failures(w)') \in Nat
             /\ Cardinality(Failures(w)) <= Cardinality(Failures(w)')
  BY <1>1, <1>2, FailuresGrow
<1>9. n <= Cardinality(Failures(u)')
  <2>1. Failures(u)' = Failures(u) \cup {r} /\ r \notin Failures(u)
    BY <1>1, <1>2 DEF Failures
  <2>2. IsFiniteSet(Failures(u))
    BY ReqIsFinite, FS_Subset DEF Failures
  <2>3. Cardinality(Failures(u)') = Cardinality(Failures(u)) + 1
    BY <2>1, <2>2, FS_AddElement
  <2>4. req[r].attempts <= Cardinality(Failures(u)) /\ req[r].attempts \in Nat
    BY <1>0, <1>1 DEF LockInv, Counting, AccountRow
  <2> QED
    BY <1>0, <1>8, <2>3, <2>4
<1>10. \A w \in User : Counted(w)'
  <2> TAKE w \in User
  <2>1. /\ Counted(w) /\ user[w].failed \in Nat /\ MaxAttempts \in Nat
        /\ Cardinality(Failures(w)) \in Nat /\ Cardinality(Failures(w)') \in Nat
        /\ Cardinality(Failures(w)) <= Cardinality(Failures(w)')
    BY <1>8, AccountsAssumption DEF LockInv, AccountsTypeOK
  <2>2. CASE w # u
    <3>1. user'[w] = user[w]
      BY <1>6, <2>2
    <3>2. user[w].failed <= Cardinality(Failures(w)')
      BY <2>1 DEF Counted
    <3>3. user[w].locked => MaxAttempts <= Cardinality(Failures(w)')
      BY <2>1 DEF Counted
    <3> QED
      BY <3>1, <3>2, <3>3 DEF Counted
  <2>3. CASE w = u
    <3>1. locked => MaxAttempts <= Cardinality(Failures(u)')
      <4>1. CASE user[u].locked
        BY <2>1, <2>3, <4>1 DEF Counted
      <4>2. CASE n >= MaxAttempts
        BY <1>1, <1>8, <1>9, <2>1, <4>2
      <4> QED
        BY <1>3, <4>1, <4>2
    <3> QED
      BY <1>6, <1>9, <2>3, <3>1 DEF Counted
  <2> QED
    BY <2>2, <2>3
<1>11. ASSUME NEW q \in Req, q # r PROVE AccountTyped(q)' /\ Counting(q)'
  <2>1. AccountTyped(q) /\ Counting(q) /\ req'[q] = req[q]
    BY <1>2, <1>11 DEF LockInv
  <2>2. AccountTyped(q)'
    BY <2>1 DEF AccountTyped
  <2>3. Counting(q)'
    <3> SUFFICES ASSUME req[q].op \in AccountOps, req[q].pc = "count"
                 PROVE  req[q].attempts <= Cardinality(Failures(req[q].user))'
      BY <2>1 DEF Counting
    <3>1. PICK w : w = req[q].user
      OBVIOUS
    <3>2. req[q].attempts \in Nat /\ req[q].attempts <= Cardinality(Failures(w))
      BY <2>1, <3>1 DEF AccountTyped, AccountRow, Counting
    <3>3. req[q].attempts <= Cardinality(Failures(w)')
      BY <1>8, <3>2
    <3>4. Failures(req[q].user)' = Failures(w)'
      BY <2>1, <3>1 DEF Failures
    <3> QED
      BY <3>3, <3>4
  <2> QED
    BY <2>2, <2>3
<1>12. Counting(r)'
  BY <1>2 DEF Counting
<1> QED
  BY <1>2, <1>7, <1>10, <1>11, <1>12 DEF LockInv

LEMMA AlwaysLocks == Spec => []LockInv
<1>1. Tabled /\ Tabled' /\ LockInv /\ [Next]_vars => LockInv'
  <2> SUFFICES ASSUME Tabled, Tabled', LockInv, [Next]_vars PROVE LockInv'
    OBVIOUS
  <2>1. CASE UNCHANGED vars
    <3>1. req' = req /\ UNCHANGED accounts
      BY <2>1 DEF vars, server, people
    <3>2. \A u : Failures(u)' = Failures(u)
      BY <3>1 DEF Failures
    <3>3. \A r \in Req : AccountTyped(r)' /\ Counting(r)'
      <4> TAKE r \in Req
      <4>1. AccountTyped(r) /\ Counting(r)
        BY DEF LockInv
      <4>2. Failures(req[r].user)' = Failures(req[r].user)
        BY <3>1, <3>2 DEF Failures
      <4> QED
        BY <3>1, <4>1, <4>2 DEF AccountTyped, Counting
    <3>4. \A u \in User : Counted(u)'
      BY <3>1, <3>2 DEF LockInv, Counted, accounts
    <3> QED
      BY <3>1, <3>3, <3>4 DEF LockInv, AccountsTypeOK, accounts
  <2>2. ASSUME NEW r \in Req, AccountsStep(r), Handles(r, AccountOps)
        PROVE  LockInv'
    BY <2>2, OnlyReads, ChangesOnStart, LocksUntouched, UserSteps, CountKeeps DEF AccountsStep
  <2>3. ASSUME NEW r \in Req, req[r].op # "login" \/ req[r].pc # "failed", UNCHANGED accounts,
               \A q \in Req : q # r => req'[q] = req[q], AccountTyped(r)',
               ~(req'[r].op \in AccountOps /\ req'[r].pc = "count")
        PROVE  LockInv'
    <3>1. AccountsTypeOK' /\ \A s \in Req : session'[s].open => session'[s].user \in User
      BY <2>3 DEF accounts, LockInv, AccountsTypeOK
    <3> QED
      BY <2>3, <3>1, LocksStay DEF accounts
  <2>4. ASSUME NEW r \in Req, UNCHANGED accounts, Away(r, AccountOps)
        PROVE  LockInv'
    <3>1. req[r].op # "login"
      BY <2>4 DEF Away, AccountOps
    <3> QED
      BY <2>3, <2>4, <3>1 DEF Away, AccountTyped
  <2>5. ASSUME NEW r \in Req, Break(r)
        PROVE  LockInv'
    <3>1. /\ UNCHANGED accounts /\ req[r].pc # "failed"
          /\ \A q \in Req : q # r => req'[q] = req[q]
          /\ req'[r].op = req[r].op
          /\ \/ req'[r] = [req[r] EXCEPT !.pc = req[r].catch, !.catch = "failed"]
             \/ req'[r] = [req[r] EXCEPT !.pc = "died"]
      BY <2>5, BreakKeeps DEF Break, people, Keeps, InFlight, Ended
    <3>2. CASE req[r].op \notin AccountOps
      BY <2>3, <3>1, <3>2 DEF AccountTyped
    <3>3. CASE req[r].op \in AccountOps
      <4>1. req[r] \in AccountRow
        BY <3>3 DEF LockInv, AccountTyped
      <4>2. req'[r] \in AccountRow /\ req'[r].pc \in {"failed", "died"}
        BY <3>1, <4>1 DEF AccountRow, AccountPc
      <4> QED
        BY <2>3, <3>1, <4>2 DEF AccountTyped
    <3> QED
      BY <3>2, <3>3
  <2> QED
    BY <2>1, <2>2, <2>4, <2>5, AtAccounts DEF Next
<1> QED
  BY <1>1, LocksBegin, AlwaysTabled, PTL DEF Spec

\* Attempts that cross may be counted as one, never as more: whoever is locked
\* out has failed MaxAttempts times, whatever interleaves and wherever a
\* request fails (handleFailedLogin in auth.service.ts).
THEOREM LockedAreFailed == Spec => []NeverLockedEarly
<1>1. LockInv => NeverLockedEarly
  <2> SUFFICES ASSUME LockInv, NEW u \in User, user[u].locked
               PROVE  Cardinality(Failures(u)) >= MaxAttempts
    BY DEF NeverLockedEarly, Failures
  <2>1. IsFiniteSet(Failures(u))
    BY ReqIsFinite, FS_Subset DEF Failures
  <2> QED
    BY <2>1, FS_CardinalityType, AccountsAssumption DEF LockInv, Counted
<1> QED
  BY <1>1, AlwaysLocks, PTL

-------------------------------------------------------------------------------
(***************************************************************************)
(* Sessions: who opened them, and what may leave them open.                 *)
(***************************************************************************)
\* A session is named by the login that opened it, for the user it logs in.
OpenedBy(s) == session[s].open => /\ req[s].op \in AccountOps
                                  /\ req[s].pc \in {"greet"} \cup Ended
                                  /\ session[s].user = req[s].user

\* Each of these places has one endpoint.
Placed(r) == req[r].op \in AccountOps =>
               /\ req[r].pc \in {"change", "close"} => req[r].op = "deactivate"
               /\ req[r].pc = "save" => req[r].op = "updateUser"

SessionInv == /\ \A r \in Req : OpenedBy(r) /\ Placed(r)
              /\ OpenSessionsAreExplained

LEMMA SessionsBegin == Init => SessionInv
BY DEF Init, ServerInit, AccountsInit, AccountOps, SessionInv, OpenedBy, Placed,
       OpenSessionsAreExplained

\* What a step of one handler has to keep.
LEMMA SessionsStay ==
  ASSUME LockInv, SessionInv, NEW r \in Req, \A q \in Req : q # r => req'[q] = req[q],
         \A s \in Req : session'[s].open =>
           s = r \/ (session[s].open /\ session'[s].user = session[s].user),
         OpenedBy(r)', Placed(r)',
         session'[r].open /\ req'[r].pc = "done" => user'[session'[r].user].status # "deactivated",
         \A u \in User : user'[u].status = "deactivated" =>
           user[u].status = "deactivated" \/ LeavesOpen(r, u)',
         \A u \in User : LeavesOpen(r, u) =>
           LeavesOpen(r, u)' \/ \A s \in Req : ~(session'[s].open /\ session'[s].user = u)
  PROVE  SessionInv'
<1>1. ASSUME NEW q \in Req PROVE OpenedBy(q)' /\ Placed(q)'
  <2>1. CASE q = r
    BY <2>1
  <2>2. CASE q # r
    BY <2>2 DEF SessionInv, OpenedBy, Placed
  <2> QED
    BY <2>1, <2>2
<1>2. ASSUME NEW s \in Req, session'[s].open, req'[s].pc = "done",
             NEW u, u = session'[s].user, user'[u].status = "deactivated"
      PROVE  \E q \in Req : LeavesOpen(q, u)'
  <2>1. /\ s # r /\ req[s].pc = "done" /\ session[s].open /\ session[s].user = u
        /\ u \in User
    BY <1>2 DEF LockInv
  <2>2. CASE LeavesOpen(r, u)'
    BY <2>2
  <2>3. CASE user[u].status = "deactivated"
    <3>1. PICK q \in Req : LeavesOpen(q, u)
      BY <2>1, <2>3 DEF SessionInv, OpenSessionsAreExplained
    <3>2. CASE q = r
      BY <1>2, <2>1, <3>1, <3>2
    <3>3. CASE q # r
      BY <3>1, <3>3 DEF LeavesOpen
    <3> QED
      BY <3>2, <3>3
  <2> QED
    BY <1>2, <2>1, <2>2, <2>3
<1>3. OpenSessionsAreExplained'
  BY <1>2 DEF OpenSessionsAreExplained, LeavesOpen
<1> QED
  BY <1>1, <1>3 DEF SessionInv

\* Who does not open a session has none that is open, but at its end.
LEMMA Sessionless ==
  ASSUME LockInv, SessionInv, NEW r \in Req, UNCHANGED accounts,
         \A q \in Req : q # r => req'[q] = req[q],
         ~session[r].open, Placed(r)', \A u \in User : LeavesOpen(r, u) => LeavesOpen(r, u)'
  PROVE  SessionInv'
<1>1. \A s \in Req : session'[s] = session[s]
  BY DEF accounts
<1>2. \A u \in User : user'[u] = user[u]
  BY DEF accounts
<1>3. OpenedBy(r)'
  BY <1>1 DEF OpenedBy
<1> QED
  BY <1>1, <1>2, <1>3, SessionsStay

\* The handlers that begin, and those at work.
LEMMA AccountStarters ==
  ASSUME NEW r \in Req, AccountsStep(r), req[r].pc = "idle"
  PROVE  /\ \/ WrongPassword(r) \/ RightPassword(r) \/ VerifyMfa(r) \/ UseSession(r) \/ Logout(r)
            \/ ReadAccount(r) \/ FindSetupToken(r) \/ CreateUser(r) \/ UpdateUser(r)
            \/ RevokeRole(r) \/ AssignRole(r) \/ EnableMfa(r)
         /\ ~RevokeRole(r) => UNCHANGED user
         /\ ~Logout(r) => UNCHANGED session
<1>1. \/ WrongPassword(r) \/ RightPassword(r) \/ VerifyMfa(r) \/ UseSession(r) \/ Logout(r)
      \/ ReadAccount(r) \/ FindSetupToken(r) \/ CreateUser(r) \/ UpdateUser(r)
      \/ RevokeRole(r) \/ AssignRole(r) \/ EnableMfa(r)
  BY DEF AccountsStep, CountFailure, ResetFailures, CreateChallenge, GetSecret, CodeRefused,
     UseChallenge, ReadPermissions, InsertSession, MarkActive, RefreshToken, ExpireSession,
     ChangeAccount, CloseAll, SetPassword, InsertUser, UserExists, InsertRole, SaveUser,
     SetMfaFlag, At
<1>2. \/ UNCHANGED accounts
      \/ Logout(r) /\ UNCHANGED user
      \/ RevokeRole(r) /\ UNCHANGED session
      \/ UNCHANGED user /\ UNCHANGED session
  BY <1>1 DEF WrongPassword, RightPassword, VerifyMfa, UseSession, Logout, ReadAccount,
     FindSetupToken, CreateUser, UpdateUser, RevokeRole, AssignRole, EnableMfa
<1> QED
  BY <1>1, <1>2 DEF accounts

LEMMA AccountWorkers ==
  ASSUME NEW r \in Req, AccountsStep(r), req[r].pc # "idle"
  PROVE  /\ \/ CountFailure(r) \/ ResetFailures(r) \/ CreateChallenge(r) \/ GetSecret(r)
            \/ CodeRefused(r) \/ UseChallenge(r) \/ ReadPermissions(r) \/ InsertSession(r)
            \/ MarkActive(r) \/ RefreshToken(r) \/ ExpireSession(r) \/ ChangeAccount(r)
            \/ CloseAll(r) \/ SetPassword(r) \/ InsertUser(r) \/ UserExists(r) \/ InsertRole(r)
            \/ SaveUser(r) \/ SetMfaFlag(r)
         /\ ~InsertSession(r) /\ ~RefreshToken(r) /\ ~ExpireSession(r) /\ ~CloseAll(r) =>
              UNCHANGED session
         /\ req[r].pc \notin Ended
         /\ req[r].pc = "greet" => MarkActive(r)
         /\ req[r].pc = "close" => CloseAll(r)
<1>1. \/ CountFailure(r) \/ ResetFailures(r) \/ CreateChallenge(r) \/ GetSecret(r)
      \/ CodeRefused(r) \/ UseChallenge(r) \/ ReadPermissions(r) \/ InsertSession(r)
      \/ MarkActive(r) \/ RefreshToken(r) \/ ExpireSession(r) \/ ChangeAccount(r)
      \/ CloseAll(r) \/ SetPassword(r) \/ InsertUser(r) \/ UserExists(r) \/ InsertRole(r)
      \/ SaveUser(r) \/ SetMfaFlag(r)
  BY DEF AccountsStep, WrongPassword, RightPassword, VerifyMfa, UseSession, Logout, ReadAccount,
     FindSetupToken, CreateUser, UpdateUser, RevokeRole, AssignRole, EnableMfa, CanStart
<1>2. \/ InsertSession(r) \/ RefreshToken(r) \/ ExpireSession(r) \/ CloseAll(r)
      \/ UNCHANGED session \/ UNCHANGED accounts
  BY <1>1, Zenon DEF CountFailure, ResetFailures, CreateChallenge, GetSecret, CodeRefused,
     UseChallenge, ReadPermissions, MarkActive, ChangeAccount, SetPassword, InsertUser,
     UserExists, InsertRole, SaveUser, SetMfaFlag
<1>3. /\ req[r].pc \notin Ended
      /\ req[r].pc = "greet" => MarkActive(r)
      /\ req[r].pc = "close" => CloseAll(r)
  BY <1>1, Zenon DEF CountFailure, ResetFailures, CreateChallenge, GetSecret, CodeRefused,
     UseChallenge, ReadPermissions, InsertSession, MarkActive, RefreshToken, ExpireSession,
     ChangeAccount, CloseAll, SetPassword, InsertUser, UserExists, InsertRole, SaveUser,
     SetMfaFlag, At, Ended
<1> QED
  BY <1>1, <1>2, <1>3 DEF accounts

\* Where a handler at work goes.
LEMMA AccountTargets ==
  ASSUME NEW r \in Req, AccountsStep(r), req[r].pc # "idle", ~ReadPermissions(r),
         req[r].back \in {"done", "challenge", "permissions"}
  PROVE  \/ Raise(r)
         \/ \E pc \in {"failed", "permissions", "challenge", "use", "greet", "role", "done"} :
              Goto(r, pc)
         \/ ChangeAccount(r) /\ Goto(r, "close")
BY AccountWorkers DEF CountFailure, ResetFailures, CreateChallenge, GetSecret, CodeRefused,
     UseChallenge, InsertSession, MarkActive, RefreshToken, ExpireSession, ChangeAccount,
     CloseAll, SetPassword, InsertUser, UserExists, InsertRole, SaveUser, SetMfaFlag, Return

LEMMA AccountMoves ==
  ASSUME Tabled, LockInv, NEW r \in Req, Handles(r, AccountOps), AccountsStep(r),
         req[r].pc # "idle"
  PROVE  /\ req[r].op \in AccountOps /\ req[r] \in AccountRow
         /\ req'[r].op = req[r].op /\ req'[r].user = req[r].user
         /\ req'[r].becomes = req[r].becomes
         /\ req'[r].pc \in {"failed", "permissions", "challenge", "use", "session", "token", "greet",
                            "role", "close", "done"}
         /\ req'[r].pc = "close" => ChangeAccount(r)
         /\ \A pc : Goto(r, pc) => req'[r].pc = pc
<1>1. req[r].op \in AccountOps /\ req[r] \in AccountRow
  BY AccountAtWork
<1>2. ASSUME NEW pc, Goto(r, pc)
      PROVE  /\ req'[r].op = req[r].op /\ req'[r].user = req[r].user
             /\ req'[r].becomes = req[r].becomes /\ req'[r].pc = pc
  <2>1. req'[r] = [req[r] EXCEPT !.pc = pc]
    BY <1>2 DEF Goto, Tabled
  <2> QED
    BY <1>1, <2>1 DEF AccountRow
<1>3. ASSUME Raise(r)
      PROVE  /\ req'[r].op = req[r].op /\ req'[r].user = req[r].user
             /\ req'[r].becomes = req[r].becomes /\ req'[r].pc = "failed"
  <2>1. req'[r] = [req[r] EXCEPT !.pc = req[r].catch, !.catch = "failed"]
    BY <1>3 DEF Raise, Tabled
  <2> QED
    BY <1>1, <2>1 DEF AccountRow
<1>4. CASE ReadPermissions(r)
  <2>1. PICK granted : \E pc \in {"token", "session"} :
          req' = [req EXCEPT ![r].granted = granted, ![r].pc = pc]
    BY <1>4 DEF ReadPermissions
  <2>2. PICK pc \in {"token", "session"} :
          req'[r] = [req[r] EXCEPT !.granted = granted, !.pc = pc]
    BY <2>1 DEF Tabled
  <2>3. /\ req'[r].op = req[r].op /\ req'[r].user = req[r].user
        /\ req'[r].becomes = req[r].becomes /\ req'[r].pc = pc
    BY <1>1, <2>2 DEF AccountRow
  <2> QED
    BY <1>1, <1>2, <2>3
<1>5. CASE ~ReadPermissions(r)
  <2>1. req[r].back \in {"done", "challenge", "permissions"}
    BY <1>1 DEF AccountRow
  <2>2. \/ Raise(r)
        \/ \E pc \in {"failed", "permissions", "challenge", "use", "greet", "role", "done"} :
             Goto(r, pc)
        \/ ChangeAccount(r) /\ Goto(r, "close")
    BY <1>5, <2>1, AccountTargets
  <2>3. CASE Raise(r)
    BY <1>1, <1>2, <1>3, <2>3
  <2>4. CASE \E pc \in {"failed", "permissions", "challenge", "use", "greet", "role", "done"} :
               Goto(r, pc)
    <3>1. PICK pc \in {"failed", "permissions", "challenge", "use", "greet", "role", "done"} :
            Goto(r, pc)
      BY <2>4
    <3>2. /\ req'[r].op = req[r].op /\ req'[r].user = req[r].user
          /\ req'[r].becomes = req[r].becomes /\ req'[r].pc = pc
      BY <1>2, <3>1
    <3> QED
      BY <1>1, <1>2, <3>1, <3>2
  <2>5. CASE ChangeAccount(r) /\ Goto(r, "close")
    BY <1>1, <1>2, <2>5
  <2> QED
    BY <2>2, <2>3, <2>4, <2>5
<1> QED
  BY <1>4, <1>5

LEMMA SessionStarts ==
  ASSUME Tabled, LockInv, SessionInv, NEW r \in Req, Handles(r, AccountOps),
         AccountsStep(r), req[r].pc = "idle"
  PROVE  SessionInv'
<1>1. \A q \in Req : q # r => req'[q] = req[q]
  BY AccountKeeps DEF Keeps
<1>2. \A s \in Req : session'[s].open => session[s].open /\ session'[s].user = session[s].user
  <2>1. CASE Logout(r)
    <3>1. PICK closed : CloseSessions(closed)
      BY <2>1 DEF Logout
    <3>2. \A s \in Req : session[s] \in SessionRow
      BY DEF LockInv, AccountsTypeOK, SessionRow
    <3> QED
      BY <3>1, <3>2 DEF CloseSessions, SessionRow
  <2>2. CASE ~Logout(r)
    <3>1. session' = session
      BY <2>2, AccountStarters
    <3> QED
      BY <3>1
  <2> QED
    BY <2>1, <2>2
<1>3. ~session[r].open /\ ~session'[r].open
  BY <1>2 DEF SessionInv, OpenedBy, Ended
<1>4. \A u \in User : user'[u].status = user[u].status
  <2>1. CASE RevokeRole(r)
    <3>1. PICK w \in User : user' = [user EXCEPT ![w].role = FALSE]
      BY <2>1 DEF RevokeRole, Existing
    <3>2. \A u \in User : user[u] \in UserRow
      BY DEF LockInv, AccountsTypeOK, UserRow
    <3>3. user' = [user EXCEPT ![w] = [user[w] EXCEPT !.role = FALSE]]
      BY <3>1
    <3>4. [user[w] EXCEPT !.role = FALSE].status = user[w].status
      BY <3>2 DEF UserRow
    <3> QED
      BY <3>3, <3>4 DEF LockInv, AccountsTypeOK
  <2>2. CASE ~RevokeRole(r)
    <3>1. user' = user
      BY <2>2, AccountStarters
    <3> QED
      BY <3>1
  <2> QED
    BY <2>1, <2>2
<1>5. \A u : ~LeavesOpen(r, u)
  BY DEF LeavesOpen, LockInv, AccountTyped, AccountRow, AccountPc, AccountOps
<1>6. OpenedBy(r)'
  BY <1>3 DEF OpenedBy
<1>7. Placed(r)'
  <2>1. ASSUME NEW h, Begin(r, h) PROVE req'[r] = h
    BY <2>1 DEF Begin, Tabled
  <2>2. CASE ReadAccount(r)
    <3>1. PICK u : Begin(r, AccountCall("deactivate", "change", u))
      BY <2>2 DEF ReadAccount
    <3>2. req'[r].op = "deactivate" /\ req'[r].pc = "change"
      BY <2>1, <3>1 DEF AccountCall
    <3> QED
      BY <3>2 DEF Placed
  <2>3. CASE UpdateUser(r)
    <3>1. PICK u, s : Begin(r, [AccountCall("updateUser", "save", u) EXCEPT !.becomes = s])
      BY <2>3 DEF UpdateUser
    <3>2. req'[r].op = "updateUser" /\ req'[r].pc = "save"
      BY <2>1, <3>1 DEF AccountCall
    <3> QED
      BY <3>2 DEF Placed
  <2>4. CASE ~ReadAccount(r) /\ ~UpdateUser(r)
    <3>1. req'[r].pc \notin {"change", "close", "save"}
      <4>1. CASE WrongPassword(r)
        <5>1. PICK u : Begin(r, [AccountCall("login", "count", u) EXCEPT !.attempts = user[u].failed])
          BY <4>1 DEF WrongPassword
        <5> QED
          BY <2>1, <5>1 DEF AccountCall
      <4>2. CASE RightPassword(r)
        <5>1. PICK u, back : \E pc \in {"reset", "challenge", "permissions"} :
                Begin(r, [AccountCall("login", pc, u) EXCEPT !.back = back])
          BY <4>2 DEF RightPassword
        <5>2. PICK pc \in {"reset", "challenge", "permissions"} :
                Begin(r, [AccountCall("login", pc, u) EXCEPT !.back = back])
          BY <5>1
        <5>3. req'[r].pc = pc
          BY <2>1, <5>2 DEF AccountCall
        <5> QED
          BY <5>3
      <4>3. CASE VerifyMfa(r)
        <5>1. PICK u, c : Begin(r, [AccountCall("verify", "secret", u) EXCEPT !.on = c])
          BY <4>3 DEF VerifyMfa
        <5> QED
          BY <2>1, <5>1 DEF AccountCall
      <4>4. CASE UseSession(r)
        <5>1. PICK op, u, s : \E pc \in {"expire", "permissions"} :
                Begin(r, [AccountCall(op, pc, u) EXCEPT !.on = s])
          BY <4>4 DEF UseSession
        <5>2. PICK pc \in {"expire", "permissions"} :
                Begin(r, [AccountCall(op, pc, u) EXCEPT !.on = s])
          BY <5>1
        <5>3. req'[r].pc = pc
          BY <2>1, <5>2 DEF AccountCall
        <5> QED
          BY <5>3
      <4>5. CASE \/ Logout(r) \/ FindSetupToken(r) \/ CreateUser(r) \/ RevokeRole(r)
                 \/ AssignRole(r) \/ EnableMfa(r)
        <5>1. PICK op, u : \E pc \in {"done", "password", "insert", "failed", "mfa"} :
                Begin(r, AccountCall(op, pc, u))
          BY <4>5 DEF Logout, FindSetupToken, CreateUser, RevokeRole, AssignRole, EnableMfa
        <5>2. PICK pc \in {"done", "password", "insert", "failed", "mfa"} :
                Begin(r, AccountCall(op, pc, u))
          BY <5>1
        <5>3. req'[r].pc = pc
          BY <2>1, <5>2 DEF AccountCall
        <5> QED
          BY <5>3
      <4> QED
        BY <2>4, <4>1, <4>2, <4>3, <4>4, <4>5, AccountStarters
    <3> QED
      BY <3>1 DEF Placed
  <2> QED
    BY <2>2, <2>3, <2>4
<1> QED
  BY <1>1, <1>2, <1>3, <1>4, <1>5, <1>6, <1>7, SessionsStay

\* At work, an account is deactivated by two statements only.
LEMMA StatusMoves ==
  ASSUME NEW r \in Req, LockInv, Placed(r), AccountsStep(r), req[r].pc # "idle",
         req[r].op \in AccountOps, req[r] \in AccountRow, NEW u \in User
  PROVE  /\ user'[u].status = "deactivated" =>
              \/ user[u].status = "deactivated"
              \/ u = req[r].user /\ ChangeAccount(r) /\ req[r].op = "deactivate"
              \/ /\ u = req[r].user /\ SaveUser(r) /\ req[r].op = "updateUser"
                 /\ req[r].becomes = "deactivated"
         /\ MarkActive(r) => user'[req[r].user].status = "active"
<1>0. PICK w \in User : w = req[r].user
  BY DEF AccountRow
<1>1. \A v \in User : user[v] \in UserRow
  BY DEF LockInv, AccountsTypeOK, UserRow
<1>2. ASSUME NEW x, user' = [user EXCEPT ![w] = x]
      PROVE  user'[u] = IF u = w THEN x ELSE user[u]
  BY <1>2 DEF LockInv, AccountsTypeOK
<1>3. CASE MarkActive(r) \/ SetPassword(r)
  <2>1. user' = [user EXCEPT ![w] = [user[w] EXCEPT !.status = "active"]]
    BY <1>0, <1>3 DEF MarkActive, SetPassword
  <2>2. [user[w] EXCEPT !.status = "active"].status = "active"
    BY <1>1 DEF UserRow
  <2>3. user'[w].status = "active"
    BY <2>1, <2>2 DEF LockInv, AccountsTypeOK
  <2> QED
    BY <1>0, <1>2, <2>1, <2>2, <2>3
<1>4. CASE ChangeAccount(r) \/ SaveUser(r)
  <2>1. PICK s : /\ user' = [user EXCEPT ![w] = [user[w] EXCEPT !.status = s]]
                 /\ ChangeAccount(r) \/ (SaveUser(r) /\ s = req[r].becomes)
    BY <1>0, <1>4 DEF ChangeAccount, SaveUser
  <2>2. [user[w] EXCEPT !.status = s].status = s
    BY <1>1 DEF UserRow
  <2>3. /\ ChangeAccount(r) => req[r].op = "deactivate"
        /\ SaveUser(r) => req[r].op = "updateUser"
        /\ ~MarkActive(r)
    BY <1>4 DEF Placed, ChangeAccount, SaveUser, MarkActive, At
  <2> QED
    BY <1>0, <1>2, <2>1, <2>2, <2>3
<1>5. CASE InsertUser(r)
  <2>1. user' = [user EXCEPT ![w] = NewUser("pending_verification", FALSE)]
    BY <1>0, <1>5 DEF InsertUser
  <2>2. NewUser("pending_verification", FALSE).status = "pending_verification"
    BY DEF NewUser
  <2>3. ~MarkActive(r)
    BY <1>5 DEF InsertUser, MarkActive, At
  <2> QED
    BY <1>0, <1>2, <2>1, <2>2, <2>3
<1>6. CASE ~MarkActive(r) /\ ~SetPassword(r) /\ ~ChangeAccount(r) /\ ~SaveUser(r) /\ ~InsertUser(r)
  <2>1. user'[u].status = user[u].status
    <3>1. CASE CountFailure(r)
      <4>1. PICK n, l : user' = [user EXCEPT ![w].failed = n, ![w].locked = l]
        BY <1>0, <3>1 DEF CountFailure
      <4>2. user' = [user EXCEPT ![w] = [user[w] EXCEPT !.failed = n, !.locked = l]]
        BY <4>1 DEF LockInv, AccountsTypeOK
      <4>3. [user[w] EXCEPT !.failed = n, !.locked = l].status = user[w].status
        BY <1>1 DEF UserRow
      <4> QED
        BY <1>2, <4>2, <4>3
    <3>2. CASE ResetFailures(r)
      <4>1. user' = [user EXCEPT ![w].failed = 0, ![w].locked = FALSE]
        BY <1>0, <3>2 DEF ResetFailures
      <4>2. user' = [user EXCEPT ![w] = [user[w] EXCEPT !.failed = 0, !.locked = FALSE]]
        BY <4>1 DEF LockInv, AccountsTypeOK
      <4>3. [user[w] EXCEPT !.failed = 0, !.locked = FALSE].status = user[w].status
        BY <1>1 DEF UserRow
      <4> QED
        BY <1>2, <4>2, <4>3
    <3>3. CASE InsertRole(r)
      <4>1. user' = [user EXCEPT ![w] = [user[w] EXCEPT !.role = TRUE]]
        BY <1>0, <3>3 DEF InsertRole
      <4>2. [user[w] EXCEPT !.role = TRUE].status = user[w].status
        BY <1>1 DEF UserRow
      <4> QED
        BY <1>2, <4>1, <4>2
    <3>4. CASE SetMfaFlag(r)
      <4>1. user' = [user EXCEPT ![w] = [user[w] EXCEPT !.mfa = TRUE]]
        BY <1>0, <3>4 DEF SetMfaFlag
      <4>2. [user[w] EXCEPT !.mfa = TRUE].status = user[w].status
        BY <1>1 DEF UserRow
      <4> QED
        BY <1>2, <4>1, <4>2
    <3>5. CASE \/ CreateChallenge(r) \/ GetSecret(r) \/ CodeRefused(r) \/ UseChallenge(r)
               \/ ReadPermissions(r) \/ InsertSession(r) \/ RefreshToken(r) \/ ExpireSession(r)
               \/ CloseAll(r) \/ UserExists(r)
      <4>1. user' = user
        BY <3>5 DEF CreateChallenge, GetSecret, CodeRefused, UseChallenge, ReadPermissions,
                    InsertSession, RefreshToken, ExpireSession, CloseAll, UserExists, accounts
      <4> QED
        BY <4>1
    <3> QED
      BY <1>6, <3>1, <3>2, <3>3, <3>4, <3>5, AccountWorkers
  <2> QED
    BY <1>6, <2>1
<1> QED
  BY <1>3, <1>4, <1>5, <1>6

LEMMA SessionWorks ==
  ASSUME Tabled, LockInv, SessionInv, NEW r \in Req, Handles(r, AccountOps),
         AccountsStep(r), req[r].pc # "idle"
  PROVE  SessionInv'
<1>1. /\ req[r].op \in AccountOps /\ req[r] \in AccountRow
      /\ req'[r].op = req[r].op /\ req'[r].user = req[r].user
      /\ req'[r].becomes = req[r].becomes
      /\ req'[r].pc \in {"failed", "permissions", "challenge", "use", "session", "token", "greet",
                         "role", "close", "done"}
      /\ req'[r].pc = "close" => ChangeAccount(r)
      /\ \A pc : Goto(r, pc) => req'[r].pc = pc
  BY AccountMoves
<1>2. \A q \in Req : q # r => req'[q] = req[q]
  BY AccountKeeps DEF Keeps
<1>3. session \in [Req -> SessionRow] /\ OpenedBy(r) /\ Placed(r) /\ req[r].user \in User
  BY <1>1 DEF LockInv, AccountsTypeOK, SessionRow, SessionInv, AccountRow
<1>4. \A s \in Req : session'[s].open =>
        \/ session[s].open /\ session'[s].user = session[s].user
        \/ s = r /\ InsertSession(r) /\ session'[r].user = req[r].user
  <2>1. CASE InsertSession(r)
    <3>1. /\ session'[r].user = req[r].user
          /\ \A s \in Req : s # r => session'[s] = session[s]
      BY <1>3, <2>1 DEF InsertSession
    <3> QED
      BY <2>1, <3>1
  <2>2. CASE RefreshToken(r)
    <3>1. \A s \in Req : session'[s].open = session[s].open /\ session'[s].user = session[s].user
      BY <1>3, <2>2 DEF RefreshToken, SessionRow
    <3> QED
      BY <3>1
  <2>3. CASE ExpireSession(r) \/ CloseAll(r)
    <3>1. PICK closed : CloseSessions(closed)
      BY <2>3 DEF ExpireSession, CloseAll
    <3> QED
      BY <1>3, <3>1 DEF CloseSessions, SessionRow
  <2>4. CASE ~InsertSession(r) /\ ~RefreshToken(r) /\ ~ExpireSession(r) /\ ~CloseAll(r)
    <3>1. session' = session
      BY <2>4, AccountWorkers
    <3> QED
      BY <3>1
  <2> QED
    BY <2>1, <2>2, <2>3, <2>4
<1>5. session[r].open => MarkActive(r)
  BY <1>3, AccountWorkers DEF OpenedBy
<1>6. InsertSession(r) => req'[r].pc = "greet"
  BY <1>1 DEF InsertSession
<1>7. MarkActive(r) => req'[r].pc = "done" /\ user'[req[r].user].status = "active"
  BY <1>1, <1>3, StatusMoves DEF MarkActive
<1>8. OpenedBy(r)'
  BY <1>1, <1>3, <1>4, <1>5, <1>6, <1>7 DEF OpenedBy, Ended
<1>9. Placed(r)'
  <2>1. ChangeAccount(r) => req[r].op = "deactivate"
    BY <1>1, <1>3 DEF ChangeAccount, At, Placed
  <2> QED
    BY <1>1, <2>1 DEF Placed
<1>10. session'[r].open /\ req'[r].pc = "done" => user'[session'[r].user].status # "deactivated"
  BY <1>3, <1>4, <1>5, <1>6, <1>7 DEF OpenedBy
<1>11. ASSUME NEW u \in User, user'[u].status = "deactivated", user[u].status # "deactivated"
       PROVE  LeavesOpen(r, u)'
  <2>1. CASE u = req[r].user /\ ChangeAccount(r) /\ req[r].op = "deactivate"
    <3>1. req'[r].pc = "close"
      BY <1>1, <2>1 DEF ChangeAccount
    <3> QED
      BY <1>1, <2>1, <3>1 DEF LeavesOpen
  <2>2. CASE /\ u = req[r].user /\ SaveUser(r) /\ req[r].op = "updateUser"
             /\ req[r].becomes = "deactivated"
    BY <1>1, <2>2 DEF LeavesOpen
  <2> QED
    BY <1>1, <1>3, <1>11, <2>1, <2>2, StatusMoves
<1>12. ASSUME NEW u \in User, LeavesOpen(r, u)
       PROVE  LeavesOpen(r, u)' \/ \A s \in Req : ~(session'[s].open /\ session'[s].user = u)
  <2>1. CASE req[r].op = "updateUser"
    BY <1>1, <1>12, <2>1 DEF LeavesOpen
  <2>2. CASE req[r].op # "updateUser"
    <3>1. CloseAll(r) /\ u = req[r].user
      BY <1>12, <2>2, AccountWorkers DEF LeavesOpen, Ended
    <3>2. \A s \in Req : ~(session'[s].open /\ session'[s].user = u)
      BY <1>3, <3>1 DEF CloseAll, CloseSessions, OpenOf, SessionRow
    <3> QED
      BY <3>2
  <2> QED
    BY <2>1, <2>2
<1> QED
  BY <1>2, <1>4, <1>8, <1>9, <1>10, <1>11, <1>12, SessionsStay

\* However logins, second factors, updates and deactivations cross, and wherever
\* they fail or are cut off: an open session of a deactivated account whose
\* tokens were handed out was left open by an update of the status, or by a
\* deactivation that did not come to its second statement (login, verifyMfa and
\* createSession in auth.service.ts, update and deactivate in users.service.ts).
THEOREM OnlyTheseLeaveSessions == Spec => []OpenSessionsAreExplained
<1>1. Tabled /\ LockInv /\ SessionInv /\ [Next]_vars => SessionInv'
  <2> SUFFICES ASSUME Tabled, LockInv, SessionInv, [Next]_vars PROVE SessionInv'
    OBVIOUS
  <2>1. CASE UNCHANGED vars
    BY <2>1 DEF vars, server, people, accounts, SessionInv, OpenedBy, Placed,
                OpenSessionsAreExplained, LeavesOpen
  <2>2. ASSUME NEW r \in Req, AccountsStep(r), Handles(r, AccountOps)
        PROVE  SessionInv'
    BY <2>2, SessionStarts, SessionWorks
  <2>3. ASSUME NEW r \in Req, UNCHANGED accounts, Away(r, AccountOps)
        PROVE  SessionInv'
    <3>1. ~session[r].open
      BY <2>3 DEF Away, SessionInv, OpenedBy
    <3>2. Placed(r)'
      BY <2>3 DEF Away, Placed
    <3>3. \A u \in User : ~LeavesOpen(r, u)
      BY <2>3 DEF Away, LeavesOpen, AccountOps
    <3> QED
      BY <2>3, <3>1, <3>2, <3>3, Sessionless DEF Away
  <2>4. ASSUME NEW r \in Req, Break(r)
        PROVE  SessionInv'
    <3>1. /\ UNCHANGED accounts /\ r \in InFlight
          /\ \A q \in Req : q # r => req'[q] = req[q]
          /\ req'[r].op = req[r].op
      BY <2>4, BreakKeeps DEF Break, people, Keeps
    <3>2. \/ req'[r] = [req[r] EXCEPT !.pc = req[r].catch, !.catch = "failed"]
          \/ req'[r] = [req[r] EXCEPT !.pc = "died"]
      BY <2>4, BreakKeeps
    <3>3. CASE req[r].op \notin AccountOps
      <4>1. ~session[r].open /\ Placed(r)'
        BY <3>1, <3>3 DEF SessionInv, OpenedBy, Placed
      <4>2. \A u \in User : ~LeavesOpen(r, u)
        BY <3>3 DEF LeavesOpen, AccountOps
      <4> QED
        BY <3>1, <4>1, <4>2, Sessionless
    <3>4. CASE req[r].op \in AccountOps
      <4>1. req[r] \in AccountRow
        BY <3>4 DEF LockInv, AccountTyped
      <4>2. /\ req'[r].pc \in {"failed", "died"} /\ req'[r].user = req[r].user
            /\ req'[r].becomes = req[r].becomes
        BY <3>2, <4>1 DEF AccountRow
      <4>3. /\ \A s \in Req : session'[s] = session[s]
            /\ \A u \in User : user'[u] = user[u]
        BY <3>1 DEF accounts
      <4>4. OpenedBy(r)'
        BY <3>1, <4>2, <4>3 DEF SessionInv, OpenedBy, Ended
      <4>5. Placed(r)'
        BY <4>2 DEF Placed
      <4>6. \A u \in User : LeavesOpen(r, u) => LeavesOpen(r, u)'
        BY <3>1, <4>2 DEF LeavesOpen
      <4> QED
        BY <3>1, <4>2, <4>3, <4>4, <4>5, <4>6, SessionsStay
    <3> QED
      BY <3>3, <3>4
  <2> QED
    BY <2>1, <2>2, <2>3, <2>4, AtAccounts DEF Next
<1>2. SessionInv => OpenSessionsAreExplained
  BY DEF SessionInv
<1> QED
  BY <1>1, <1>2, SessionsBegin, AlwaysTabled, AlwaysLocks, PTL DEF Spec
===============================================================================
