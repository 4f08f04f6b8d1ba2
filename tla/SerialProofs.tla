----------------------------- MODULE SerialProofs ------------------------------
(***************************************************************************)
(* What holds at the desks when requests are served one after the other,    *)
(* wherever the server ends.                                                *)
(***************************************************************************)
EXTENDS RecordsProofs

(***************************************************************************)
(* One request at a time: a handler starts when all before it have ended,   *)
(* and while it is at work nobody after it has begun.                       *)
(***************************************************************************)
Starting(r) == \E op : CanStart(r, op)

LEMMA PeopleTurn ==
  ASSUME NEW r \in Req,
         \/ GuarantorsStep(r) \/ AccountsStep(r) \/ MembershipStep(r) \/ MeetingsStep(r)
  PROVE  Starting(r) \/ r \in InFlight
<1> USE DEF Starting, InFlight, Ended, At
<1>1. CASE GuarantorsStep(r)
  BY <1>1 DEF GuarantorsStep, Invite, InsertGuarantor, InsertLink, Resend, RenewToken, Accept,
     CheckAccount, AccountExists, AcceptTransaction, Decline, MarkDeclined, ClearToken, FindLinked,
     StatementRefused
<1>2. CASE AccountsStep(r)
  BY <1>2 DEF AccountsStep, WrongPassword, CountFailure, RightPassword, ResetFailures,
     CreateChallenge, VerifyMfa, GetSecret, CodeRefused, UseChallenge, ReadPermissions,
     InsertSession, MarkActive, UseSession, RefreshToken, ExpireSession, Logout, ReadAccount,
     ChangeAccount, CloseAll, FindSetupToken, SetPassword, CreateUser, InsertUser, UserExists,
     InsertRole, UpdateUser, SaveUser, RevokeRole, AssignRole, EnableMfa, SetMfaFlag
<1>3. CASE MembershipStep(r)
  BY <1>3 DEF MembershipStep, Apply, FindWish, FindPass, Blacklist, VerifyPass, CheckMember,
     InsertRequest, CheckOwner, Provision, ProvisionRefused, RejectWish, RevokePass
<1>4. CASE MeetingsStep(r)
  BY <1>4 DEF MeetingsStep, Schedule, Book, FindMeeting, LeaveMeeting, Rebook, MarkMeeting,
     TellStudent, TellGuarantor
<1> QED
  BY <1>1, <1>2, <1>3, <1>4

LEMMA FilesTurn ==
  ASSUME NEW r \in Req,
         \/ PolicyStep(r) \/ DocumentsStep(r) \/ UniversitiesStep(r) \/ AssessmentStep(r)
  PROVE  Starting(r) \/ r \in InFlight
<1> USE DEF Starting, InFlight, Ended, At
<1>1. CASE PolicyStep(r)
  BY <1>1 DEF PolicyStep, Propose, InsertProposal, FindProposal, Approve, Invalidate, CacheHit,
     ReadPolicies, RecordConflict, NoConflict, FillCache
<1>2. CASE DocumentsStep(r)
  BY <1>2 DEF DocumentsStep, RequestUpload, InsertDocument, FindUpload, MarkUploaded,
     ListDocument, ReadForReview, MarkReviewed, MarkEntry, ReadForView, LogView
<1>3. CASE UniversitiesStep(r)
  BY <1>3 DEF UniversitiesStep, FindName, FindUniversity, StoreName, LinkAccount, LinkUniversity,
     Draft, InsertAgreement, InsertTranche, TranchesRefused, FindAgreement, ExpireOthers, Enact,
     Suspend, OpenEvent
<1>4. CASE AssessmentStep(r)
  BY <1>4 DEF AssessmentStep, Answer, Upsert, UpdateTotal, Incomplete, ReadRow, Submit,
     StartInterview, LogCorrection, Rescore
<1> QED
  BY <1>1, <1>2, <1>3, <1>4

LEMMA CoreTurn ==
  ASSUME NEW r \in Req, CoreStep(r)
  PROVE  Starting(r) \/ r \in InFlight
<1> USE DEF Starting, InFlight, Ended, At
<1>1. CASE ContractsStep(r)
  BY <1>1 DEF ContractsStep, GenerateRead, Send, SignRead, ReadVersion, PutTerms, InsertContract,
     FindDraft, NoDraft, MarkSent, InsertSignature, CountSignatures, MarkSigned
<1>2. CASE ExecutionStep(r)
  BY <1>2 DEF ExecutionStep, Lookup, Replay, InsertLedger, MarkExecuting, BeginTransaction,
     UnknownAction, Disburse, QueueEvent, EndTransaction, Commit, MarkFailed, ReadOutbox,
     HandleEvent, EventFails, RetryEvent, Drained
<1>3. CASE ScoreStep(r)
  BY <1>3 DEF ScoreStep, RecordEvent, FindOriginal, GetScore, Reconcile, ReadBalance, InsertEvent,
     WriteBalance, SumDimension, Summed, ReadCeiling, WriteScore, CheckCorrective, Supersede,
     InsertCorrective, DuplicateCorrective, CheckCeiling, LiftCeiling, InsertScore,
     InitializeBalance, Compare, Report
<1> QED
  BY <1>1, <1>2, <1>3 DEF CoreStep

InTurn == \A r \in Req : req[r].pc = "idle" \/ r \in InFlight =>
            \A q \in Req : q > r => req[q].pc = "idle"

\* It is r's turn.
Turn(r) == \A q \in Req : /\ q < r => req[q].pc \in Ended
                          /\ q > r => req[q].pc = "idle"

LEMMA StartsInTurn ==
  ASSUME MaxInFlight <= 1, InTurn, NEW r \in Req, Starting(r)
  PROVE  Turn(r) /\ req[r].pc = "idle"
<1>1. /\ req[r].pc = "idle"
      /\ \A q \in 1..(r - 1) : req[q].pc # "idle"
      /\ Cardinality(InFlight) < MaxInFlight
  BY DEF Starting, CanStart
<1>2. IsFiniteSet(InFlight)
  BY ReqIsFinite, FS_Subset DEF InFlight
<1>3. InFlight = {}
  <2>1. Cardinality(InFlight) \in Nat /\ MaxInFlight \in Nat
    BY <1>2, FS_CardinalityType, ServerAssumption
  <2>2. Cardinality(InFlight) = 0
    BY <1>1, <2>1
  <2> QED
    BY <1>2, <2>2, FS_EmptySet
<1>4. \A q \in Req : q < r => q \in 1..(r - 1)
  BY ServerAssumption DEF Req
<1> QED
  BY <1>1, <1>3, <1>4 DEF InTurn, Turn, InFlight

LEMMA WorksInTurn ==
  ASSUME InTurn, NEW r \in InFlight
  PROVE  Turn(r)
<1>1. r \in Req
  BY DEF InFlight
<1> QED
  BY <1>1, ServerAssumption DEF InTurn, Turn, InFlight, Ended, Req

LEMMA TurnOfStep ==
  ASSUME MaxInFlight <= 1, InTurn, NEW r \in Req, Step(r) \/ Break(r)
  PROVE  Turn(r) /\ (req[r].pc = "idle" \/ r \in InFlight)
<1>1. Starting(r) \/ r \in InFlight
  BY PeopleTurn, FilesTurn, CoreTurn DEF Step, Break, Throw, Crash
<1> QED
  BY <1>1, StartsInTurn, WorksInTurn

LEMMA AlwaysInTurn ==
  ASSUME MaxInFlight <= 1
  PROVE  Spec => []InTurn
<1>1. Init => InTurn
  BY DEF Init, ServerInit, InTurn
<1>2. Tabled /\ InTurn /\ [Next]_vars => InTurn'
  <2> SUFFICES ASSUME Tabled, InTurn, [Next]_vars PROVE InTurn'
    OBVIOUS
  <2>1. CASE UNCHANGED vars
    BY <2>1 DEF vars, server, InTurn, InFlight
  <2>2. ASSUME NEW r \in Req, Step(r) \/ Break(r)
        PROVE  InTurn'
    <3>1. Turn(r)
      BY <2>2, TurnOfStep
    <3>2. \A q \in Req : q # r => req'[q] = req[q]
      BY <2>2, StepKeeps, BreakKeeps DEF Keeps
    <3> QED
      BY <3>1, <3>2, ServerAssumption DEF Turn, InTurn, InFlight, Ended, Req
  <2> QED
    BY <2>1, <2>2 DEF Next
<1> QED
  BY <1>1, <1>2, AlwaysTabled, PTL DEF Spec

\* A statement that fails, or the end of the process, and where it leaves the handler.
LEMMA BreakEnds ==
  ASSUME Tabled, NEW r \in Req, Break(r)
  PROVE  /\ UNCHANGED core
         /\ \A q \in Req : q # r => req'[q] = req[q]
         /\ req[r].pc \notin Ended /\ req'[r].op = req[r].op
         /\ \/ req[r].catch # None
               /\ req'[r] = [req[r] EXCEPT !.pc = req[r].catch, !.catch = "failed"]
            \/ req'[r] = [req[r] EXCEPT !.pc = "died"]
<1>1. UNCHANGED core /\ \A q \in Req : q # r => req'[q] = req[q]
  BY BreakKeeps DEF Break, Keeps
<1>2. r \in InFlight /\ req'[r].op = req[r].op
  BY BreakKeeps DEF Keeps
<1>3. CASE Throw(r)
  BY <1>1, <1>2, <1>3 DEF Throw, Raise, Tabled, InFlight
<1>4. CASE Crash(r)
  BY <1>1, <1>2, <1>4 DEF Crash, Tabled, InFlight
<1> QED
  BY <1>3, <1>4 DEF Break

-------------------------------------------------------------------------------
(***************************************************************************)
(* Universities and their agreements.                                       *)
(***************************************************************************)

LEMMA AtUniversities ==
  ASSUME Tabled, NEW r \in Req, Step(r)
  PROVE  \/ UniversitiesStep(r) /\ Handles(r, UniversityOps)
         \/ UNCHANGED colleges /\ Away(r, UniversityOps)
<1>1. UniversityOps \in Endpoints
  BY DEF Endpoints
<1>2. CASE UniversitiesStep(r) /\ Handles(r, UniversityOps)
  BY <1>2
<1>3. CASE ~(UniversitiesStep(r) /\ Handles(r, UniversityOps))
  <2>1. UNCHANGED colleges
    BY <1>3 DEF Step, people, files
  <2>2. "found" \in UniversityOps
        /\ "found" \notin CoreOps \cup GuarantorOps \cup AccountOps \cup MembershipOps
                           \cup MeetingOps \cup PolicyOps \cup DocumentOps \cup AssessmentOps
    BY DEF CoreOps, GuarantorOps, AccountOps, MembershipOps, MeetingOps,
           PolicyOps, DocumentOps, UniversityOps, AssessmentOps
  <2>3. \E ops \in Endpoints \ {UniversityOps} : Handles(r, ops) /\ Keeps(r, ops)
    BY <1>3, <2>2, CoreKeeps, GuarantorKeeps, AccountKeeps, MembershipKeeps, MeetingKeeps,
       PolicyKeeps, DocumentKeeps, AssessmentKeeps DEF Step, Endpoints
  <2> QED
    BY <2>1, <2>3, <1>1, ElsewhereIsAway
<1> QED
  BY <1>2, <1>3

CollegeRow ==
  [op : UniversityOps,
   pc : {"insert", "user", "serves", "agreement", "refused", "tranche", "expire", "enact", "event"}
        \cup Ended,
   catch : {"failed"}, back : {"done"}, on : University, name : Name \cup {None},
   user : Portal \cup {None}, todo : SUBSET (Tranche \cup Enrolled), valid : BOOLEAN]

CollegePlaced(r) ==
  req[r].op \in UniversityOps =>
    /\ req[r] \in CollegeRow
    /\ req[r].op \in {"found", "rename"} => req[r].pc \in {"insert"} \cup Ended
    /\ req[r].op = "link" => req[r].pc \in {"user", "serves"} \cup Ended /\ req[r].user \in Portal
    /\ req[r].op = "draft" => /\ req[r].pc \in {"agreement", "refused", "tranche"} \cup Ended
                              /\ req[r].todo \subseteq Tranche
    /\ req[r].op = "enact" => /\ req[r].pc \in {"expire", "enact"} \cup Ended
                              /\ req[r].on \in Agreement /\ agreement[req[r].on] # "absent"
    /\ req[r].op = "suspend" => /\ req[r].pc \in {"event"} \cup Ended
                                /\ req[r].todo \subseteq Enrolled

\* An agreement is named by a handler that is past its insertion.
Drafted(r) == req[r].op = "draft" /\ req[r].pc # "agreement"

CollegeInv == /\ UniversitiesTypeOK
              /\ \A r \in Req : CollegePlaced(r)
              /\ \A r \in Req : agreement[r] # "absent" => Drafted(r)

LEMMA CollegeBegins == Init => CollegeInv
<1> SUFFICES ASSUME Init PROVE CollegeInv
  OBVIOUS
<1>1. \A r \in Req : req[r].op \notin UniversityOps
  BY DEF Init, ServerInit, UniversityOps
<1>2. UniversitiesTypeOK
  <2>1. PICK n \in Varying(UniversityOps, Name) :
               university = [u \in University |-> [name |-> IF u = 0 THEN n ELSE None, user |-> None]]
    BY DEF Init, UniversitiesInit
  <2>2. n \in Name
    BY <2>1, VaryingIn, UniversitiesAssumption
  <2> QED
    BY <2>1, <2>2 DEF Init, UniversitiesInit, UniversitiesTypeOK, AgreementStatus
<1>3. \A r \in Req : agreement[r] = "absent"
  BY ServerAssumption DEF Init, UniversitiesInit, Agreement, Req
<1> QED
  BY <1>1, <1>2, <1>3 DEF CollegeInv, CollegePlaced

LEMMA CollegeAtWork ==
  ASSUME Tabled, CollegeInv, NEW r \in Req, Handles(r, UniversityOps), req[r].pc # "idle"
  PROVE  req[r].op \in UniversityOps /\ CollegePlaced(r) /\ req[r] \in CollegeRow
BY DEF Tabled, CollegeInv, CollegePlaced, Handles

LEMMA AgreementsStay ==
  ASSUME Tabled, CollegeInv, NEW r \in Req, Handles(r, UniversityOps), UniversitiesStep(r)
  PROVE  \A a \in Agreement : agreement[a] # "absent" => agreement'[a] # "absent"
<1> USE DEF CollegeInv, UniversitiesTypeOK
<1>1. CASE InsertAgreement(r) \/ ExpireOthers(r) \/ Enact(r)
  BY <1>1 DEF InsertAgreement, ExpireOthers, Enact
<1>2. CASE ~(InsertAgreement(r) \/ ExpireOthers(r) \/ Enact(r))
  BY <1>2 DEF UniversitiesStep, FindName, FindUniversity, StoreName, LinkAccount, LinkUniversity,
     Draft, InsertTranche, TranchesRefused, FindAgreement, Suspend, OpenEvent, colleges
<1> QED
  BY <1>1, <1>2

LEMMA CollegeStarts ==
  ASSUME Tabled, CollegeInv, NEW r \in Req, Handles(r, UniversityOps),
         FindName(r) \/ FindUniversity(r) \/ Draft(r) \/ FindAgreement(r) \/ Suspend(r)
  PROVE  /\ CollegePlaced(r)' /\ UNCHANGED colleges
         /\ req[r].pc = "idle" /\ req'[r].op \in UniversityOps
         /\ req'[r].op = "enact" =>
              req'[r].pc = "expire" /\ req'[r].on \in Agreement /\ agreement[req'[r].on] = "draft"
         /\ req'[r].op = "draft" => req'[r].pc = "agreement"
<1> USE DEF UniversityOps, UniversityCall, CanStart
<1>1. CASE FindName(r)
  <2>1. PICK n \in Name : Begin(r, [UniversityCall("found", "insert", r) EXCEPT !.name = n])
    BY <1>1 DEF FindName
  <2>2. req'[r] = [UniversityCall("found", "insert", r) EXCEPT !.name = n]
    BY <2>1, BeginKeeps
  <2> QED
    BY <1>1, <2>2 DEF FindName, CollegePlaced, CollegeRow, University
<1>2. CASE FindUniversity(r)
  <2>1. PICK u \in Founded :
          \/ \E n \in Name : Begin(r, [UniversityCall("rename", "insert", u) EXCEPT !.name = n])
          \/ \E p \in Portal : Begin(r, [UniversityCall("link", "user", u) EXCEPT !.user = p])
    BY <1>2 DEF FindUniversity
  <2>2. u \in University
    BY <2>1 DEF Founded
  <2>3. CASE \E n \in Name : Begin(r, [UniversityCall("rename", "insert", u) EXCEPT !.name = n])
    <3>1. PICK n \in Name : Begin(r, [UniversityCall("rename", "insert", u) EXCEPT !.name = n])
      BY <2>3
    <3>2. req'[r] = [UniversityCall("rename", "insert", u) EXCEPT !.name = n]
      BY <3>1, BeginKeeps
    <3> QED
      BY <1>2, <2>2, <3>2 DEF FindUniversity, CollegePlaced, CollegeRow
  <2>4. CASE \E p \in Portal : Begin(r, [UniversityCall("link", "user", u) EXCEPT !.user = p])
    <3>1. PICK p \in Portal : Begin(r, [UniversityCall("link", "user", u) EXCEPT !.user = p])
      BY <2>4
    <3>2. req'[r] = [UniversityCall("link", "user", u) EXCEPT !.user = p]
      BY <3>1, BeginKeeps
    <3> QED
      BY <1>2, <2>2, <3>2 DEF FindUniversity, CollegePlaced, CollegeRow
  <2> QED
    BY <2>1, <2>3, <2>4
<1>3. CASE Draft(r)
  <2>1. PICK ts \in {{}, Tranche}, valid \in BOOLEAN :
          Begin(r, [UniversityCall("draft", "agreement", r) EXCEPT !.todo = ts, !.valid = valid])
    BY <1>3 DEF Draft
  <2>2. req'[r] = [UniversityCall("draft", "agreement", r) EXCEPT !.todo = ts, !.valid = valid]
    BY <2>1, BeginKeeps
  <2> QED
    BY <1>3, <2>2 DEF Draft, CollegePlaced, CollegeRow, University
<1>4. CASE FindAgreement(r)
  <2>1. PICK a \in Agreement : /\ agreement[a] = "draft"
                               /\ Begin(r, UniversityCall("enact", "expire", a))
    BY <1>4 DEF FindAgreement
  <2>2. req'[r] = UniversityCall("enact", "expire", a)
    BY <2>1, BeginKeeps
  <2> QED
    BY <1>4, <2>1, <2>2 DEF FindAgreement, CollegePlaced, CollegeRow, University, Agreement, colleges
<1>5. CASE Suspend(r)
  <2>1. PICK affected \in SUBSET Enrolled :
          Begin(r, [UniversityCall("suspend", IF affected = {} THEN "done" ELSE "event", 0)
                      EXCEPT !.todo = affected])
    BY <1>5 DEF Suspend
  <2>2. req'[r] = [UniversityCall("suspend", IF affected = {} THEN "done" ELSE "event", 0)
                     EXCEPT !.todo = affected]
    BY <2>1, BeginKeeps
  <2> QED
    BY <1>5, <2>2 DEF Suspend, CollegePlaced, CollegeRow, University, Ended
<1> QED
  BY <1>1, <1>2, <1>3, <1>4, <1>5

LEMMA CollegeGoes ==
  ASSUME Tabled, CollegeInv, NEW r \in Req, Handles(r, UniversityOps), UniversitiesStep(r),
         req[r].pc # "idle"
  PROVE  /\ CollegePlaced(r)'
         /\ req'[r].op = req[r].op /\ req'[r].on = req[r].on
         /\ req'[r].pc \notin {"agreement", "expire"}
         /\ \A q \in Req : q # r => req'[q] = req[q]
<1>1. req[r].op \in UniversityOps /\ CollegePlaced(r) /\ req[r] \in CollegeRow
  BY CollegeAtWork
<1>2. req[r].op # "none" /\ (req[r].op = "enact" => agreement'[req[r].on] # "absent")
  BY <1>1, AgreementsStay DEF UniversityOps, CollegePlaced
<1>3. ASSUME NEW pc \in {"serves", "refused", "tranche", "enact", "done"}, Goto(r, pc),
             pc = "serves" => req[r].op = "link",
             pc \in {"refused", "tranche"} => req[r].op = "draft",
             pc = "enact" => req[r].op = "enact"
      PROVE  /\ CollegePlaced(r)' /\ req'[r].op = req[r].op /\ req'[r].on = req[r].on
             /\ req'[r].pc \notin {"agreement", "expire"}
             /\ \A q \in Req : q # r => req'[q] = req[q]
  <2>1. req'[r] = [req[r] EXCEPT !.pc = pc] /\ \A q \in Req : q # r => req'[q] = req[q]
    BY <1>2, <1>3, GotoKeeps DEF Keeps
  <2>2. req'[r] \in CollegeRow
    BY <1>1, <1>3, <2>1 DEF CollegeRow, Ended
  <2> QED
    BY <1>1, <1>2, <1>3, <2>1, <2>2 DEF CollegePlaced, CollegeRow, Ended
<1>4. CASE FindName(r) \/ FindUniversity(r) \/ Draft(r) \/ FindAgreement(r) \/ Suspend(r)
  BY <1>4 DEF FindName, FindUniversity, Draft, FindAgreement, Suspend, CanStart
<1>5. CASE StoreName(r)
  BY <1>3, <1>5 DEF StoreName
<1>6. CASE LinkAccount(r)
  BY <1>1, <1>3, <1>6 DEF LinkAccount, At, CollegePlaced, CollegeRow, UniversityOps, Ended
<1>7. CASE LinkUniversity(r)
  BY <1>3, <1>7 DEF LinkUniversity
<1>8. CASE InsertAgreement(r)
  <2>1. req[r].op = "draft"
    BY <1>1, <1>8 DEF InsertAgreement, At, CollegePlaced, CollegeRow, UniversityOps, Ended
  <2> QED
    BY <1>3, <1>8, <2>1 DEF InsertAgreement
<1>9. CASE InsertTranche(r) \/ OpenEvent(r)
  <2>1. PICK t \in req[r].todo :
          req' = [req EXCEPT ![r].todo = @ \ {t}, ![r].pc = IF req[r].todo = {t} THEN "done" ELSE @]
    BY <1>9 DEF InsertTranche, OpenEvent
  <2>2. req'[r] = [req[r] EXCEPT !.todo = @ \ {t}, !.pc = IF req[r].todo = {t} THEN "done" ELSE @]
        /\ \A q \in Req : q # r => req'[q] = req[q]
    BY <2>1 DEF Tabled
  <2>3. req'[r] \in CollegeRow
    BY <1>1, <2>2 DEF CollegeRow, Ended
  <2>4. req[r].pc \in {"tranche", "event"}
    BY <1>9 DEF InsertTranche, OpenEvent, At
  <2>5. /\ req'[r].op = req[r].op /\ req'[r].on = req[r].on /\ req'[r].user = req[r].user
        /\ req'[r].pc \in {req[r].pc, "done"} /\ req'[r].todo \subseteq req[r].todo
    BY <1>1, <2>2 DEF CollegeRow
  <2> QED
    BY <1>1, <1>2, <2>2, <2>3, <2>4, <2>5 DEF CollegePlaced, Ended
<1>10. CASE TranchesRefused(r)
  <2>1. req'[r] = [req[r] EXCEPT !.pc = "failed", !.catch = "failed"]
        /\ \A q \in Req : q # r => req'[q] = req[q]
    BY <1>1, <1>2, <1>10, RaiseKeeps DEF TranchesRefused, Keeps, CollegeRow
  <2>2. req'[r] \in CollegeRow
    BY <1>1, <2>1 DEF CollegeRow, Ended
  <2> QED
    BY <1>1, <1>2, <2>1, <2>2 DEF CollegePlaced, CollegeRow, Ended
<1>11. CASE ExpireOthers(r)
  <2>1. req[r].op = "enact"
    BY <1>1, <1>11 DEF ExpireOthers, At, CollegePlaced, CollegeRow, UniversityOps, Ended
  <2> QED
    BY <1>3, <1>11, <2>1 DEF ExpireOthers
<1>12. CASE Enact(r)
  BY <1>3, <1>12 DEF Enact
<1> QED
  BY <1>4, <1>5, <1>6, <1>7, <1>8, <1>9, <1>10, <1>11, <1>12 DEF UniversitiesStep

LEMMA CollegesStored ==
  ASSUME Tabled, CollegeInv, NEW r \in Req, Handles(r, UniversityOps), UniversitiesStep(r),
         req[r].pc # "idle"
  PROVE  UniversitiesTypeOK'
<1>1. req[r].op \in UniversityOps /\ CollegePlaced(r) /\ req[r] \in CollegeRow
  BY CollegeAtWork
<1> USE DEF CollegeInv, UniversitiesTypeOK, CollegeRow, University, Agreement, AgreementStatus
<1>2. CASE StoreName(r) \/ LinkAccount(r)
  <2>1. LinkAccount(r) => req[r].user \in Portal
    BY <1>1 DEF LinkAccount, At, CollegePlaced, UniversityOps, Ended
  <2> QED
    BY <1>1, <1>2, <2>1 DEF StoreName, LinkAccount
<1>3. CASE LinkUniversity(r)
  BY <1>1, <1>3 DEF LinkUniversity
<1>4. CASE InsertAgreement(r) \/ ExpireOthers(r) \/ Enact(r)
  BY <1>1, <1>4 DEF InsertAgreement, ExpireOthers, Enact
<1>5. CASE InsertTranche(r)
  <2>1. PICK t \in req[r].todo : tranches' = [tranches EXCEPT ![r] = @ \cup {t}]
    BY <1>5 DEF InsertTranche
  <2>2. req[r].todo \subseteq Tranche
    BY <1>1, <1>5 DEF InsertTranche, At, CollegePlaced, UniversityOps, Ended
  <2> QED
    BY <1>5, <2>1, <2>2 DEF InsertTranche
<1>6. CASE OpenEvent(r)
  <2>1. PICK s \in req[r].todo : opened' = [opened EXCEPT ![s] = @ + 1]
    BY <1>6 DEF OpenEvent
  <2>2. req[r].todo \subseteq Enrolled
    BY <1>1, <1>6 DEF OpenEvent, At, CollegePlaced, UniversityOps, Ended
  <2> QED
    BY <1>6, <2>1, <2>2 DEF OpenEvent
<1>7. CASE TranchesRefused(r)
  BY <1>7 DEF TranchesRefused, colleges
<1> QED
  BY <1>2, <1>3, <1>4, <1>5, <1>6, <1>7 DEF UniversitiesStep, FindName, FindUniversity, Draft,
     FindAgreement, Suspend, CanStart

LEMMA DraftedAfter ==
  ASSUME Tabled, CollegeInv, NEW r \in Req, Handles(r, UniversityOps), UniversitiesStep(r),
         req[r].pc # "idle"
  PROVE  \A q \in Req : agreement'[q] # "absent" => Drafted(q)'
<1>1. /\ req[r].op \in UniversityOps /\ CollegePlaced(r) /\ req[r] \in CollegeRow
      /\ req'[r].op = req[r].op /\ req'[r].pc # "agreement"
      /\ \A q \in Req : q # r => req'[q] = req[q]
  BY CollegeAtWork, CollegeGoes
<1>2. \A q \in Req : Drafted(q) => Drafted(q)'
  BY <1>1 DEF Drafted
<1> USE DEF CollegeInv, UniversitiesTypeOK, Agreement
<1>3. CASE InsertAgreement(r)
  <2>1. req[r].op = "draft"
    BY <1>1, <1>3 DEF InsertAgreement, At, CollegePlaced, UniversityOps, Ended
  <2>2. Drafted(r)' /\ \A q \in Req : q # r => agreement'[q] = agreement[q]
    BY <1>1, <1>3, <2>1 DEF InsertAgreement, Drafted
  <2> QED
    BY <1>2, <2>2
<1>4. CASE ExpireOthers(r)
  <2>1. \A q \in Req : agreement'[q] # "absent" => agreement[q] # "absent"
    BY <1>4 DEF ExpireOthers, Expirable
  <2> QED
    BY <1>2, <2>1
<1>5. CASE Enact(r)
  <2>1. \A q \in Req : agreement'[q] # "absent" => agreement[q] # "absent"
    BY <1>1, <1>5 DEF Enact, At, CollegePlaced, UniversityOps, Ended
  <2> QED
    BY <1>2, <2>1
<1>6. CASE ~(InsertAgreement(r) \/ ExpireOthers(r) \/ Enact(r))
  <2>1. UNCHANGED agreement
    BY <1>6 DEF UniversitiesStep, FindName, FindUniversity, StoreName, LinkAccount,
       LinkUniversity, Draft, InsertTranche, TranchesRefused, FindAgreement, Suspend, OpenEvent,
       colleges
  <2> QED
    BY <1>2, <2>1
<1> QED
  BY <1>3, <1>4, <1>5, <1>6

LEMMA CollegeMoves ==
  ASSUME Tabled, CollegeInv, NEW r \in Req, Handles(r, UniversityOps), UniversitiesStep(r)
  PROVE  CollegeInv'
<1>1. \A q \in Req : q # r => req'[q] = req[q] /\ CollegePlaced(q)'
  BY UniversityKeeps, AgreementsStay DEF Keeps, CollegeInv, CollegePlaced
<1>2. CASE req[r].pc = "idle"
  <2>1. FindName(r) \/ FindUniversity(r) \/ Draft(r) \/ FindAgreement(r) \/ Suspend(r)
    BY <1>2 DEF UniversitiesStep, StoreName, LinkAccount, LinkUniversity, InsertAgreement,
       InsertTranche, TranchesRefused, ExpireOthers, Enact, OpenEvent, At
  <2>2. CollegePlaced(r)' /\ UNCHANGED colleges
    BY <2>1, CollegeStarts
  <2>3. agreement[r] = "absent"
    BY <1>2 DEF CollegeInv, CollegePlaced, Drafted, UniversityOps, Ended
  <2> QED
    BY <1>1, <2>2, <2>3 DEF CollegeInv, UniversitiesTypeOK, colleges, Drafted
<1>3. CASE req[r].pc # "idle"
  BY <1>1, <1>3, CollegeGoes, CollegesStored, DraftedAfter DEF CollegeInv
<1> QED
  BY <1>2, <1>3

LEMMA AlwaysColleges == Spec => []CollegeInv
<1>1. Tabled /\ CollegeInv /\ [Next]_vars => CollegeInv'
  <2> SUFFICES ASSUME Tabled, CollegeInv, [Next]_vars PROVE CollegeInv'
    OBVIOUS
  <2>1. CASE UNCHANGED vars
    BY <2>1 DEF vars, server, files, colleges, CollegeInv, UniversitiesTypeOK, CollegePlaced, Drafted
  <2>2. ASSUME NEW r \in Req, UNCHANGED colleges, \A q \in Req : q # r => req'[q] = req[q],
               CollegePlaced(r)', Drafted(r) => Drafted(r)'
        PROVE  CollegeInv'
    <3>1. \A q \in Req : CollegePlaced(q)' /\ (Drafted(q) => Drafted(q)')
      BY <2>2 DEF CollegeInv, CollegePlaced, colleges, Drafted
    <3> QED
      BY <2>2, <3>1 DEF CollegeInv, UniversitiesTypeOK, colleges
  <2>3. ASSUME NEW r \in Req, UNCHANGED colleges, Away(r, UniversityOps)
        PROVE  CollegeInv'
    BY <2>2, <2>3 DEF Away, CollegePlaced, Drafted, UniversityOps
  <2>4. ASSUME NEW r \in Req, Break(r)
        PROVE  CollegeInv'
    <3>1. /\ UNCHANGED colleges
          /\ \A q \in Req : q # r => req'[q] = req[q]
          /\ req'[r].op = req[r].op
          /\ \/ req'[r] = [req[r] EXCEPT !.pc = req[r].catch, !.catch = "failed"]
             \/ req'[r] = [req[r] EXCEPT !.pc = "died"]
      BY <2>4, BreakKeeps DEF Break, files, Keeps
    <3>2. CASE req[r].op \notin UniversityOps
      BY <2>2, <3>1, <3>2 DEF CollegePlaced, Drafted, UniversityOps
    <3>3. CASE req[r].op \in UniversityOps
      <4>1. req[r] \in CollegeRow /\ CollegePlaced(r)
        BY <3>3 DEF CollegeInv, CollegePlaced
      <4>2. /\ req'[r] \in CollegeRow /\ req'[r].pc \in {"failed", "died"}
            /\ req'[r].on = req[r].on /\ req'[r].user = req[r].user /\ req'[r].todo = req[r].todo
        BY <3>1, <4>1 DEF CollegeRow, Ended
      <4>3. CollegePlaced(r)'
        BY <3>1, <4>1, <4>2 DEF CollegePlaced, Ended, colleges
      <4> QED
        BY <2>2, <3>1, <4>2, <4>3 DEF Drafted
    <3> QED
      BY <3>2, <3>3
  <2> QED
    BY <2>1, <2>3, <2>4, AtUniversities, CollegeMoves DEF Next
<1> QED
  BY <1>1, CollegeBegins, AlwaysTabled, PTL DEF Spec

-------------------------------------------------------------------------------
(***************************************************************************)
(* Agreements, one request at a time.                                       *)
(***************************************************************************)
\* One agreement is in force, or somebody enacts the next (or died doing so).
InForceOrEnacting ==
  \/ \E a \in Agreement : \A b \in Agreement : agreement[b] = "active" <=> b = a
  \/ \E r \in Req : req[r].op = "enact" /\ req[r].pc \in {"enact", "died"}

\* Who approves an agreement works on a draft, and has expired all others.
Enacting(r) ==
  req[r].op = "enact" =>
    /\ req[r].pc \in {"expire", "enact"} => agreement[req[r].on] = "draft"
    /\ req[r].pc = "enact" => \A b \in Agreement : agreement[b] # "active"

AgreementInv == InForceOrEnacting /\ \A r \in Req : Enacting(r)

LEMMA AgreementBegins == Init => AgreementInv
<1> SUFFICES ASSUME Init PROVE AgreementInv
  OBVIOUS
<1>1. \A r \in Req : Enacting(r)
  BY DEF Init, ServerInit, Enacting
<1>2. 0 \in Agreement /\ \A b \in Agreement : agreement[b] = "active" <=> b = 0
  BY DEF Init, UniversitiesInit, Agreement
<1> QED
  BY <1>1, <1>2 DEF AgreementInv, InForceOrEnacting

LEMMA AgreementStep ==
  ASSUME Tabled, CollegeInv, AgreementInv, NEW r \in Req, Turn(r),
         Handles(r, UniversityOps), UniversitiesStep(r)
  PROVE  AgreementInv'
<1>1. \A q \in Req : /\ q # r => req'[q] = req[q]
                     /\ q # r => req[q].pc \notin {"expire", "enact"}
  <2>1. \A q \in Req : q # r => req'[q] = req[q]
    BY UniversityKeeps DEF Keeps
  <2> QED
    BY <2>1, ServerAssumption DEF Turn, Ended, Req
<1>2. \A q \in Req : q # r => Enacting(q)'
  BY <1>1 DEF Enacting
<1> USE DEF CollegeInv, UniversitiesTypeOK
<1>3. CASE req[r].pc = "idle"
  <2>1. FindName(r) \/ FindUniversity(r) \/ Draft(r) \/ FindAgreement(r) \/ Suspend(r)
    BY <1>3 DEF UniversitiesStep, StoreName, LinkAccount, LinkUniversity, InsertAgreement,
       InsertTranche, TranchesRefused, ExpireOthers, Enact, OpenEvent, At
  <2>2. UNCHANGED agreement /\ Enacting(r)'
    BY <2>1, CollegeStarts DEF colleges, Enacting
  <2>3. InForceOrEnacting'
    BY <1>1, <1>3, <2>2 DEF AgreementInv, InForceOrEnacting
  <2> QED
    BY <1>2, <2>2, <2>3 DEF AgreementInv
<1>4. CASE req[r].pc # "idle"
  <2>1. /\ req[r].op \in UniversityOps /\ CollegePlaced(r) /\ req[r] \in CollegeRow
        /\ req'[r].op = req[r].op /\ req'[r].on = req[r].on
        /\ req'[r].pc \notin {"agreement", "expire"}
    BY <1>4, CollegeAtWork, CollegeGoes
  <2>2. CASE ExpireOthers(r)
    <3>1. /\ req[r].op = "enact" /\ req[r].pc = "expire" /\ req'[r].pc = "enact"
          /\ agreement[req[r].on] = "draft"
      BY <2>1, <2>2 DEF ExpireOthers, At, CollegePlaced, UniversityOps, Ended, Goto, AgreementInv,
                        Enacting, Tabled
    <3>2. agreement'[req[r].on] = "draft" /\ \A b \in Agreement : agreement'[b] # "active"
      BY <2>1, <2>2, <3>1 DEF ExpireOthers, Expirable, CollegePlaced
    <3> QED
      BY <1>2, <2>1, <3>1, <3>2 DEF AgreementInv, Enacting, InForceOrEnacting
  <2>3. CASE Enact(r)
    <3>1. /\ req[r].op = "enact" /\ req[r].pc = "enact" /\ req'[r].pc = "done"
          /\ req[r].on \in Agreement
          /\ \A b \in Agreement : agreement[b] # "active"
      BY <2>1, <2>3 DEF Enact, At, CollegePlaced, UniversityOps, Ended, Goto, AgreementInv,
                        Enacting, Tabled
    <3>2. \A b \in Agreement : agreement'[b] = "active" <=> b = req[r].on
      BY <2>3, <3>1 DEF Enact
    <3>3. Enacting(r)'
      BY <2>1, <3>1 DEF Enacting
    <3> QED
      BY <1>2, <3>1, <3>2, <3>3 DEF AgreementInv, InForceOrEnacting
  <2>4. CASE ~ExpireOthers(r) /\ ~Enact(r)
    <3>1. req[r].op # "enact"
      BY <1>4, <2>1, <2>4 DEF UniversitiesStep, FindName, FindUniversity, StoreName, LinkAccount,
         LinkUniversity, Draft, InsertAgreement, InsertTranche, TranchesRefused, FindAgreement,
         Suspend, OpenEvent, At, CanStart, CollegePlaced, Ended
    <3>2. Enacting(r)'
      BY <2>1, <3>1 DEF Enacting
    <3>3. \A b \in Agreement : agreement'[b] = "active" <=> agreement[b] = "active"
      <4>1. CASE InsertAgreement(r)
        <5>1. agreement[r] # "active"
          BY <2>1, <4>1 DEF InsertAgreement, At, Drafted
        <5> QED
          BY <4>1, <5>1 DEF InsertAgreement
      <4>2. CASE ~InsertAgreement(r)
        BY <1>4, <2>4, <4>2 DEF UniversitiesStep, FindName, FindUniversity, StoreName, LinkAccount,
           LinkUniversity, Draft, InsertTranche, TranchesRefused, FindAgreement, Suspend, OpenEvent,
           colleges
      <4> QED
        BY <4>1, <4>2
    <3>4. InForceOrEnacting'
      BY <1>1, <3>1, <3>3 DEF AgreementInv, InForceOrEnacting
    <3> QED
      BY <1>2, <3>2, <3>4 DEF AgreementInv
  <2> QED
    BY <2>2, <2>3, <2>4
<1> QED
  BY <1>3, <1>4

\* The terms of a university are those of one agreement: whenever all have been
\* served, one agreement is in force (approveAgreement of universities.service.ts),
\* if requests are served one after the other and the second statement of an
\* approval, which is in no transaction, does not fail.
THEOREM AgreementInForce ==
  ASSUME MaxInFlight <= 1, "enact" \notin MayThrow
  PROVE  Spec => []OneAgreementInForce
<1>1. Tabled /\ InTurn /\ CollegeInv /\ AgreementInv /\ [Next]_vars => AgreementInv'
  <2> SUFFICES ASSUME Tabled, InTurn, CollegeInv, AgreementInv, [Next]_vars PROVE AgreementInv'
    OBVIOUS
  <2>1. CASE UNCHANGED vars
    BY <2>1 DEF vars, server, files, colleges, AgreementInv, InForceOrEnacting, Enacting
  <2>2. ASSUME NEW r \in Req, UNCHANGED colleges, \A q \in Req : q # r => req'[q] = req[q],
               Enacting(r)',
               req[r].op = "enact" /\ req[r].pc \in {"enact", "died"} =>
                 req'[r].op = "enact" /\ req'[r].pc = "died"
        PROVE  AgreementInv'
    BY <2>2 DEF AgreementInv, InForceOrEnacting, Enacting, colleges
  <2>3. ASSUME NEW r \in Req, UNCHANGED colleges, Away(r, UniversityOps)
        PROVE  AgreementInv'
    BY <2>2, <2>3 DEF Away, Enacting, UniversityOps
  <2>4. ASSUME NEW r \in Req, Break(r)
        PROVE  AgreementInv'
    <3>1. /\ UNCHANGED colleges
          /\ \A q \in Req : q # r => req'[q] = req[q]
          /\ req'[r].op = req[r].op
          /\ r \in InFlight
          /\ \/ req'[r] = [req[r] EXCEPT !.pc = req[r].catch, !.catch = "failed"]
                /\ req[r].op \in MayThrow
             \/ req'[r] = [req[r] EXCEPT !.pc = "died"]
      BY <2>4, BreakKeeps DEF Break, files, Keeps
    <3>2. CASE req[r].op # "enact"
      BY <2>2, <3>1, <3>2 DEF Enacting
    <3>3. CASE req[r].op = "enact"
      <4>1. req[r] \in CollegeRow
        BY <3>3 DEF CollegeInv, CollegePlaced, UniversityOps
      <4>2. req'[r].op = "enact" /\ req'[r].pc = "died"
        BY <3>1, <3>3, <4>1 DEF CollegeRow
      <4> QED
        BY <2>2, <3>1, <4>2 DEF Enacting
    <3> QED
      BY <3>2, <3>3
  <2>5. ASSUME NEW r \in Req, Step(r)
        PROVE  AgreementInv'
    BY <2>3, <2>5, AtUniversities, TurnOfStep, AgreementStep
  <2> QED
    BY <2>1, <2>4, <2>5 DEF Next
<1>2. AgreementInv => OneAgreementInForce
  <2> SUFFICES ASSUME AgreementInv, AllServed
               PROVE  Cardinality({a \in Agreement : agreement[a] = "active"}) = 1
    BY DEF OneAgreementInForce
  <2>1. PICK a \in Agreement : \A b \in Agreement : agreement[b] = "active" <=> b = a
    BY DEF AgreementInv, InForceOrEnacting, AllServed
  <2>2. {b \in Agreement : agreement[b] = "active"} = {a}
    BY <2>1
  <2> QED
    BY <2>2, FS_Singleton
<1> QED
  BY <1>1, <1>2, AgreementBegins, AlwaysTabled, AlwaysInTurn, AlwaysColleges, PTL DEF Spec

-------------------------------------------------------------------------------
(***************************************************************************)
(* Policy, one request at a time.                                           *)
(***************************************************************************)
Answers(v, ctx) ==
  /\ v \in InForce(ctx)
  /\ policy[v].scope = "student" \/ \A w \in InForce(ctx) : policy[w].scope # "student"

LEMMA ForemostAnswers ==
  ASSUME NEW v, NEW ctx
  PROVE  /\ v \in Foremost(InForce(ctx)) <=> Answers(v, ctx)
         /\ (v \in Foremost(InForce(ctx)) <=> Answers(v, ctx))'
BY DEF Foremost, Answers, InForce

OnePerScope == \A v, w \in PolicyVersion :
  policy[v].status = "active" /\ policy[w].status = "active" /\ policy[v].scope = policy[w].scope
    => v = w

\* An approval has changed what is in force, and not emptied the cache yet (or
\* died before it could).
Stale == \E r \in Req : req[r].op = "activate" /\ req[r].pc \in {"activate", "invalidate", "died"}
CacheHolds == \A ctx \in Context : cache[ctx] # None => Answers(cache[ctx], ctx)

\* Who approves a version has superseded the others of its scope; who resolves
\* holds what is in force.
Chosen(r) ==
  req[r].op \in PolicyOps =>
    /\ req[r].pc = "activate" =>
         \A v \in PolicyVersion : /\ policy[v].status = "active"
                                  /\ policy[v].scope = policy[req[r].version].scope
                                  => v = req[r].version
    /\ req[r].pc \in {"conflict", "fill"} => Answers(req[r].version, req[r].context)
    /\ req[r].catch = "fill" => req[r].pc \in {"conflict", "fill"} \cup Ended

CurrentInv == /\ OnePerScope
              /\ Stale \/ CacheHolds
              /\ \A r \in Req : Chosen(r)

LEMMA CurrentBegins == Init => CurrentInv
<1> SUFFICES ASSUME Init PROVE CurrentInv
  OBVIOUS
<1>1. \A r \in Req : Chosen(r)
  BY DEF Init, ServerInit, Chosen, PolicyOps
<1>2. CacheHolds
  BY DEF Init, PolicyInit, CacheHolds
<1>3. \A v \in PolicyVersion : policy[v].status = "active" => v = 0
  <2>1. PICK s \in Varying(PolicyOps, Scope) : policy =
       [v \in PolicyVersion |->
          CASE v = 0 -> [scope |-> "global", number |-> 1, begun |-> TRUE, status |-> "active"]
            [] v = Proposal -> [scope |-> s, number |-> IF s = "global" THEN 2 ELSE 1,
                                begun |-> TRUE, status |-> "draft"]
            [] OTHER -> [scope |-> "global", number |-> 0, begun |-> FALSE, status |-> "absent"]]
    BY DEF Init, PolicyInit
  <2> QED
    BY <2>1
<1> QED
  BY <1>1, <1>2, <1>3 DEF CurrentInv, OnePerScope

\* Nobody else is at work on the policy.
LEMMA PolicyAlone ==
  ASSUME Tabled, PolicyInv, NEW r \in Req, Turn(r), NEW q \in Req, q # r
  PROVE  /\ req[q].pc \in Ended \cup {"idle"}
         /\ req[q].op \in PolicyOps => req[q].pc \in Ended
<1>1. req[q].pc \in Ended \cup {"idle"}
  BY ServerAssumption DEF Turn, Req
<1>2. req[q].op \in PolicyOps => req[q].pc # "idle"
  BY DEF PolicyInv, PolicyPlaced, PolicyRow
<1> QED
  BY <1>1, <1>2

LEMMA ChosenOthers ==
  ASSUME Tabled, PolicyInv, NEW r \in Req, Turn(r), \A q \in Req : q # r => req'[q] = req[q],
         Chosen(r)'
  PROVE  \A q \in Req : Chosen(q)'
<1>1. ASSUME NEW q \in Req, q # r
      PROVE  Chosen(q)'
  <2>1. req'[q] = req[q] /\ (req[q].op \in PolicyOps => req[q].pc \in Ended)
    BY <1>1, PolicyAlone
  <2> QED
    BY <2>1 DEF Chosen, Ended
<1> QED
  BY <1>1

LEMMA StaleStays ==
  ASSUME Tabled, PolicyInv, NEW r \in Req, \A q \in Req : q # r => req'[q] = req[q], Stale,
         req[r].op = "activate" /\ req[r].pc \in {"activate", "invalidate", "died"} =>
           req'[r].op = "activate" /\ req'[r].pc \in {"activate", "invalidate", "died"}
  PROVE  Stale'
BY DEF Stale

\* What is in force does not change, nor does the cache.
LEMMA CurrentRests ==
  ASSUME Tabled, PolicyInv, CurrentInv, NEW r \in Req,
         \A q \in Req : q # r => req'[q] = req[q],
         UNCHANGED <<policy, cache>>, \A q \in Req : Chosen(q)',
         req[r].op = "activate" /\ req[r].pc \in {"activate", "invalidate", "died"} =>
           req'[r].op = "activate" /\ req'[r].pc \in {"activate", "invalidate", "died"}
  PROVE  CurrentInv'
<1>1. OnePerScope'
  BY DEF CurrentInv, OnePerScope
<1>2. Stale => Stale'
  BY StaleStays
<1>3. CacheHolds => CacheHolds'
  BY DEF CacheHolds, Answers, InForce
<1> QED
  BY <1>1, <1>2, <1>3 DEF CurrentInv

LEMMA PolicyStarts ==
  ASSUME Tabled, PolicyInv, CurrentInv, NEW r \in Req, Turn(r), Handles(r, PolicyOps),
         Propose(r) \/ FindProposal(r) \/ CacheHit(r) \/ ReadPolicies(r)
  PROVE  CurrentInv'
<1>1. req[r].pc = "idle" /\ UNCHANGED policies
  BY DEF Propose, FindProposal, CacheHit, ReadPolicies, CanStart
<1>2. \A q \in Req : q # r => req'[q] = req[q]
  BY PolicyKeeps DEF Keeps, PolicyStep
<1>3. ASSUME NEW h, Begin(r, h)
      PROVE  req'[r] = h
  BY <1>3 DEF Begin, Tabled
<1>4. Chosen(r)'
  <2>1. CASE Propose(r)
    <3>1. PICK s \in Scope, begun \in BOOLEAN :
            LET same == {v \in PolicyVersion : policy[v].scope = s} IN
            Begin(r, [PolicyCall("propose", "proposal", r, None) EXCEPT !.draft =
              [scope |-> s, number |-> Max({policy[v].number : v \in same} \cup {0}) + 1,
               begun |-> begun, status |-> "draft"]])
      BY <2>1 DEF Propose
    <3>2. PICK n : n = Max({policy[v].number :
                       v \in {v \in PolicyVersion : policy[v].scope = s}} \cup {0}) + 1
      OBVIOUS
    <3>3. req'[r] = [PolicyCall("propose", "proposal", r, None) EXCEPT !.draft =
                       [scope |-> s, number |-> n, begun |-> begun, status |-> "draft"]]
      BY <1>3, <3>1, <3>2
    <3>4. req'[r].pc = "proposal" /\ req'[r].catch = "failed"
      BY <3>3 DEF PolicyCall
    <3> QED
      BY <3>4 DEF Chosen
  <2>2. CASE FindProposal(r)
    <3>1. PICK v \in PolicyVersion : Begin(r, PolicyCall("activate", "supersede", v, None))
      BY <2>2 DEF FindProposal
    <3>2. req'[r].pc = "supersede" /\ req'[r].catch = "failed"
      BY <1>3, <3>1 DEF PolicyCall
    <3> QED
      BY <3>2 DEF Chosen
  <2>3. CASE CacheHit(r)
    <3>1. PICK ctx \in Context : Begin(r, PolicyCall("resolve", "done", cache[ctx], ctx))
      BY <2>3 DEF CacheHit
    <3>2. req'[r].pc = "done" /\ req'[r].catch = "failed"
      BY <1>3, <3>1 DEF PolicyCall
    <3> QED
      BY <3>2 DEF Chosen
  <2>4. CASE ReadPolicies(r)
    <3>1. PICK ctx \in Context :
            IF InForce(ctx) = {} THEN Begin(r, PolicyCall("resolve", "done", None, ctx))
            ELSE \E v \in Foremost(InForce(ctx)) :
              Begin(r, [PolicyCall("resolve", "conflict", v, ctx) EXCEPT
                          !.seen = InForce(ctx), !.doubled = Doubled(InForce(ctx)),
                          !.catch = "fill"])
      BY <2>4 DEF ReadPolicies
    <3>2. CASE InForce(ctx) = {}
      <4>1. req'[r].pc = "done" /\ req'[r].catch = "failed"
        BY <1>3, <3>1, <3>2 DEF PolicyCall
      <4> QED
        BY <4>1 DEF Chosen
    <3>3. CASE InForce(ctx) # {}
      <4>1. PICK v \in Foremost(InForce(ctx)) :
              Begin(r, [PolicyCall("resolve", "conflict", v, ctx) EXCEPT
                          !.seen = InForce(ctx), !.doubled = Doubled(InForce(ctx)),
                          !.catch = "fill"])
        BY <3>1, <3>3
      <4>2. PICK seen, doubled : seen = InForce(ctx) /\ doubled = Doubled(InForce(ctx))
        OBVIOUS
      <4>3. req'[r] = [PolicyCall("resolve", "conflict", v, ctx) EXCEPT
                         !.seen = seen, !.doubled = doubled, !.catch = "fill"]
        BY <1>3, <4>1, <4>2
      <4>4. req'[r].pc = "conflict" /\ req'[r].version = v /\ req'[r].context = ctx
        BY <4>3 DEF PolicyCall
      <4>5. Answers(v, ctx)'
        <5>1. Answers(v, ctx)
          BY <4>1, ForemostAnswers
        <5> QED
          BY <1>1, <5>1 DEF Answers, InForce, policies
      <4> QED
        BY <4>4, <4>5 DEF Chosen, Answers, Ended
    <3> QED
      BY <3>2, <3>3
  <2> QED
    BY <2>1, <2>2, <2>3, <2>4
<1> QED
  BY <1>1, <1>2, <1>4, ChosenOthers, CurrentRests DEF policies

LEMMA ProposalRests ==
  ASSUME Tabled, PolicyInv, CurrentInv, NEW r \in Req, Turn(r), Handles(r, PolicyOps),
         InsertProposal(r)
  PROVE  CurrentInv'
<1>1. /\ req[r] \in PolicyRow /\ req[r].op = "propose" /\ req[r].draft \in PolicyDraft
      /\ req[r].pc = "proposal"
  BY PolicyAtWork DEF InsertProposal, At, PolicyPlaced
<1>2. /\ req'[r].pc = "invalidate" /\ req'[r].op = "propose" /\ req'[r].catch = req[r].catch
      /\ \A q \in Req : q # r => req'[q] = req[q]
  BY <1>1, PolicyGoes DEF InsertProposal, At
<1>3. policy[r].status = "absent" /\ r \in PolicyVersion
  BY <1>1 DEF PolicyInv, PolicyRows, Proposed, PolicyVersion
<1>4. /\ policy'[r].status = "draft"
      /\ \A v \in PolicyVersion : v # r => policy'[v] = policy[v]
      /\ UNCHANGED cache
  BY <1>1, <1>3 DEF InsertProposal, PolicyInv, PolicyTypeOK, PolicyDraft
<1>5. \A q \in Req : Chosen(q)'
  <2>1. Chosen(r)'
    BY <1>1, <1>2 DEF Chosen, CurrentInv, Ended
  <2> QED
    BY <1>2, <2>1, ChosenOthers
<1>6. OnePerScope'
  BY <1>3, <1>4 DEF CurrentInv, OnePerScope
<1>7. Stale => Stale'
  BY <1>1, <1>2, StaleStays
<1>8. CacheHolds => CacheHolds'
  BY <1>3, <1>4 DEF CacheHolds, Answers, InForce
<1> QED
  BY <1>5, <1>6, <1>7, <1>8 DEF CurrentInv

LEMMA ApproveRests ==
  ASSUME Tabled, PolicyInv, CurrentInv, NEW r \in Req, Turn(r), Handles(r, PolicyOps), Approve(r)
  PROVE  CurrentInv'
<1> DEFINE w == req[r].version
<1>1. /\ req[r] \in PolicyRow /\ req[r].op = "activate" /\ w \in PolicyVersion
      /\ req[r].pc \in {"supersede", "activate"}
  BY PolicyAtWork DEF Approve, At, PolicyPlaced
<1>2. \E pc \in {"activate", "invalidate"} : Goto(r, pc)
  BY DEF Approve
<1>3. /\ req'[r].op = "activate" /\ req'[r].version = w /\ req'[r].catch = req[r].catch
      /\ req'[r].pc \in {"activate", "invalidate"}
      /\ \A q \in Req : q # r => req'[q] = req[q]
  BY <1>1, <1>2, PolicyGoes
<1>4. Stale'
  BY <1>3 DEF Stale
<1>5. \A v \in PolicyVersion :
        policy[v] \in [scope : Scope, number : Nat, begun : BOOLEAN, status : PolicyStatus]
  BY DEF PolicyInv, PolicyTypeOK
<1>6. req[r].catch # "fill"
  BY <1>1 DEF CurrentInv, Chosen, PolicyOps, Ended
<1>7. CASE req[r].pc = "supersede"
  <2>1. req'[r].pc = "activate" /\ policy' = Superseded(w)
    <3>1. Goto(r, "activate")
      BY <1>7 DEF Approve, At
    <3> QED
      BY <1>1, <1>7, <3>1, PolicyGoes DEF Approve, At
  <2>2. \A v \in PolicyVersion :
          /\ policy'[v].scope = policy[v].scope
          /\ policy'[v].status = "active" <=>
               policy[v].status = "active" /\ (v = w \/ policy[v].scope # policy[w].scope)
    <3> TAKE v \in PolicyVersion
    <3>1. policy'[v] = IF v # w /\ policy[v].scope = policy[w].scope /\ policy[v].status = "active"
                       THEN [policy[v] EXCEPT !.status = "superseded"] ELSE policy[v]
      BY <2>1 DEF Superseded, ActiveIn
    <3> QED
      BY <1>5, <3>1
  <2>3. Chosen(r)'
    BY <1>1, <1>3, <1>6, <2>1, <2>2 DEF Chosen
  <2>4. OnePerScope'
    BY <2>2 DEF CurrentInv, OnePerScope
  <2> QED
    BY <1>3, <1>4, <2>3, <2>4, ChosenOthers DEF CurrentInv
<1>8. CASE req[r].pc = "activate"
  <2>1. req'[r].pc = "invalidate" /\ policy' = Activated(w)
    <3>1. Goto(r, "invalidate")
      BY <1>8 DEF Approve, At
    <3> QED
      BY <1>1, <1>8, <3>1, PolicyGoes DEF Approve, At
  <2>2. /\ \A v \in PolicyVersion : v # w => policy'[v] = policy[v]
        /\ policy'[w].scope = policy[w].scope
    BY <1>1, <1>5, <2>1 DEF Activated, PolicyInv, PolicyTypeOK
  <2>3. \A v \in PolicyVersion :
          policy[v].status = "active" /\ policy[v].scope = policy[w].scope => v = w
    BY <1>1, <1>8 DEF CurrentInv, Chosen, PolicyOps
  <2>4. OnePerScope'
    BY <1>1, <2>2, <2>3 DEF CurrentInv, OnePerScope
  <2>5. Chosen(r)'
    BY <1>3, <1>6, <2>1 DEF Chosen
  <2> QED
    BY <1>3, <1>4, <2>4, <2>5, ChosenOthers DEF CurrentInv
<1> QED
  BY <1>1, <1>7, <1>8

LEMMA ResolveRests ==
  ASSUME Tabled, PolicyInv, CurrentInv, NEW r \in Req, Turn(r), Handles(r, PolicyOps),
         Invalidate(r) \/ RecordConflict(r) \/ NoConflict(r) \/ FillCache(r)
  PROVE  CurrentInv'
<1>1. /\ req[r] \in PolicyRow /\ req[r].op \in PolicyOps /\ PolicyPlaced(r) /\ Chosen(r)
      /\ req[r].pc \in {"invalidate", "conflict", "fill"}
      /\ UNCHANGED policy
  BY PolicyAtWork DEF Invalidate, RecordConflict, NoConflict, FillCache, At, CurrentInv, policies
<1>2. OnePerScope'
  BY <1>1 DEF CurrentInv, OnePerScope
<1>3. CASE Invalidate(r)
  <2>1. req'[r].pc = "done" /\ \A q \in Req : q # r => req'[q] = req[q]
    BY <1>1, <1>3, PolicyGoes DEF Invalidate
  <2>2. Chosen(r)'
    BY <2>1 DEF Chosen, Ended
  <2>3. CacheHolds'
    BY <1>3 DEF Invalidate, CacheHolds
  <2> QED
    BY <1>2, <2>1, <2>2, <2>3, ChosenOthers DEF CurrentInv
<1>4. CASE RecordConflict(r)
  <2>1. PICK s : req' = [req EXCEPT ![r].doubled = @ \ {s}]
    BY <1>4 DEF RecordConflict
  <2>2. /\ req'[r] = [req[r] EXCEPT !.doubled = @ \ {s}]
        /\ \A q \in Req : q # r => req'[q] = req[q]
    BY <2>1 DEF Tabled
  <2>3. /\ req'[r].op = req[r].op /\ req'[r].pc = req[r].pc /\ req'[r].catch = req[r].catch
        /\ req'[r].version = req[r].version /\ req'[r].context = req[r].context
    BY <1>1, <2>2 DEF PolicyRow
  <2>4. Chosen(r)' /\ req[r].pc = "conflict" /\ UNCHANGED cache
    BY <1>1, <1>4, <2>3 DEF Chosen, Answers, InForce, RecordConflict, At
  <2> QED
    BY <1>1, <2>2, <2>4, ChosenOthers, CurrentRests
<1>5. CASE NoConflict(r)
  <2>1. /\ req'[r].pc = "fill" /\ req'[r].op = req[r].op /\ req[r].pc = "conflict"
        /\ req'[r].version = req[r].version /\ req'[r].context = req[r].context
        /\ \A q \in Req : q # r => req'[q] = req[q]
        /\ UNCHANGED cache
    BY <1>1, <1>5, PolicyGoes DEF NoConflict, policies
  <2>2. Chosen(r)'
    BY <1>1, <2>1 DEF Chosen, Answers, InForce
  <2> QED
    BY <1>1, <2>1, <2>2, ChosenOthers, CurrentRests
<1>6. CASE FillCache(r)
  <2>1. /\ req'[r].pc = "done" /\ req[r].pc = "fill"
        /\ \A q \in Req : q # r => req'[q] = req[q]
    BY <1>1, <1>6, PolicyGoes DEF FillCache
  <2>2. Chosen(r)'
    BY <2>1 DEF Chosen, Ended
  <2>3. Answers(req[r].version, req[r].context)
    BY <1>1, <2>1 DEF Chosen
  <2>4. \A v, ctx : Answers(v, ctx) => Answers(v, ctx)'
    BY <1>1 DEF Answers, InForce
  <2>5. CacheHolds => CacheHolds'
    <3> SUFFICES ASSUME CacheHolds, NEW ctx \in Context, cache'[ctx] # None
                 PROVE  Answers(cache'[ctx], ctx)
      BY <1>1 DEF CacheHolds, Answers, InForce
    <3>1. cache'[ctx] = IF ctx = req[r].context THEN req[r].version ELSE cache[ctx]
      BY <1>6 DEF FillCache, Key
    <3> QED
      BY <2>3, <3>1 DEF CacheHolds
  <2>6. Stale => Stale'
    BY <2>1, StaleStays
  <2> QED
    BY <1>2, <2>1, <2>2, <2>5, <2>6, ChosenOthers DEF CurrentInv
<1> QED
  BY <1>3, <1>4, <1>5, <1>6

\* One request at a time, what the cache answers is what the database would,
\* after any sequence of proposals, approvals and resolutions, and no scope has
\* two versions in force (policy.service.ts).  The two statements of an approval
\* are in no transaction: that none of them fails is assumed.
THEOREM CacheCurrent ==
  ASSUME MaxInFlight <= 1, "activate" \notin MayThrow
  PROVE  Spec => []CacheIsCurrent
<1>1. Tabled /\ InTurn /\ PolicyInv /\ CurrentInv /\ [Next]_vars => CurrentInv'
  <2> SUFFICES ASSUME Tabled, InTurn, PolicyInv, CurrentInv, [Next]_vars PROVE CurrentInv'
    OBVIOUS
  <2>1. CASE UNCHANGED vars
    BY <2>1 DEF vars, server, files, policies, CurrentInv, OnePerScope, Stale, CacheHolds, Chosen,
                Answers, InForce
  <2>2. ASSUME NEW r \in Req, Turn(r), PolicyStep(r), Handles(r, PolicyOps)
        PROVE  CurrentInv'
    BY <2>2, PolicyStarts, ProposalRests, ApproveRests, ResolveRests DEF PolicyStep
  <2>3. ASSUME NEW r \in Req, Turn(r), UNCHANGED policies, Away(r, PolicyOps)
        PROVE  CurrentInv'
    <3>1. Chosen(r)' /\ req[r].op # "activate" /\ \A q \in Req : q # r => req'[q] = req[q]
      BY <2>3 DEF Away, Chosen, PolicyOps
    <3> QED
      BY <2>3, <3>1, ChosenOthers, CurrentRests DEF policies
  <2>4. ASSUME NEW r \in Req, Turn(r), Break(r)
        PROVE  CurrentInv'
    <3>1. /\ UNCHANGED policies /\ r \in InFlight
          /\ \A q \in Req : q # r => req'[q] = req[q]
          /\ req'[r].op = req[r].op
          /\ \/ /\ req[r].op \in MayThrow
                /\ req'[r] = [req[r] EXCEPT !.pc = req[r].catch, !.catch = "failed"]
             \/ req'[r] = [req[r] EXCEPT !.pc = "died"]
      BY <2>4, BreakKeeps DEF Break, files, Keeps
    <3>2. CASE req[r].op \notin PolicyOps
      <4>1. Chosen(r)' /\ req[r].op # "activate"
        BY <3>1, <3>2 DEF Chosen, PolicyOps
      <4> QED
        BY <2>4, <3>1, <4>1, ChosenOthers, CurrentRests DEF policies
    <3>3. CASE req[r].op \in PolicyOps
      <4>1. req[r] \in PolicyRow /\ Chosen(r) /\ req[r].pc \notin Ended
        BY <3>1, <3>3 DEF PolicyInv, PolicyPlaced, CurrentInv, InFlight
      <4>2. /\ req'[r].pc \in {"failed", "fill", "died"}
            /\ req'[r].pc = "fill" => req[r].catch = "fill"
            /\ req[r].op = "activate" => req'[r].pc = "died"
            /\ req'[r].version = req[r].version /\ req'[r].context = req[r].context
        BY <3>1, <4>1 DEF PolicyRow
      <4>3. Chosen(r)'
        BY <3>1, <4>1, <4>2 DEF Chosen, Answers, InForce, policies, Ended
      <4> QED
        BY <2>4, <3>1, <4>2, <4>3, ChosenOthers, CurrentRests DEF policies
    <3> QED
      BY <3>2, <3>3
  <2> QED
    BY <2>1, <2>2, <2>3, <2>4, AtPolicy, TurnOfStep DEF Next
<1>2. CurrentInv => CacheIsCurrent
  <2> SUFFICES ASSUME CurrentInv, AllServed
               PROVE  /\ \A ctx \in Context :
                           cache[ctx] # None => cache[ctx] \in Foremost(InForce(ctx))
                      /\ \A s \in Scope : Cardinality(ActiveIn(s)) <= 1
    BY DEF CacheIsCurrent
  <2>1. CacheHolds
    BY DEF CurrentInv, Stale, AllServed
  <2>2. ASSUME NEW s \in Scope
        PROVE  Cardinality(ActiveIn(s)) <= 1
    <3>1. CASE ActiveIn(s) = {}
      BY <3>1, FS_EmptySet
    <3>2. ASSUME NEW v \in ActiveIn(s)
          PROVE  Cardinality(ActiveIn(s)) <= 1
      <4>1. ActiveIn(s) = {v}
        BY <3>2 DEF CurrentInv, OnePerScope, ActiveIn
      <4>2. Cardinality({v}) = 1
        BY FS_Singleton
      <4> QED
        BY <4>1, <4>2
    <3> QED
      BY <3>1, <3>2
  <2> QED
    BY <2>1, <2>2, ForemostAnswers DEF CacheHolds
<1> QED
  BY <1>1, <1>2, CurrentBegins, AlwaysTabled, AlwaysInTurn, AlwaysPolicy, PTL DEF Spec

-------------------------------------------------------------------------------
(***************************************************************************)
(* Contracts, one request at a time.                                        *)
(***************************************************************************)
LEMMA MaxIsGreatest ==
  ASSUME NEW S, IsFiniteSet(S), S \subseteq Int, S # {}
  PROVE  \A x \in S : x <= Max(S)
<1>1. PICK x \in S : \A y \in S : y <= x
  BY Greatest
<1>2. \A y \in S : x >= y
  BY <1>1
<1> QED
  BY <1>1, <1>2 DEF Max

\* The next version is past all there are, and there are no more versions than
\* contracts.
LEMMA NextVersionIsNew ==
  ASSUME ContractsTypeOK, NEW n \in Nat, \A c \in Generated : contract[c].version \in 1..n
  PROVE  /\ NextVersion \in 1..(n + 1)
         /\ \A c \in Generated : contract[c].version < NextVersion
<1> DEFINE number == [c \in Req |-> contract[c].version]
           numbers == {contract[c].version : c \in Generated} \cup {0}
<1>1. IsFiniteSet({number[c] : c \in Generated})
  <2>1. IsFiniteSet(Generated)
    BY ReqIsFinite, FS_Subset DEF Generated
  <2> HIDE DEF number
  <2> QED
    BY <2>1, ImageIsFinite
<1>2. numbers = {number[c] : c \in Generated} \cup {0}
  BY DEF Generated
<1>3. IsFiniteSet(numbers)
  <2> HIDE DEF number
  <2> QED
    BY <1>1, <1>2, FS_AddElement
<1>4. numbers \subseteq 0..n /\ numbers # {} /\ NextVersion = Max(numbers) + 1
  BY DEF NextVersion
<1>5. \A c \in Generated : contract[c].version \in numbers
  OBVIOUS
<1> HIDE DEF numbers
<1>6. Max(numbers) \in numbers /\ \A x \in numbers : x <= Max(numbers)
  <2>1. numbers \subseteq Int /\ numbers # {}
    BY <1>4
  <2> QED
    BY ONLY <1>3, <2>1, MaxIsIn, MaxIsGreatest
<1>7. PICK m : m = Max(numbers)
  OBVIOUS
<1>8. m \in 0..n /\ NextVersion = m + 1
  BY <1>4, <1>6, <1>7
<1>9. \A c \in Generated : contract[c].version <= m
  BY <1>5, <1>6, <1>7
<1> QED
  BY <1>8, <1>9

Storing(r) == req[r].op \in EngineOps /\ req[r].pc \in {"terms", "contract"}

\* Whoever stores terms does so under a version no contract has, and inserts
\* its contract when they are stored.
TermsStored(r) ==
  Storing(r) =>
    /\ req[r].version \in 1..(Cardinality(Generated) + 1)
    /\ \A c \in Generated : contract[c].version < req[r].version
    /\ req[r].pc = "contract" => terms[req[r].version] = req[r].decision

TermsInv == /\ TermsMatch
            /\ \A c \in Generated : contract[c].version \in 1..Cardinality(Generated)
            /\ \A r \in Req : TermsStored(r)

LEMMA TermsBegin == Init => TermsInv
BY DEF Init, ServerInit, ContractsInit, TermsInv, TermsMatch, Generated, TermsStored, Storing, EngineOps

LEMMA GeneratedIsFinite ==
  /\ Generated \subseteq Req /\ IsFiniteSet(Generated) /\ Cardinality(Generated) \in Nat
  /\ Generated' \subseteq Req
<1>1. Generated \subseteq Req /\ Generated' \subseteq Req
  BY DEF Generated
<1> QED
  BY <1>1, ReqIsFinite, FS_Subset, FS_CardinalityType

LEMMA AlwaysStored ==
  ASSUME TermsInv, NEW r \in Req, Turn(r), \A q \in Req : q # r => req'[q] = req[q], TermsStored(r)'
  PROVE  \A q \in Req : TermsStored(q)'
<1>1. ASSUME NEW q \in Req, q # r
      PROVE  TermsStored(q)'
  <2>1. req'[q] = req[q] /\ req[q].pc \in Ended \cup {"idle"}
    BY <1>1, ServerAssumption DEF Turn, Req
  <2> QED
    BY <2>1 DEF TermsStored, Storing, Ended
<1> QED
  BY <1>1

\* No contract comes or goes, or is about other terms.
LEMMA TermsRest ==
  ASSUME TermsInv, NEW r \in Req, Turn(r), \A q \in Req : q # r => req'[q] = req[q],
         UNCHANGED terms,
         \A c \in Req : /\ contract'[c].status = "absent" <=> contract[c].status = "absent"
                        /\ contract'[c].version = contract[c].version
                        /\ contract'[c].decision = contract[c].decision,
         ~Storing(r)'
  PROVE  TermsInv'
<1>1. Generated' = Generated
  BY DEF Generated
<1>2. TermsMatch'
  BY <1>1, GeneratedIsFinite DEF TermsInv, TermsMatch
<1>3. \A c \in Generated' : contract'[c].version \in 1..Cardinality(Generated')
  BY <1>1, GeneratedIsFinite DEF TermsInv
<1>4. \A q \in Req : TermsStored(q)'
  BY AlwaysStored DEF TermsStored
<1> QED
  BY <1>2, <1>3, <1>4 DEF TermsInv

\* Only two statements lead to the storing of terms.
LEMMA StoringComes ==
  ASSUME Tabled, EngineInv, NEW r \in Req, Handles(r, CoreOps), CoreStep(r),
         ~ReadVersion(r), ~PutTerms(r)
  PROVE  ~Storing(r)'
<1>1. CASE req[r].pc = "idle" /\ ~ScoreStep(r)
  <2>1. CASE GenerateRead(r) \/ Send(r) \/ SignRead(r)
    <3>1. \/ \E d \in Decision : Begin(r, ContractCall("generate", "version", None, d, None))
          \/ \E c \in Generated : Begin(r, ContractCall("send", "draft", c, None, None))
          \/ \E c \in Generated, p \in Party :
                Begin(r, ContractCall("sign", "signature", c, None, p))
      BY <2>1 DEF GenerateRead, Send, SignRead
    <3>2. \/ \E d \in Decision : req'[r] = ContractCall("generate", "version", None, d, None)
          \/ \E c \in Generated : req'[r] = ContractCall("send", "draft", c, None, None)
          \/ \E c \in Generated, p \in Party :
                req'[r] = ContractCall("sign", "signature", c, None, p)
      BY <3>1 DEF Begin, Tabled
    <3>3. req'[r].pc \in {"version", "draft", "signature"}
      <4>1. \A op, pc, c, d, p : ContractCall(op, pc, c, d, p).pc = pc
        BY DEF ContractCall
      <4> QED
        BY <3>2, <4>1
    <3> QED
      BY <3>3 DEF Storing
  <2>2. CASE Lookup(r)
    <3>1. PICK c, d : Begin(r, ContractCall("execute", "ledger", c, d, None))
      BY <2>2 DEF Lookup
    <3>2. req'[r] = ContractCall("execute", "ledger", c, d, None)
      BY <3>1 DEF Begin, Tabled
    <3>3. req'[r].pc = "ledger"
      BY <3>2 DEF ContractCall
    <3> QED
      BY <3>3 DEF Storing
  <2>3. CASE Replay(r)
    <3>1. PICK res :
            req' = [req EXCEPT ![r] = [ContractCall("execute", "done", None, None, None)
                                         EXCEPT !.result = res]]
      BY <2>3 DEF Replay
    <3>2. req'[r] = [ContractCall("execute", "done", None, None, None) EXCEPT !.result = res]
      BY <3>1 DEF Tabled
    <3>3. req'[r].pc = "done"
      BY <3>2 DEF ContractCall
    <3> QED
      BY <3>3 DEF Storing
  <2> QED
    BY <1>1, <2>1, <2>2, <2>3 DEF CoreStep, ContractsStep, ExecutionStep, ReadVersion, PutTerms,
       InsertContract, FindDraft, NoDraft, MarkSent, InsertSignature, CountSignatures, MarkSigned,
       InsertLedger, MarkExecuting, BeginTransaction, UnknownAction, Disburse, QueueEvent,
       EndTransaction, Commit, MarkFailed, ReadOutbox, HandleEvent, EventFails, RetryEvent, Drained, At
<1>2. CASE ScoreStep(r)
  BY <1>2, ScoreMoves DEF Storing
<1>3. CASE req[r].pc # "idle" /\ ~ScoreStep(r)
  <2>1. req[r].pc \in EnginePc
    BY <1>3 DEF CoreStep, ContractsStep, ExecutionStep, GenerateRead, Send, SignRead, ReadVersion,
       PutTerms, Lookup, Replay, CanStart,
       InsertContract, FindDraft, NoDraft, MarkSent, InsertSignature, CountSignatures, MarkSigned,
       InsertLedger, MarkExecuting, BeginTransaction, UnknownAction, Disburse, QueueEvent,
       EndTransaction, Commit, MarkFailed, ReadOutbox, HandleEvent, EventFails, RetryEvent, Drained,
       At, EnginePc, GeneratePc, SendPc, SignPc, DisbursePc, ExecutePc
  <2>2. req[r] \in EngineRow /\ req[r].back \in {"done", "end"}
        /\ (req[r].pc # "drain" => req[r].catch \in {"failed", "mark_failed"})
    BY <2>1, EngineAtWork DEF EngineRow
  <2>3. CASE \/ FindDraft(r) \/ InsertSignature(r) \/ MarkSigned(r) \/ InsertLedger(r) \/ Disburse(r)
             \/ Commit(r) \/ MarkFailed(r) \/ Drained(r)
    <3>1. PICK pc \in {"sent", "count", "done", "end", "executing", "event", "outbox", "failed"} :
            Goto(r, pc)
      BY <2>2, <2>3 DEF FindDraft, InsertSignature, MarkSigned, InsertLedger, Disburse, Commit,
         MarkFailed, Drained, Return
    <3>2. req'[r] = [req[r] EXCEPT !.pc = pc]
      BY <3>1 DEF Goto, Tabled
    <3>3. req'[r].pc = pc
      BY <2>2, <3>2 DEF EngineRow
    <3> QED
      BY <3>3 DEF Storing
  <2>4. CASE NoDraft(r) \/ UnknownAction(r)
    <3>1. req'[r] = [req[r] EXCEPT !.pc = req[r].catch, !.catch = "failed"] /\ req[r].pc # "drain"
      BY <2>4 DEF NoDraft, UnknownAction, Raise, Tabled, At
    <3>2. req'[r].pc = req[r].catch
      BY <2>2, <3>1 DEF EngineRow
    <3> QED
      BY <2>2, <3>1, <3>2 DEF Storing
  <2>5. CASE InsertContract(r) \/ MarkSent(r) \/ QueueEvent(r)
    <3>1. PICK res : req' = [req EXCEPT ![r].result = res, ![r].pc = req[r].back]
      BY <2>5 DEF InsertContract, MarkSent, QueueEvent
    <3>2. req'[r] = [req[r] EXCEPT !.result = res, !.pc = req[r].back]
      BY <3>1 DEF Tabled
    <3>3. req'[r].pc = req[r].back
      BY <2>2, <3>2 DEF EngineRow
    <3> QED
      BY <2>2, <3>3 DEF Storing
  <2>6. CASE CountSignatures(r)
    <3>1. PICK n : req' = [req EXCEPT ![r].count = n, ![r].pc = "signed"]
      BY <2>6 DEF CountSignatures
    <3>2. req'[r] = [req[r] EXCEPT !.count = n, !.pc = "signed"]
      BY <3>1 DEF Tabled
    <3>3. req'[r].pc = "signed"
      BY <2>2, <3>2 DEF EngineRow
    <3> QED
      BY <3>3 DEF Storing
  <2>7. CASE MarkExecuting(r)
    <3>1. req'[r] = [req[r] EXCEPT !.pc = "transaction", !.catch = "mark_failed", !.back = "end"]
      BY <2>7 DEF MarkExecuting, Tabled
    <3>2. req'[r].pc = "transaction"
      BY <2>2, <3>1 DEF EngineRow
    <3> QED
      BY <3>2 DEF Storing
  <2>8. CASE BeginTransaction(r)
    <3>1. PICK pc \in {"disburse", "version", "draft", "unknown"} : req' = [req EXCEPT ![r].pc = pc]
      BY <2>8 DEF BeginTransaction, Dispatch
    <3>2. req'[r] = [req[r] EXCEPT !.pc = pc]
      BY <3>1 DEF Tabled
    <3>3. req'[r].pc = pc
      BY <2>2, <3>2 DEF EngineRow
    <3> QED
      BY <3>3 DEF Storing
  <2>9. CASE EndTransaction(r)
    <3>1. req'[r] = [req[r] EXCEPT !.pc = "commit"]
      BY <2>9 DEF EndTransaction, Tabled
    <3>2. req'[r].pc = "commit"
      BY <2>2, <3>1 DEF EngineRow
    <3> QED
      BY <3>2 DEF Storing
  <2>10. CASE ReadOutbox(r) \/ EventFails(r) \/ RetryEvent(r)
    <3>1. PICK pc, catch : /\ pc \in {"drain", "retry"}
                           /\ req' = [req EXCEPT ![r].pc = pc, ![r].catch = catch]
      BY <2>10 DEF ReadOutbox, EventFails, RetryEvent
    <3>2. req'[r] = [req[r] EXCEPT !.pc = pc, !.catch = catch]
      BY <3>1 DEF Tabled
    <3>3. req'[r].pc = pc
      BY <2>2, <3>2 DEF EngineRow
    <3> QED
      BY <3>1, <3>3 DEF Storing
  <2>11. CASE HandleEvent(r)
    <3>1. req'[r].pc = "drain"
      BY <2>11 DEF HandleEvent, server, At
    <3> QED
      BY <3>1 DEF Storing
  <2> QED
    BY <1>3, <2>3, <2>4, <2>5, <2>6, <2>7, <2>8, <2>9, <2>10, <2>11
       DEF CoreStep, ContractsStep, ExecutionStep, GenerateRead, Send, SignRead, Lookup, Replay, CanStart
<1> QED
  BY <1>1, <1>2, <1>3

LEMMA TermsStep ==
  ASSUME Tabled, EngineInv, TermsInv, NEW r \in Req, Turn(r), Handles(r, CoreOps), CoreStep(r)
  PROVE  TermsInv'
<1>1. \A q \in Req : q # r => req'[q] = req[q]
  BY CoreKeeps DEF Keeps
<1> DEFINE n == Cardinality(Generated)
<1>2. n \in Nat /\ Generated \subseteq Req
  BY GeneratedIsFinite
<1>3. CASE ReadVersion(r)
  <2>1. PICK v : v = NextVersion
    OBVIOUS
  <2>2. v \in 1..(n + 1) /\ \A c \in Generated : contract[c].version < v
    <3>1. ContractsTypeOK /\ \A c \in Generated : contract[c].version \in 1..n
      BY DEF EngineInv, TermsInv
    <3> HIDE DEF n
    <3> QED
      BY <1>2, <2>1, <3>1, NextVersionIsNew
  <2>3. req[r] \in EngineRow
    BY <1>3, EngineAtWork DEF ReadVersion, At, EnginePc, GeneratePc
  <2>4. /\ UNCHANGED contracts
        /\ req'[r] = [req[r] EXCEPT !.version = v, !.pc = "terms"]
    BY <1>3, <2>1 DEF ReadVersion, Tabled
  <2>5. req'[r].version = v /\ req'[r].pc = "terms"
    BY <2>3, <2>4 DEF EngineRow
  <2>6. Generated' = Generated
    BY <2>4 DEF Generated, contracts
  <2>7. TermsStored(r)'
    BY <2>2, <2>4, <2>5, <2>6 DEF TermsStored, contracts
  <2>8. TermsMatch' /\ \A c \in Generated' : contract'[c].version \in 1..Cardinality(Generated')
    BY <2>4, <2>6 DEF TermsInv, TermsMatch, contracts
  <2> QED
    BY <1>1, <2>7, <2>8, AlwaysStored DEF TermsInv
<1>4. CASE PutTerms(r)
  <2>1. req[r] \in EngineRow /\ req[r].op \in EngineOps /\ req[r].pc = "terms"
    BY <1>4, EngineAtWork DEF PutTerms, EnginePc, GeneratePc
  <2>2. PICK v, d : v = req[r].version /\ d = req[r].decision
    OBVIOUS
  <2>3. /\ terms' = [terms EXCEPT ![v] = d] /\ UNCHANGED <<contract, signature>>
        /\ req'[r] = [req[r] EXCEPT !.pc = "contract"]
    BY <1>4, <2>2 DEF PutTerms, Goto, Tabled
  <2>4. req'[r].version = v /\ req'[r].decision = d /\ req'[r].pc = "contract"
    BY <2>1, <2>2, <2>3 DEF EngineRow
  <2>5. Generated' = Generated
    BY <2>3 DEF Generated
  <2>6. v \in 1..(n + 1) /\ \A c \in Generated : contract[c].version < v /\ contract[c].version \in 1..n
    BY <2>1, <2>2 DEF TermsInv, TermsStored, Storing
  <2>7. v \in Version
    <3>1. r \notin Generated
      BY <2>1 DEF EngineInv, MadeBy, Unwritten, GeneratePc, Generated
    <3>2. Generated \cup {r} \subseteq Req /\ Cardinality(Generated \cup {r}) = n + 1
      BY <1>2, <3>1, GeneratedIsFinite, FS_AddElement
    <3>3. Cardinality(Generated \cup {r}) <= Cardinality(Req) /\ Cardinality(Req) \in Nat
      BY <3>2, ReqIsFinite, FS_Subset, FS_CardinalityType
    <3> QED
      BY <1>2, <2>6, <3>2, <3>3 DEF Version
  <2>8. terms'[v] = d /\ \A c \in Generated : terms'[contract[c].version] = terms[contract[c].version]
    BY <1>2, <2>3, <2>6, <2>7 DEF EngineInv, ContractsTypeOK
  <2>9. TermsStored(r)'
    BY <2>3, <2>4, <2>5, <2>6, <2>8 DEF TermsStored
  <2>10. TermsMatch' /\ \A c \in Generated' : contract'[c].version \in 1..Cardinality(Generated')
    BY <2>3, <2>5, <2>8 DEF TermsInv, TermsMatch
  <2> QED
    BY <1>1, <2>9, <2>10, AlwaysStored DEF TermsInv
<1>5. CASE InsertContract(r)
  <2>1. req[r] \in EngineRow /\ req[r].op \in EngineOps /\ req[r].pc = "contract"
    BY <1>5, EngineAtWork DEF InsertContract, At, EnginePc, GeneratePc
  <2>2. PICK v, d : v = req[r].version /\ d = req[r].decision
    OBVIOUS
  <2>3. /\ contract' = [contract EXCEPT ![r] = [status |-> "draft", version |-> v, decision |-> d]]
        /\ terms' = terms
    BY <1>5, <2>2 DEF InsertContract
  <2>4. /\ contract'[r] = [status |-> "draft", version |-> v, decision |-> d]
        /\ \A c \in Req : c # r => contract'[c] = contract[c]
    BY <2>3 DEF EngineInv, ContractsTypeOK
  <2>5. v \in 1..(n + 1) /\ terms[v] = d
    BY <2>1, <2>2 DEF TermsInv, TermsStored, Storing
  <2>6. r \notin Generated
    BY <2>1 DEF EngineInv, MadeBy, Unwritten, GeneratePc, Generated
  <2>7. Generated' = Generated \cup {r}
    BY <2>4 DEF Generated
  <2>8. Cardinality(Generated') = n + 1
    BY <2>6, <2>7, GeneratedIsFinite, FS_AddElement
  <2>9. TermsMatch'
    <3>1. terms'[contract'[r].version] = contract'[r].decision
      BY <2>3, <2>4, <2>5
    <3>2. \A c \in Generated : terms'[contract'[c].version] = contract'[c].decision
      BY <1>2, <2>3, <2>4, <2>6 DEF TermsInv, TermsMatch
    <3> QED
      BY <2>7, <3>1, <3>2 DEF TermsMatch
  <2>10. \A c \in Generated' : contract'[c].version \in 1..Cardinality(Generated')
    <3>1. contract'[r].version \in 1..(n + 1)
      BY <2>4, <2>5
    <3>2. \A c \in Generated : contract'[c].version \in 1..n
      BY <1>2, <2>4, <2>6 DEF TermsInv
    <3>3. 1..n \subseteq 1..(n + 1)
      BY <1>2
    <3> HIDE DEF n
    <3> QED
      BY <2>7, <2>8, <3>1, <3>2, <3>3
  <2>11. TermsStored(r)'
    <3>1. ~Storing(r)'
      BY <1>5, <2>1, StoringComes DEF InsertContract, ReadVersion, PutTerms, At
    <3> QED
      BY <3>1 DEF TermsStored
  <2> QED
    BY <1>1, <2>9, <2>10, <2>11, AlwaysStored DEF TermsInv
<1>6. CASE MarkSent(r) \/ MarkSigned(r)
  <2>1. PICK c, status : contract' = [contract EXCEPT ![c].status = status] /\ c = req[r].contract
                         /\ status # "absent" /\ terms' = terms
    <3>1. CASE MarkSent(r)
      <4>1. PICK status : status = "sent_for_signature"
        OBVIOUS
      <4> QED
        BY <3>1, <4>1 DEF MarkSent
    <3>2. CASE MarkSigned(r)
      <4>1. PICK status : status = IF req[r].count >= Required THEN "fully_signed" ELSE "partially_signed"
        OBVIOUS
      <4>2. status # "absent"
        BY <4>1
      <4> QED
        BY <3>2, <4>1, <4>2 DEF MarkSigned
    <3> QED
      BY <1>6, <3>1, <3>2
  <2>2. c \in Req /\ contract[c].status # "absent"
    <3>1. /\ req[r].op \in EngineOps /\ EnginePlaced(r) /\ InOrder(req[r], Action(r))
          /\ req[r].pc \in {"sent", "signed"}
          /\ req[r].op \in {"send", "sign", "execute"}
      BY <1>6, EngineAtWork DEF MarkSent, MarkSigned, At, EnginePc, SendPc, SignPc
    <3>2. Holds(req[r], Action(r))
      BY <3>1 DEF Holds, InOrder, SendPc, SignPc
    <3> QED
      BY <2>1, <3>1, <3>2 DEF EnginePlaced
  <2>3. \A x \in Req : /\ contract'[x].status = "absent" <=> contract[x].status = "absent"
                       /\ contract'[x].version = contract[x].version
                       /\ contract'[x].decision = contract[x].decision
    BY <2>1, <2>2 DEF EngineInv, ContractsTypeOK
  <2>4. ~Storing(r)'
    BY <1>6, StoringComes DEF MarkSent, MarkSigned, ReadVersion, PutTerms, At
  <2> QED
    BY <1>1, <2>1, <2>3, <2>4, TermsRest
<1>7. CASE ~ReadVersion(r) /\ ~PutTerms(r) /\ ~InsertContract(r) /\ ~MarkSent(r) /\ ~MarkSigned(r)
  <2>1. UNCHANGED <<contract, terms>>
    BY <1>7 DEF CoreStep, ContractsStep, ExecutionStep, contracts, GenerateRead, Send, SignRead,
       FindDraft, NoDraft, InsertSignature, CountSignatures, Lookup, Replay,
       InsertLedger, MarkExecuting, BeginTransaction, UnknownAction, Disburse, QueueEvent,
       EndTransaction, Commit, MarkFailed, ReadOutbox, HandleEvent, EventFails, RetryEvent, Drained
  <2>2. ~Storing(r)'
    BY <1>7, StoringComes
  <2> QED
    BY <1>1, <2>1, <2>2, TermsRest
<1> QED
  BY <1>3, <1>4, <1>5, <1>6, <1>7

\* One request at a time, the document under a contract's version is the one
\* generated for that contract (generateContract), also when an earlier
\* generation stored its document and failed, or was cut off, before its row.
THEOREM TermsAreTheirs ==
  ASSUME MaxInFlight <= 1
  PROVE  Spec => []TermsMatch
<1>1. Tabled /\ InTurn /\ EngineInv /\ TermsInv /\ [Next]_vars => TermsInv'
  <2> SUFFICES ASSUME Tabled, InTurn, EngineInv, TermsInv, [Next]_vars PROVE TermsInv'
    OBVIOUS
  <2>1. CASE UNCHANGED vars
    BY <2>1 DEF vars, server, core, contracts, TermsInv, TermsMatch, Generated, TermsStored, Storing
  <2>2. ASSUME NEW r \in Req, Turn(r), CoreStep(r), Handles(r, CoreOps)
        PROVE  TermsInv'
    BY <2>2, TermsStep
  <2>3. ASSUME NEW r \in Req, Turn(r), UNCHANGED core, Away(r, CoreOps)
        PROVE  TermsInv'
    <3>1. ~Storing(r)'
      BY <2>3 DEF Away, Storing, CoreOps, EngineOps
    <3> QED
      BY <2>3, <3>1, TermsRest DEF Away, core, contracts
  <2>4. ASSUME NEW r \in Req, Turn(r), Break(r)
        PROVE  TermsInv'
    <3>1. /\ UNCHANGED core
          /\ \A q \in Req : q # r => req'[q] = req[q]
          /\ req'[r].op = req[r].op
          /\ \/ req[r].catch # None
                /\ req'[r] = [req[r] EXCEPT !.pc = req[r].catch, !.catch = "failed"]
             \/ req'[r] = [req[r] EXCEPT !.pc = "died"]
      BY <2>4, BreakEnds
    <3>2. ~Storing(r)'
      <4> SUFFICES ASSUME req[r].op \in EngineOps PROVE ~Storing(r)'
        BY <3>1 DEF Storing
      <4>1. req[r] \in EngineRow
        BY DEF EngineInv, EnginePlaced
      <4>2. req'[r].pc \in {"failed", "mark_failed", "died"}
        BY <3>1, <4>1 DEF EngineRow
      <4> QED
        BY <4>2 DEF Storing
    <3> QED
      BY <2>4, <3>1, <3>2, TermsRest DEF core, contracts
  <2> QED
    BY <2>1, <2>2, <2>3, <2>4, AtCore, TurnOfStep DEF Next
<1>2. TermsInv => TermsMatch
  BY DEF TermsInv
<1> QED
  BY <1>1, <1>2, TermsBegin, AlwaysTabled, AlwaysInTurn, EngineInvariant, PTL DEF Spec

-------------------------------------------------------------------------------
(***************************************************************************)
(* Executions, one request at a time and no statement of theirs failing     *)
(* other than by a refusal: a process may still end between any two.        *)
(***************************************************************************)
Harmless(x) == ActionType[x] \in {"contract.send_for_signature", "unknown"}

RunningPc  == {"transaction", "unknown", "end", "commit", "mark_failed"}
                \cup GeneratePc \cup SendPc \cup DisbursePc
BeforePc   == {"ledger", "executing", "transaction", "disburse"} \cup GeneratePc
AnsweredPc == {"outbox", "drain", "retry", "done"}

\* What the ledger shows of an id while its handler is at work: it is executing,
\* has taken no effect yet, or holds the answer.
Ledgered(r) == req[r].op = "execute" =>
  /\ req[r].pc = "ledger" => exec[Submitted(r)].status \in {"absent", "pending", "failed"}
  /\ req[r].pc = "executing" => exec[Submitted(r)].status \in {"pending", "failed"}
  /\ req[r].pc \in RunningPc => exec[Submitted(r)].status \in {"executing", "failed"}
  /\ req[r].pc \in BeforePc => Effects(Submitted(r)) = {}
  /\ req[r].pc \in {"unknown", "mark_failed"} => Harmless(Submitted(r))
  /\ req[r].pc \in AnsweredPc =>
       exec[Submitted(r)] = [status |-> "committed", result |-> req[r].result]

\* Only an id without rows of its own is ever tried again.
ExecInv ==
  /\ \A r \in Req : Submitted(r) # None => req[r].op = "execute"
  /\ \A r \in Req : req[r].op = "execute" /\ contract[r].status # "absent" =>
       Action(r) = "contract.generate"
  /\ \A r \in Req : disbursed[r] # None => ActionType[disbursed[r]] = "disbursement.record"
  /\ \A x \in ExecutionId : exec[x].status = "failed" => Harmless(x)
  /\ \A x \in ExecutionId : Effects(x) # {} => exec[x].status \in {"executing", "committed"}
  /\ \A x \in ExecutionId : \A r, q \in Effects(x) : r = q
  /\ \A r \in Req : Ledgered(r)

LEMMA ExecBegins == Init => ExecInv
<1> SUFFICES ASSUME Init PROVE ExecInv
  OBVIOUS
<1>1. /\ \A r \in Req : req[r].op = "none" /\ Submitted(r) = None /\ disbursed[r] = None
      /\ \A r \in Req : contract[r].status = "absent"
      /\ \A x \in ExecutionId : exec[x].status = "absent" /\ x # None
  BY ExecutionAssumption DEF Init, ServerInit, ExecutionInit, ContractsInit, Submitted
<1>2. \A x \in ExecutionId : Effects(x) = {}
  BY <1>1 DEF Effects
<1> QED
  BY <1>1, <1>2 DEF ExecInv, Ledgered

\* The handlers before r have ended, those after it have not begun.
LEMMA OthersLedgered ==
  ASSUME EngineInv, ExecInv, NEW r \in Req, Turn(r), NEW q \in Req, q # r,
         req'[q] = req[q], task'[q].exec = task[q].exec,
         \A x \in ExecutionId : exec[x].status = "committed" => exec'[x] = exec[x]
  PROVE  Ledgered(q)'
<1>1. req[q].pc \in Ended \cup {"idle"}
  BY ServerAssumption DEF Turn, Req
<1>2. /\ req[q].pc \notin {"ledger", "executing", "unknown", "mark_failed"} \cup RunningPc \cup BeforePc
      /\ req[q].pc \in AnsweredPc => req[q].pc = "done"
  BY <1>1 DEF Ended, RunningPc, BeforePc, AnsweredPc, GeneratePc, SendPc, DisbursePc
<1>3. req[q].op = "execute" => Submitted(q) \in ExecutionId
  BY DEF EngineInv, EnginePlaced, EngineOps
<1>4. Submitted(q)' = Submitted(q)
  BY DEF Submitted
<1>5. ASSUME req[q].op = "execute", req[q].pc \in AnsweredPc
      PROVE  exec'[Submitted(q)] = [status |-> "committed", result |-> req[q].result]
  BY <1>3, <1>5 DEF ExecInv, Ledgered
<1> QED
  BY <1>2, <1>4, <1>5 DEF Ledgered

\* What a step of r that makes no row has to see to.
LEMMA ExecStays ==
  ASSUME EngineInv, ExecInv, NEW r \in Req, Turn(r), UNCHANGED disbursed,
         \A q \in Req : q # r => req'[q] = req[q] /\ task'[q].exec = task[q].exec,
         \A c \in Req : contract'[c].status = "absent" <=> contract[c].status = "absent",
         \/ task'[r].exec = task[r].exec /\ req'[r].op = req[r].op
         \/ contract[r].status = "absent",
         Submitted(r)' # None => req'[r].op = "execute",
         \A x \in ExecutionId : exec[x].status = "committed" => exec'[x] = exec[x],
         \A x \in ExecutionId : exec'[x].status = "failed" => Harmless(x),
         \A x \in ExecutionId : Effects(x) # {} => exec'[x].status \in {"executing", "committed"},
         Ledgered(r)'
  PROVE  ExecInv'
<1>1. \A q \in Req : q # r => Submitted(q)' = Submitted(q)
  BY DEF Submitted
<1>2. \/ Submitted(r)' = Submitted(r) /\ req'[r].op = req[r].op
      \/ contract[r].status = "absent"
  BY DEF Submitted
<1>3. \A x \in ExecutionId : Effects(x)' = Effects(x)
  BY <1>1, <1>2 DEF Effects
<1>4. \A q \in Req : Submitted(q)' # None => req'[q].op = "execute"
  BY <1>1 DEF ExecInv
<1>5. \A q \in Req : req'[q].op = "execute" /\ contract'[q].status # "absent" =>
        Action(q)' = "contract.generate"
  BY <1>1, <1>2 DEF ExecInv, Action
<1>6. \A q \in Req : disbursed'[q] # None => ActionType[disbursed'[q]] = "disbursement.record"
  BY DEF ExecInv
<1>7. \A x \in ExecutionId : Effects(x)' # {} => exec'[x].status \in {"executing", "committed"}
  BY <1>3
<1>8. \A x \in ExecutionId : \A s, q \in Effects(x)' : s = q
  BY <1>3 DEF ExecInv
<1>9. \A q \in Req : Ledgered(q)'
  BY OthersLedgered
<1>10. \A x \in ExecutionId : exec'[x].status = "failed" => Harmless(x)'
  BY DEF Harmless
<1> QED
  BY <1>4, <1>5, <1>6, <1>7, <1>8, <1>9, <1>10 DEF ExecInv

\* An endpoint that submits nothing.
LEMMA ExecElsewhere ==
  ASSUME EngineInv, ExecInv, NEW r \in Req, Turn(r), UNCHANGED <<exec, disbursed>>,
         \A q \in Req : q # r => req'[q] = req[q],
         \A q \in Req : task'[q].exec = task[q].exec,
         \A c \in Req : contract'[c].status = "absent" <=> contract[c].status = "absent",
         req[r].op # "execute", req'[r].op # "execute",
         contract[r].status = "absent" \/ req'[r].op = req[r].op
  PROVE  ExecInv'
<1>1. Submitted(r) = None /\ Submitted(r)' = None
  BY DEF ExecInv, Submitted
<1>2. Ledgered(r)'
  BY DEF Ledgered
<1> QED
  BY <1>1, <1>2, ExecStays DEF ExecInv

\* A handler goes on, and the ledger stays as it is.
LEMMA ExecGoesOn ==
  ASSUME EngineInv, ExecInv, NEW r \in Req, Turn(r), UNCHANGED <<exec, disbursed>>,
         \A q \in Req : q # r => req'[q] = req[q],
         \A q \in Req : task'[q].exec = task[q].exec,
         \A c \in Req : contract'[c].status = "absent" <=> contract[c].status = "absent",
         req'[r].op = req[r].op,
         req[r].op = "execute" =>
           \/ /\ req[r].pc \in RunningPc /\ req'[r].pc \in RunningPc
              /\ req'[r].pc \in BeforePc => req[r].pc \in BeforePc
              /\ req'[r].pc \in {"unknown", "mark_failed"} => Harmless(Submitted(r))
           \/ /\ req[r].pc \in AnsweredPc /\ req'[r].pc \in AnsweredPc
              /\ req'[r].result = req[r].result
           \/ req'[r].pc \in {"failed", "died"}
  PROVE  ExecInv'
<1>1. Submitted(r)' = Submitted(r)
  BY DEF Submitted
<1>2. req[r].op = "execute" => Submitted(r) \in ExecutionId
  BY DEF EngineInv, EnginePlaced, EngineOps
<1>3. \A x \in ExecutionId : Effects(x)' = Effects(x)
  BY DEF Effects, Submitted
<1>4. Ledgered(r)'
  <2> SUFFICES ASSUME req[r].op = "execute" PROVE Ledgered(r)'
    BY DEF Ledgered
  <2>1. Ledgered(r) /\ Effects(Submitted(r))' = Effects(Submitted(r))
    BY <1>1, <1>2, <1>3 DEF ExecInv, Effects
  <2>2. CASE /\ req[r].pc \in RunningPc /\ req'[r].pc \in RunningPc
             /\ req'[r].pc \in BeforePc => req[r].pc \in BeforePc
             /\ req'[r].pc \in {"unknown", "mark_failed"} => Harmless(Submitted(r))
    <3>1. req'[r].pc \notin {"ledger", "executing"} \cup AnsweredPc
      BY <2>2 DEF RunningPc, AnsweredPc, GeneratePc, SendPc, DisbursePc
    <3>2. /\ exec'[Submitted(r)].status \in {"executing", "failed"}
          /\ req'[r].pc \in BeforePc => Effects(Submitted(r))' = {}
      BY <2>1, <2>2 DEF Ledgered
    <3> QED
      BY <1>1, <2>2, <3>1, <3>2 DEF Ledgered, Harmless
  <2>3. CASE /\ req[r].pc \in AnsweredPc /\ req'[r].pc \in AnsweredPc
             /\ req'[r].result = req[r].result
    <3>1. req'[r].pc \notin {"ledger", "executing", "unknown", "mark_failed"} \cup RunningPc \cup BeforePc
      BY <2>3 DEF RunningPc, AnsweredPc, BeforePc, GeneratePc, SendPc, DisbursePc
    <3>2. exec'[Submitted(r)] = [status |-> "committed", result |-> req'[r].result]
      BY <2>1, <2>3 DEF Ledgered
    <3> QED
      BY <1>1, <3>1, <3>2 DEF Ledgered
  <2>4. CASE req'[r].pc \in {"failed", "died"}
    BY <2>4 DEF Ledgered, RunningPc, AnsweredPc, BeforePc, GeneratePc, SendPc, DisbursePc
  <2> QED
    BY <2>2, <2>3, <2>4
<1> QED
  BY <1>1, <1>4, ExecStays DEF ExecInv

\* What is done at a desk of executions and contracts, but for the rows made
\* there and the ledger.
LEMMA ExecTurns ==
  ASSUME Tabled, EngineInv, ExecInv, NEW r \in Req, Turn(r), Handles(r, CoreOps), CoreStep(r),
         \/ /\ UNCHANGED execution
            /\ \/ ReadVersion(r) \/ PutTerms(r) \/ FindDraft(r) \/ NoDraft(r) \/ MarkSent(r)
               \/ InsertSignature(r) \/ CountSignatures(r) \/ MarkSigned(r)
         \/ BeginTransaction(r) \/ UnknownAction(r) \/ QueueEvent(r) \/ EndTransaction(r)
         \/ ReadOutbox(r) \/ HandleEvent(r) \/ RetryEvent(r) \/ Drained(r)
  PROVE  ExecInv'
<1>1. \A q \in Req : q # r => req'[q] = req[q]
  BY CoreKeeps DEF Keeps
<1>2. /\ req[r].pc \in EnginePc /\ req[r].pc \notin {"ledger", "executing", "commit", "mark_failed"}
      /\ UNCHANGED <<exec, disbursed>>
  <2>1. req[r].pc \in {"version", "terms", "draft", "sent", "signature", "count", "signed", "transaction",
                      "unknown", "event", "end", "outbox", "drain", "retry"}
    BY DEF ReadVersion, PutTerms, FindDraft, NoDraft, MarkSent, InsertSignature, CountSignatures,
       MarkSigned, BeginTransaction, UnknownAction, QueueEvent, EndTransaction, ReadOutbox,
       HandleEvent, RetryEvent, Drained, At
  <2>2. UNCHANGED <<exec, disbursed>>
    BY DEF execution, BeginTransaction, UnknownAction, QueueEvent, EndTransaction, ReadOutbox,
       HandleEvent, RetryEvent, Drained
  <2> QED
    BY <2>1, <2>2 DEF EnginePc, GeneratePc, SendPc, SignPc, DisbursePc, ExecutePc
<1>3. /\ req[r].op \in EngineOps /\ req[r] \in EngineRow /\ InOrder(req[r], Action(r))
      /\ req[r].op = "execute" => Submitted(r) \in ExecutionId
      /\ req[r].pc \in SignPc => req[r].op = "sign"
      /\ EnginePlaced(r)
      /\ req[r].pc # "drain" => req[r].catch \in {"failed", "mark_failed"}
  BY <1>2, EngineAtWork
<1>4. task \in [Req -> TaskRow]
  BY DEF EngineInv, ExecutionTypeOK, TaskRow
<1>5. \A q \in Req : task'[q].exec = task[q].exec
  <2>1. CASE HandleEvent(r) \/ ReadOutbox(r) \/ RetryEvent(r)
    <3>1. \/ \E batch : task' = [task EXCEPT ![r].batch = batch]
          \/ \E event : task' = [task EXCEPT ![r].event = event]
      BY <2>1 DEF HandleEvent, ReadOutbox, RetryEvent
    <3> QED
      BY <1>4, <3>1 DEF TaskRow
  <2>2. CASE ~HandleEvent(r) /\ ~ReadOutbox(r) /\ ~RetryEvent(r)
    <3>1. task' = task
      BY <2>2 DEF execution, BeginTransaction, UnknownAction, QueueEvent, EndTransaction, Drained
    <3> QED
      BY <3>1
  <2> QED
    BY <2>1, <2>2
<1>6. \A c \in Req : contract'[c].status = "absent" <=> contract[c].status = "absent"
  <2>1. CASE MarkSent(r) \/ MarkSigned(r)
    <3>1. /\ req[r].pc \in {"sent", "signed"} /\ req[r].op \in {"send", "sign", "execute"}
      BY <1>2, <2>1, EngineAtWork DEF MarkSent, MarkSigned, At, SendPc, SignPc
    <3>2. Holds(req[r], Action(r))
      BY <1>3, <3>1 DEF Holds, InOrder, SendPc, SignPc
    <3>3. req[r].contract \in Req /\ contract[req[r].contract].status # "absent"
      BY <1>3, <3>2 DEF EnginePlaced
    <3>4. contract \in [Req -> [status : ContractStatus, version : Nat, decision : Decision \cup {None}]]
      BY DEF EngineInv, ContractsTypeOK
    <3>5. PICK c : c = req[r].contract
      OBVIOUS
    <3>6. \E status \in {"sent_for_signature", "fully_signed", "partially_signed"} :
             contract' = [contract EXCEPT ![c].status = status]
      BY <2>1, <3>5 DEF MarkSent, MarkSigned
    <3> QED
      BY <3>3, <3>4, <3>5, <3>6
  <2>2. CASE ~MarkSent(r) /\ ~MarkSigned(r)
    <3>1. contract' = contract
      BY <2>2 DEF ReadVersion, PutTerms, FindDraft, NoDraft, InsertSignature, CountSignatures, contracts,
         BeginTransaction, UnknownAction, QueueEvent, EndTransaction, ReadOutbox, HandleEvent,
         RetryEvent, Drained
    <3> QED
      BY <3>1
  <2> QED
    BY <2>1, <2>2
<1>7. req'[r].op = req[r].op
  BY <1>3, CoreKeeps DEF ReadVersion, PutTerms, FindDraft, NoDraft, MarkSent, InsertSignature,
     CountSignatures, MarkSigned, BeginTransaction, UnknownAction, QueueEvent, EndTransaction,
     ReadOutbox, HandleEvent, RetryEvent, Drained, Goto, Return, Raise, server, Tabled, EngineRow
<1>8. CASE req[r].op # "execute"
  BY <1>1, <1>2, <1>5, <1>6, <1>7, <1>8, ExecGoesOn
<1>9. CASE req[r].op = "execute"
  <2>1. /\ ~InsertSignature(r) /\ ~CountSignatures(r) /\ ~MarkSigned(r)
    BY <1>3, <1>9 DEF InsertSignature, CountSignatures, MarkSigned, At, SignPc
  <2>2. CASE ReadVersion(r) \/ PutTerms(r) \/ FindDraft(r) \/ BeginTransaction(r) \/ EndTransaction(r)
    <3>1. \E pc \in {"terms", "contract", "sent", "disburse", "version", "draft", "unknown", "commit"} :
             \/ \E n : req'[r] = [req[r] EXCEPT !.version = n, !.pc = pc]
             \/ req'[r] = [req[r] EXCEPT !.pc = pc]
      BY <2>2 DEF ReadVersion, PutTerms, FindDraft, BeginTransaction, EndTransaction, Dispatch, Goto, Tabled
    <3>2. /\ req[r].pc \in RunningPc
          /\ req[r].pc \in BeforePc \/ req[r].pc \in {"draft", "end"}
      BY <2>2 DEF ReadVersion, PutTerms, FindDraft, BeginTransaction, EndTransaction, At, RunningPc,
         BeforePc, GeneratePc, SendPc, DisbursePc
    <3>3. req'[r].pc \in {"terms", "contract", "sent", "disburse", "version", "draft", "unknown", "commit"}
      BY <1>3, <3>1 DEF EngineRow
    <3>4. req[r].pc \in {"draft", "end"} => req'[r].pc \in {"sent", "commit"}
      <4> SUFFICES ASSUME req[r].pc \in {"draft", "end"} PROVE req'[r].pc \in {"sent", "commit"}
        OBVIOUS
      <4>1. FindDraft(r) \/ EndTransaction(r)
        BY <2>2 DEF ReadVersion, PutTerms, BeginTransaction, At
      <4>2. req'[r] = [req[r] EXCEPT !.pc = "sent"] \/ req'[r] = [req[r] EXCEPT !.pc = "commit"]
        BY <4>1 DEF FindDraft, EndTransaction, Goto, Tabled
      <4> QED
        BY <1>3, <4>2 DEF EngineRow
    <3>5. req'[r].pc = "unknown" => Harmless(Submitted(r))
      <4> SUFFICES ASSUME req'[r].pc = "unknown" PROVE Harmless(Submitted(r))
        OBVIOUS
      <4>1. BeginTransaction(r)
        <5>1. CASE ReadVersion(r)
          <6>1. PICK n : n = NextVersion
            OBVIOUS
          <6>2. req'[r] = [req[r] EXCEPT !.version = n, !.pc = "terms"]
            BY <5>1, <6>1 DEF ReadVersion, Tabled
          <6> QED
            BY <1>3, <6>2 DEF EngineRow
        <5>2. CASE PutTerms(r) \/ FindDraft(r) \/ EndTransaction(r)
          <6>1. \E pc \in {"contract", "sent", "commit"} : req'[r] = [req[r] EXCEPT !.pc = pc]
            BY <5>2 DEF PutTerms, FindDraft, EndTransaction, Goto, Tabled
          <6> QED
            BY <1>3, <6>1 DEF EngineRow
        <5> QED
          BY <2>2, <5>1, <5>2
      <4>2. req'[r] = [req[r] EXCEPT !.pc = Dispatch(Submitted(r))]
        BY <4>1 DEF BeginTransaction, Tabled
      <4>3. Dispatch(Submitted(r)) = "unknown"
        BY <1>3, <4>2 DEF EngineRow
      <4>4. ActionType[Submitted(r)] \in Actions
        BY <1>3, <1>9, ExecutionAssumption
      <4> QED
        BY <4>3, <4>4 DEF Dispatch, Actions, Harmless
    <3>6. /\ req'[r].pc \in RunningPc /\ req'[r].pc # "mark_failed"
          /\ req'[r].pc \in BeforePc => req[r].pc \in BeforePc
      BY <3>2, <3>3, <3>4 DEF RunningPc, BeforePc, GeneratePc, SendPc, DisbursePc
    <3> QED
      BY <1>1, <1>2, <1>5, <1>6, <1>7, <3>2, <3>5, <3>6, ExecGoesOn
  <2>3. CASE MarkSent(r) \/ QueueEvent(r)
    <3>1. \E n : req'[r] = [req[r] EXCEPT !.result = n, !.pc = req[r].back]
      BY <2>3 DEF MarkSent, QueueEvent, Tabled
    <3>2. req[r].pc \in RunningPc /\ req[r].back = "end"
      BY <1>3, <1>9, <2>3 DEF MarkSent, QueueEvent, At, RunningPc, InOrder, SendPc, DisbursePc
    <3>3. req'[r].pc = "end"
      BY <1>3, <3>1, <3>2 DEF EngineRow
    <3>4. req'[r].pc \in RunningPc /\ req'[r].pc \notin BeforePc /\ req'[r].pc \notin {"unknown", "mark_failed"}
      BY <3>3 DEF RunningPc, BeforePc, GeneratePc
    <3> QED
      BY <1>1, <1>2, <1>5, <1>6, <1>7, <3>2, <3>4, ExecGoesOn
  <2>4. CASE NoDraft(r) \/ UnknownAction(r)
    <3>1. /\ req'[r] = [req[r] EXCEPT !.pc = req[r].catch, !.catch = "failed"]
          /\ req[r].pc \in {"draft", "unknown"} /\ req[r].catch \in {"failed", "mark_failed"}
      BY <1>3, <2>4 DEF NoDraft, UnknownAction, Raise, Tabled, At
    <3>2. req'[r].pc \in {"failed", "mark_failed"} /\ req[r].pc \in RunningPc
      BY <1>3, <3>1 DEF EngineRow, RunningPc, SendPc
    <3>3. Harmless(Submitted(r))
      <4>1. CASE req[r].pc = "draft"
        BY <1>3, <1>9, <4>1 DEF InOrder, SendPc, Harmless, Action
      <4>2. CASE req[r].pc = "unknown"
        BY <1>9, <4>2 DEF ExecInv, Ledgered
      <4> QED
        BY <3>1, <4>1, <4>2
    <3>4. "mark_failed" \in RunningPc /\ "mark_failed" \notin BeforePc
      BY DEF RunningPc, BeforePc, GeneratePc
    <3> QED
      BY <1>1, <1>2, <1>5, <1>6, <1>7, <3>2, <3>3, <3>4, ExecGoesOn
  <2>5. CASE ReadOutbox(r) \/ HandleEvent(r) \/ RetryEvent(r) \/ Drained(r)
    <3>1. \/ \E pc \in {"drain", "done"} : req'[r] = [req[r] EXCEPT !.pc = pc]
          \/ \E catch : req'[r] = [req[r] EXCEPT !.pc = "drain", !.catch = catch]
          \/ req'[r] = req[r] /\ req[r].pc = "drain"
      BY <2>5 DEF ReadOutbox, HandleEvent, RetryEvent, Drained, Goto, server, At, Tabled
    <3>2. req'[r].pc \in {"drain", "done"} /\ req'[r].result = req[r].result
      BY <1>3, <3>1 DEF EngineRow
    <3>3. req[r].pc \in {"outbox", "drain", "retry"}
      BY <2>5 DEF ReadOutbox, HandleEvent, RetryEvent, Drained, At
    <3>4. req[r].pc \in AnsweredPc /\ req'[r].pc \in AnsweredPc
      BY <3>2, <3>3 DEF AnsweredPc
    <3> QED
      BY <1>1, <1>2, <1>5, <1>6, <1>7, <3>2, <3>4, ExecGoesOn
  <2> QED
    BY <2>1, <2>2, <2>3, <2>4, <2>5
<1> QED
  BY <1>8, <1>9

LEMMA ExecArrives ==
  ASSUME Tabled, EngineInv, ExecInv, NEW r \in Req, Turn(r), Handles(r, CoreOps), CoreStep(r),
         \/ (GenerateRead(r) \/ Send(r) \/ SignRead(r)) /\ UNCHANGED execution
         \/ Lookup(r) \/ Replay(r)
  PROVE  ExecInv'
<1>1. \A q \in Req : q # r => req'[q] = req[q]
  BY CoreKeeps DEF Keeps
<1>2. req[r].pc = "idle" /\ req[r].op \notin EngineOps /\ contract[r].status = "absent"
  <2>1. req[r].pc = "idle"
    BY DEF GenerateRead, Send, SignRead, Lookup, Replay, CanStart
  <2> QED
    BY <2>1, IdleHasNone DEF EngineInv, MadeBy
<1>3. /\ UNCHANGED <<exec, disbursed, contract>>
      /\ task \in [Req -> TaskRow]
  BY DEF execution, contracts, GenerateRead, Send, SignRead, Lookup, Replay, EngineInv,
     ExecutionTypeOK, TaskRow
<1>4. \A op, pc, c, d, p : /\ ContractCall(op, pc, c, d, p).op = op
                          /\ ContractCall(op, pc, c, d, p).pc = pc
  BY DEF ContractCall
<1>5. CASE (GenerateRead(r) \/ Send(r) \/ SignRead(r)) /\ UNCHANGED execution
  <2>1. \E op \in {"generate", "send", "sign"} :
          \E pc, c, d, p : req'[r] = ContractCall(op, pc, c, d, p)
    BY <1>5 DEF GenerateRead, Send, SignRead, Begin, Tabled
  <2>2. req'[r].op # "execute"
    BY <1>4, <2>1
  <2> QED
    BY <1>1, <1>2, <1>3, <1>5, <2>2, ExecElsewhere DEF execution, EngineOps
<1>6. CASE Lookup(r)
  <2>1. PICK x \in ExecutionId : \E p \in Payload(x) :
          /\ Retriable(x)
          /\ Begin(r, ContractCall("execute", "ledger", p[1], p[2], None))
          /\ task' = [task EXCEPT ![r].exec = x]
    BY <1>6 DEF Lookup
  <2>2. /\ Retriable(x) /\ task' = [task EXCEPT ![r].exec = x]
        /\ \E c, d : req'[r] = ContractCall("execute", "ledger", c, d, None)
    BY <2>1 DEF Begin, Tabled
  <2>3. req'[r].op = "execute" /\ req'[r].pc = "ledger" /\ Submitted(r)' = x
        /\ \A q \in Req : q # r => task'[q].exec = task[q].exec
    BY <1>3, <1>4, <2>2 DEF Submitted, TaskRow
  <2>4. exec[x].status \in {"absent", "pending", "failed"}
    BY <2>2 DEF Retriable, EngineInv, ExecutionTypeOK, LedgerStatus
  <2>5. Effects(x) = {}
    BY <2>4 DEF ExecInv
  <2>6. Effects(x)' = {}
    <3>1. \A q \in Req : q # r => Submitted(q)' = Submitted(q)
      BY <2>3 DEF Submitted
    <3> QED
      BY <1>2, <1>3, <2>5, <3>1 DEF Effects
  <2>7. Ledgered(r)'
    <3>1. "ledger" \notin {"executing", "unknown", "mark_failed"} \cup RunningPc \cup AnsweredPc
      BY DEF RunningPc, AnsweredPc, GeneratePc, SendPc, DisbursePc
    <3>2. Effects(Submitted(r))' = {}
      BY <2>3, <2>6 DEF Effects
    <3> QED
      BY <1>3, <2>3, <2>4, <3>1, <3>2 DEF Ledgered
  <2> QED
    BY <1>1, <1>2, <1>3, <2>3, <2>7, ExecStays DEF ExecInv
<1>7. CASE Replay(r)
  <2>1. PICK x \in ExecutionId :
          /\ exec[x].status = "committed"
          /\ req' = [req EXCEPT ![r] =
               [ContractCall("execute", "done", None, None, None) EXCEPT !.result = exec[x].result]]
          /\ task' = [task EXCEPT ![r].exec = x]
    BY <1>7 DEF Replay
  <2>2. req'[r] = [ContractCall("execute", "done", None, None, None) EXCEPT !.result = exec[x].result]
    BY <2>1 DEF Tabled
  <2>3. /\ req'[r].op = "execute" /\ req'[r].pc = "done" /\ req'[r].result = exec[x].result
    BY <2>2 DEF ContractCall
  <2>4. /\ Submitted(r)' = x
        /\ \A q \in Req : q # r => task'[q].exec = task[q].exec
    BY <1>3, <2>1 DEF Submitted, TaskRow
  <2>5. exec[x] = [status |-> "committed", result |-> req'[r].result]
    BY <2>1, <2>3 DEF EngineInv, ExecutionTypeOK
  <2>6. Ledgered(r)'
    <3>1. "done" \notin {"ledger", "executing", "unknown", "mark_failed"} \cup RunningPc \cup BeforePc
      BY DEF RunningPc, BeforePc, GeneratePc, SendPc, DisbursePc
    <3> QED
      BY <1>3, <2>3, <2>4, <2>5, <3>1 DEF Ledgered
  <2> QED
    BY <1>1, <1>2, <1>3, <2>3, <2>4, <2>6, ExecStays DEF ExecInv
<1> QED
  BY <1>5, <1>6, <1>7

\* The ledger is written: by r, about the id r was submitted under.
LEMMA ExecLedger ==
  ASSUME Tabled, EngineInv, ExecInv, NEW r \in Req, Turn(r), Handles(r, CoreOps), CoreStep(r),
         InsertLedger(r) \/ MarkExecuting(r) \/ Commit(r) \/ MarkFailed(r)
  PROVE  ExecInv'
<1>1. \A q \in Req : q # r => req'[q] = req[q]
  BY CoreKeeps DEF Keeps
<1>2. req[r].pc \in {"ledger", "executing", "commit", "mark_failed"}
  BY DEF InsertLedger, MarkExecuting, Commit, MarkFailed, At
<1>3. /\ req[r].op = "execute" /\ req[r] \in EngineRow /\ Submitted(r) \in ExecutionId
      /\ exec \in [ExecutionId -> LedgerRow] /\ task \in [Req -> TaskRow]
  BY <1>2, LedgerOf DEF ExecutePc
<1>4. PICK x : x = Submitted(r)
  OBVIOUS
<1>5. /\ UNCHANGED <<disbursed, contract>> /\ Ledgered(r)
      /\ \A q \in Req : task'[q].exec = task[q].exec
  <2>1. CASE MarkFailed(r)
    <3>1. task' = [task EXCEPT ![r].batch = {}, ![r].event = None]
      BY <2>1 DEF MarkFailed
    <3>2. \A q \in Req : task'[q].exec = task[q].exec
      BY <1>3, <3>1 DEF TaskRow
    <3> QED
      BY <2>1, <3>2 DEF MarkFailed, contracts, ExecInv
  <2>2. CASE InsertLedger(r) \/ MarkExecuting(r) \/ Commit(r)
    BY <2>2 DEF InsertLedger, MarkExecuting, Commit, contracts, ExecInv
  <2> QED
    BY <2>1, <2>2
<1>6. Submitted(r)' = x /\ \A y \in ExecutionId : Effects(y)' = Effects(y)
  <2>1. req'[r].op = req[r].op
    BY <1>3, CoreKeeps DEF InsertLedger, MarkExecuting, Commit, MarkFailed, Goto, Tabled, EngineRow
  <2> QED
    BY <1>4, <1>5 DEF Submitted, Effects
<1>7. \A y \in ExecutionId : y # x => exec'[y] = exec[y]
  BY <1>3, <1>4 DEF InsertLedger, MarkExecuting, Commit, MarkFailed
<1>8. /\ exec[x].status # "committed"
      /\ exec'[x].status = "failed" => Harmless(x)
      /\ Effects(x) # {} => exec'[x].status \in {"executing", "committed"}
      /\ req'[r].op = "execute"
      /\ Ledgered(r)'
  <2>1. CASE InsertLedger(r)
    <3>1. exec[x].status \in {"absent", "pending", "failed"} /\ Effects(x) = {}
      BY <1>3, <1>4, <1>5, <2>1 DEF Ledgered, InsertLedger, At, BeforePc
    <3>2. /\ exec'[x].status \in {"pending", "failed"}
          /\ exec'[x].status = "failed" => exec[x].status = "failed"
      BY <1>3, <1>4, <2>1, <3>1 DEF InsertLedger, LedgerRow
    <3>3. req'[r] = [req[r] EXCEPT !.pc = "executing"]
      BY <2>1 DEF InsertLedger, Goto, Tabled
    <3>4. req'[r].op = "execute" /\ req'[r].pc = "executing"
      BY <1>3, <3>3 DEF EngineRow
    <3>5. "executing" \notin {"ledger", "unknown", "mark_failed"} \cup RunningPc \cup AnsweredPc
      BY DEF RunningPc, AnsweredPc, GeneratePc, SendPc, DisbursePc
    <3>6. Effects(Submitted(r))' = {}
      BY <1>3, <1>4, <1>6, <3>1 DEF Effects
    <3>7. Ledgered(r)'
      BY <1>6, <3>2, <3>4, <3>5, <3>6 DEF Ledgered
    <3> QED
      BY <1>3, <1>4, <3>1, <3>2, <3>4, <3>7 DEF ExecInv
  <2>2. CASE MarkExecuting(r)
    <3>1. exec[x].status \in {"pending", "failed"} /\ Effects(x) = {}
      BY <1>3, <1>4, <1>5, <2>2 DEF Ledgered, MarkExecuting, At, BeforePc
    <3>2. /\ exec'[x].status \in {"executing", "failed"}
          /\ exec'[x].status = "failed" => exec[x].status = "failed"
      BY <1>3, <1>4, <2>2, <3>1 DEF MarkExecuting, LedgerRow
    <3>3. req'[r] = [req[r] EXCEPT !.pc = "transaction", !.catch = "mark_failed", !.back = "end"]
      BY <2>2 DEF MarkExecuting, Tabled
    <3>4. req'[r].op = "execute" /\ req'[r].pc = "transaction"
      BY <1>3, <3>3 DEF EngineRow
    <3>5. "transaction" \notin {"ledger", "executing", "unknown", "mark_failed"} \cup AnsweredPc
      BY DEF AnsweredPc
    <3>6. Effects(Submitted(r))' = {}
      BY <1>3, <1>4, <1>6, <3>1 DEF Effects
    <3>7. Ledgered(r)'
      BY <1>6, <3>2, <3>4, <3>5, <3>6 DEF Ledgered
    <3> QED
      BY <1>3, <1>4, <3>1, <3>2, <3>4, <3>7 DEF ExecInv
  <2>3. CASE Commit(r)
    <3>1. exec[x].status \in {"executing", "failed"}
      BY <1>3, <1>4, <1>5, <2>3 DEF Ledgered, Commit, At, RunningPc
    <3>2. exec'[x] = [status |-> "committed", result |-> req[r].result]
      BY <1>3, <1>4, <2>3 DEF Commit
    <3>3. req'[r] = [req[r] EXCEPT !.pc = "outbox"]
      BY <2>3 DEF Commit, Goto, Tabled
    <3>4. req'[r].op = "execute" /\ req'[r].pc = "outbox" /\ req'[r].result = req[r].result
      BY <1>3, <3>3 DEF EngineRow
    <3>5. "outbox" \notin {"ledger", "executing", "unknown", "mark_failed"} \cup RunningPc \cup BeforePc
      BY DEF RunningPc, BeforePc, GeneratePc, SendPc, DisbursePc
    <3>6. Ledgered(r)'
      BY <1>6, <3>2, <3>4, <3>5 DEF Ledgered
    <3> QED
      BY <3>1, <3>2, <3>4, <3>6
  <2>4. CASE MarkFailed(r)
    <3>1. exec[x].status \in {"executing", "failed"} /\ Harmless(x)
      BY <1>3, <1>4, <1>5, <2>4 DEF Ledgered, MarkFailed, At, RunningPc
    <3>2. exec'[x].status = "failed"
      BY <1>3, <1>4, <2>4 DEF MarkFailed, LedgerRow
    <3>3. req'[r] = [req[r] EXCEPT !.pc = "failed"]
      BY <2>4 DEF MarkFailed, Goto, Tabled
    <3>4. req'[r].op = "execute" /\ req'[r].pc = "failed"
      BY <1>3, <3>3 DEF EngineRow
    <3>5. "failed" \notin {"ledger", "executing", "unknown", "mark_failed"} \cup RunningPc
                         \cup BeforePc \cup AnsweredPc
      BY DEF RunningPc, BeforePc, AnsweredPc, GeneratePc, SendPc, DisbursePc
    <3>6. Ledgered(r)'
      BY <3>4, <3>5 DEF Ledgered
    <3>7. Effects(x) = {}
      <4> SUFFICES ASSUME NEW q \in Effects(x) PROVE FALSE
        OBVIOUS
      <4>1. CASE disbursed[q] = x
        BY <1>3, <1>4, <3>1, <4>1, ExecutionAssumption DEF ExecInv, Effects, Harmless
      <4>2. CASE Submitted(q) = x /\ contract[q].status # "absent"
        BY <1>3, <1>4, <3>1, <4>2, ExecutionAssumption DEF ExecInv, Effects, Harmless, Action
      <4> QED
        BY <4>1, <4>2 DEF Effects
    <3> QED
      BY <3>1, <3>2, <3>4, <3>6, <3>7
  <2> QED
    BY <2>1, <2>2, <2>3, <2>4
<1>9. /\ \A y \in ExecutionId : exec[y].status = "committed" => exec'[y] = exec[y]
      /\ \A y \in ExecutionId : exec'[y].status = "failed" => Harmless(y)
      /\ \A y \in ExecutionId : Effects(y) # {} => exec'[y].status \in {"executing", "committed"}
  BY <1>7, <1>8 DEF ExecInv
<1> QED
  BY <1>1, <1>3, <1>5, <1>8, <1>9, ExecStays DEF ExecInv

\* A row is made: the first and only one of the id.
LEMMA ExecTakesEffect ==
  ASSUME EngineInv, ExecInv, NEW r \in Req, Turn(r), UNCHANGED exec,
         \A q \in Req : q # r => /\ req'[q] = req[q] /\ disbursed'[q] = disbursed[q]
                                 /\ contract'[q] = contract[q],
         \A q \in Req : task'[q].exec = task[q].exec,
         NEW x \in ExecutionId, x = Submitted(r), req[r].op = "execute", req'[r].op = "execute",
         Effects(x) = {}, exec[x].status \in {"executing", "failed"}, ~Harmless(x),
         contract'[r].status # "absent" => Action(r) = "contract.generate",
         \/ disbursed'[r] = disbursed[r]
         \/ disbursed[r] = None /\ disbursed'[r] = x /\ ActionType[x] = "disbursement.record",
         req'[r].pc \in RunningPc, req'[r].pc \notin BeforePc \cup {"unknown", "mark_failed"}
  PROVE  ExecInv'
<1>1. \A q \in Req : Submitted(q)' = Submitted(q)
  BY DEF Submitted
<1>2. exec[x].status = "executing"
  BY DEF ExecInv
<1>3. Effects(x)' \subseteq {r}
  BY <1>1 DEF Effects
<1>4. \A y \in ExecutionId : y # x => Effects(y)' = Effects(y)
  <2> SUFFICES ASSUME NEW y \in ExecutionId, y # x, NEW q \in Req PROVE q \in Effects(y)' <=> q \in Effects(y)
    BY DEF Effects
  <2>1. CASE q = r
    <3>1. Submitted(r) # y /\ (disbursed'[r] = y <=> disbursed[r] = y)
      BY ExecutionAssumption
    <3> QED
      BY <1>1, <2>1, <3>1 DEF Effects
  <2>2. CASE q # r
    BY <1>1, <2>2 DEF Effects
  <2> QED
    BY <2>1, <2>2
<1>5. \A q \in Req : Submitted(q)' # None => req'[q].op = "execute"
  BY <1>1 DEF ExecInv
<1>6. \A q \in Req : req'[q].op = "execute" /\ contract'[q].status # "absent" =>
        Action(q)' = "contract.generate"
  BY <1>1 DEF ExecInv, Action
<1>7. \A q \in Req : disbursed'[q] # None => ActionType[disbursed'[q]] = "disbursement.record"
  BY DEF ExecInv
<1>8. \A y \in ExecutionId : Effects(y)' # {} => exec'[y].status \in {"executing", "committed"}
  BY <1>2, <1>4 DEF ExecInv
<1>9. \A y \in ExecutionId : \A s, q \in Effects(y)' : s = q
  BY <1>3, <1>4 DEF ExecInv
<1>10. Ledgered(r)'
  <2>1. req'[r].pc \notin {"ledger", "executing"} \cup AnsweredPc
    BY DEF RunningPc, AnsweredPc, GeneratePc, SendPc, DisbursePc
  <2> QED
    BY <1>1, <1>2, <2>1 DEF Ledgered
<1>11. \A q \in Req : Ledgered(q)'
  BY <1>10, OthersLedgered
<1>12. \A y \in ExecutionId : exec'[y].status = "failed" => Harmless(y)'
  BY DEF ExecInv, Harmless
<1> QED
  BY <1>5, <1>6, <1>7, <1>8, <1>9, <1>11, <1>12 DEF ExecInv

LEMMA ExecWrites ==
  ASSUME Tabled, EngineInv, ExecInv, NEW r \in Req, Turn(r), Handles(r, CoreOps), CoreStep(r),
         (InsertContract(r) /\ UNCHANGED execution) \/ Disburse(r)
  PROVE  ExecInv'
<1>1. \A q \in Req : q # r => req'[q] = req[q]
  BY CoreKeeps DEF Keeps
<1>2. req[r].pc \in {"contract", "disburse"}
  BY DEF InsertContract, Disburse, At
<1>3. /\ req[r].op \in {"generate", "execute"} /\ req[r] \in EngineRow
      /\ InOrder(req[r], Action(r))
      /\ req[r].op = "execute" => Submitted(r) \in ExecutionId
      /\ req[r].pc = "disburse" => req[r].op = "execute"
  BY <1>2, EngineAtWork DEF EnginePc, GeneratePc, DisbursePc
<1>4. /\ UNCHANGED exec /\ \A q \in Req : task'[q].exec = task[q].exec
  BY DEF InsertContract, Disburse, execution
<1>5. /\ contract \in [Req -> [status : ContractStatus, version : Nat, decision : Decision \cup {None}]]
      /\ disbursed \in [Req -> ExecutionId \cup {None}]
  BY DEF EngineInv, ContractsTypeOK, ExecutionTypeOK
<1>6. CASE req[r].op = "execute"
  <2>1. PICK x : x = Submitted(r)
    OBVIOUS
  <2>2. /\ x \in ExecutionId /\ Effects(x) = {} /\ exec[x].status \in {"executing", "failed"}
    <3>1. Ledgered(r) /\ req[r].pc \in BeforePc /\ req[r].pc \in RunningPc
      BY <1>2 DEF ExecInv, BeforePc, RunningPc, GeneratePc, DisbursePc
    <3> QED
      BY <1>3, <1>6, <2>1, <3>1 DEF Ledgered
  <2>3. CASE InsertContract(r) /\ UNCHANGED execution
    <3>1. /\ Action(r) = "contract.generate" /\ req[r].back = "end"
      BY <1>3, <1>6, <2>3 DEF InsertContract, At, InOrder, GeneratePc
    <3>2. /\ disbursed' = disbursed
          /\ \A q \in Req : q # r => contract'[q] = contract[q]
      BY <1>5, <2>3 DEF InsertContract, execution
    <3>3. req'[r] = [req[r] EXCEPT !.result = r, !.pc = req[r].back]
      BY <2>3 DEF InsertContract, Tabled
    <3>4. req'[r].op = "execute" /\ req'[r].pc = "end"
      BY <1>3, <1>6, <3>1, <3>3 DEF EngineRow
    <3>5. "end" \in RunningPc /\ "end" \notin BeforePc \cup {"unknown", "mark_failed"}
      BY DEF RunningPc, BeforePc, GeneratePc
    <3>6. ~Harmless(x)
      BY <2>1, <3>1 DEF Harmless, Action
    <3> QED
      BY <1>1, <1>4, <1>6, <2>1, <2>2, <3>1, <3>2, <3>4, <3>5, <3>6, ExecTakesEffect
  <2>4. CASE Disburse(r)
    <3>1. Action(r) = "disbursement.record"
      BY <1>3, <1>6, <2>4 DEF Disburse, At, InOrder, DisbursePc
    <3>2. contract' = contract /\ disbursed' = [disbursed EXCEPT ![r] = x]
      BY <2>1, <2>4 DEF Disburse, contracts
    <3>3. disbursed[r] = None
      BY <2>1, <2>2 DEF EngineInv, MadeBy, Effects
    <3>4. contract[r].status = "absent"
      BY <2>1, <2>2 DEF Effects
    <3>5. req'[r] = [req[r] EXCEPT !.pc = "event"]
      BY <2>4 DEF Disburse, Goto, Tabled
    <3>6. req'[r].op = "execute" /\ req'[r].pc = "event"
      BY <1>3, <1>6, <3>5 DEF EngineRow
    <3>7. "event" \in RunningPc /\ "event" \notin BeforePc \cup {"unknown", "mark_failed"}
      BY DEF RunningPc, BeforePc, GeneratePc, DisbursePc
    <3>8. ~Harmless(x) /\ ActionType[x] = "disbursement.record"
      BY <2>1, <3>1 DEF Harmless, Action
    <3>9. disbursed'[r] = x /\ \A q \in Req : q # r => disbursed'[q] = disbursed[q]
      BY <1>5, <3>2
    <3> QED
      BY <1>1, <1>4, <1>6, <2>1, <2>2, <3>2, <3>3, <3>4, <3>6, <3>7, <3>8, <3>9, ExecTakesEffect
  <2> QED
    BY <2>3, <2>4
<1>7. CASE req[r].op = "generate"
  <2>1. InsertContract(r) /\ UNCHANGED execution
    BY <1>3, <1>7 DEF Disburse, At
  <2>2. req'[r] = [req[r] EXCEPT !.result = r, !.pc = req[r].back]
    BY <2>1 DEF InsertContract, Tabled
  <2>3. req'[r].op = "generate"
    BY <1>3, <1>7, <2>2 DEF EngineRow
  <2>4. \A q \in Req : q # r => contract'[q] = contract[q]
    BY <1>5, <2>1 DEF InsertContract
  <2>5. Submitted(r) = None /\ \A q \in Req : Submitted(q)' = Submitted(q)
    BY <1>4, <1>7 DEF ExecInv, Submitted
  <2>6. \A y \in ExecutionId : Effects(y)' = Effects(y)
    <3>1. disbursed' = disbursed
      BY <2>1 DEF execution
    <3> QED
      BY <2>4, <2>5, <3>1, ExecutionAssumption DEF Effects
  <2>7. \A q \in Req : Ledgered(q)'
    <3>1. Ledgered(r)'
      BY <2>3 DEF Ledgered
    <3> QED
      BY <1>1, <1>4, <3>1, OthersLedgered
  <2>8. \A q \in Req : Submitted(q)' # None => req'[q].op = "execute"
    BY <1>1, <2>5 DEF ExecInv
  <2>9. \A q \in Req : req'[q].op = "execute" /\ contract'[q].status # "absent" =>
          Action(q)' = "contract.generate"
    BY <1>1, <2>3, <2>4, <2>5 DEF ExecInv, Action
  <2>10. \A q \in Req : disbursed'[q] # None => ActionType[disbursed'[q]] = "disbursement.record"
    BY <2>1 DEF ExecInv, execution
  <2>11. \A y \in ExecutionId : exec'[y].status = "failed" => Harmless(y)'
    BY <1>4 DEF ExecInv, Harmless
  <2> QED
    BY <1>4, <2>6, <2>7, <2>8, <2>9, <2>10, <2>11 DEF ExecInv
<1> QED
  BY <1>3, <1>6, <1>7

LEMMA ExecStep ==
  ASSUME "execute" \notin MayThrow,
         Tabled, EngineInv, ExecInv, NEW r \in Req, Turn(r), Handles(r, CoreOps), CoreStep(r)
  PROVE  ExecInv'
<1>1. CASE ContractsStep(r) /\ UNCHANGED execution
  BY <1>1, ExecArrives, ExecTurns, ExecWrites DEF ContractsStep
<1>2. CASE ExecutionStep(r)
  <2>1. ~EventFails(r)
    BY DEF EventFails
  <2> QED
    BY <1>2, <2>1, ExecArrives, ExecLedger, ExecTurns, ExecWrites DEF ExecutionStep
<1>3. CASE ScoreStep(r) /\ UNCHANGED <<contracts, execution>>
  <2>1. req[r].op \notin EngineOps /\ req'[r].op \notin EngineOps /\ \A q \in Req : q # r => req'[q] = req[q]
    BY <1>3, ScoreMoves
  <2>2. contract[r].status = "absent"
    BY <2>1 DEF EngineInv, MadeBy
  <2> QED
    BY <1>3, <2>1, <2>2, ExecElsewhere DEF contracts, execution, EngineOps
<1> QED
  BY <1>1, <1>2, <1>3 DEF CoreStep

LEMMA ExecInvariant ==
  ASSUME MaxInFlight <= 1, "execute" \notin MayThrow
  PROVE  Spec => []ExecInv
<1>1. Tabled /\ InTurn /\ EngineInv /\ ExecInv /\ [Next]_vars => ExecInv'
  <2> SUFFICES ASSUME Tabled, InTurn, EngineInv, ExecInv, [Next]_vars PROVE ExecInv'
    OBVIOUS
  <2>1. CASE UNCHANGED vars
    <3>1. UNCHANGED <<req, contract, disbursed, exec, task>>
      BY <2>1 DEF vars, server, core, contracts, execution
    <3>2. \A r \in Req : Submitted(r)' = Submitted(r) /\ Action(r)' = Action(r)
      BY <3>1 DEF Submitted, Action
    <3>3. \A x \in ExecutionId : Effects(x)' = Effects(x)
      BY <3>1, <3>2 DEF Effects
    <3>4. \A r \in Req : Ledgered(r)'
      <4> SUFFICES ASSUME NEW r \in Req PROVE Ledgered(r)'
        OBVIOUS
      <4>1. req[r].op = "execute" => Submitted(r) \in ExecutionId
        BY DEF EngineInv, EnginePlaced, EngineOps
      <4>2. req[r].op = "execute" => Effects(Submitted(r))' = Effects(Submitted(r))
        BY <3>1, <3>2, <3>3, <4>1 DEF Effects
      <4> QED
        BY <3>1, <3>2, <4>2 DEF ExecInv, Ledgered, Harmless
    <3> QED
      BY <3>1, <3>2, <3>3, <3>4 DEF ExecInv, Harmless
  <2>2. ASSUME NEW r \in Req, Turn(r), CoreStep(r), Handles(r, CoreOps)
        PROVE  ExecInv'
    BY <2>2, ExecStep
  <2>3. ASSUME NEW r \in Req, Turn(r), UNCHANGED core, Away(r, CoreOps)
        PROVE  ExecInv'
    <3>1. req[r].op \notin EngineOps /\ req[r].op # "execute" /\ req'[r].op # "execute"
          /\ \A q \in Req : q # r => req'[q] = req[q]
      BY <2>3 DEF Away, CoreOps, EngineOps
    <3>2. contract[r].status = "absent"
      BY <3>1 DEF EngineInv, MadeBy
    <3> QED
      BY <2>3, <3>1, <3>2, ExecElsewhere DEF core, contracts, execution
  <2>4. ASSUME NEW r \in Req, Turn(r), Break(r)
        PROVE  ExecInv'
    <3>1. /\ UNCHANGED core /\ req'[r].op = req[r].op
          /\ \A q \in Req : q # r => req'[q] = req[q]
      BY <2>4, BreakEnds
    <3>2. req[r].op = "execute" => req'[r].pc = "died"
      <4> SUFFICES ASSUME req[r].op = "execute" PROVE req'[r].pc = "died"
        OBVIOUS
      <4>1. req'[r] = [req[r] EXCEPT !.pc = "died"] /\ req[r] \in EngineRow
        BY <2>4, BreakKeeps DEF EngineInv, EnginePlaced, EngineOps
      <4> QED
        BY <4>1 DEF EngineRow
    <3> QED
      BY <2>4, <3>1, <3>2, ExecGoesOn DEF core, contracts, execution
  <2> QED
    BY <2>1, <2>2, <2>3, <2>4, AtCore, TurnOfStep DEF Next
<1> QED
  BY <1>1, ExecBegins, AlwaysTabled, AlwaysInTurn, EngineInvariant, PTL DEF Spec

\* One request at a time, and while no statement of an execution fails, an
\* execution id takes effect once (Execution's OncePerId), although a process
\* may end between any two statements and the id be submitted again: what is
\* cut off stays executing in the ledger, and only refused actions are marked
\* failed.
THEOREM EffectIsOnce ==
  ASSUME MaxInFlight <= 1, "execute" \notin MayThrow
  PROVE  Spec => []OncePerId
<1>1. ExecInv => OncePerId
  <2> SUFFICES ASSUME ExecInv, NEW x \in ExecutionId PROVE Cardinality(Effects(x)) <= 1
    BY DEF OncePerId
  <2>1. CASE Effects(x) = {}
    <3>1. Cardinality(Effects(x)) = 0
      BY <2>1, FS_EmptySet
    <3> QED
      BY <3>1
  <2>2. CASE Effects(x) # {}
    <3>1. PICK r : Effects(x) = {r}
      BY <2>2 DEF ExecInv
    <3>2. Cardinality({r}) = 1
      BY ONLY FS_Singleton
    <3> QED
      BY <3>1, <3>2
  <2> QED
    BY <2>1, <2>2
<1> QED
  BY <1>1, ExecInvariant, PTL

\* Under the same conditions everybody who submits an id and is answered is
\* given one result (Execution's SameAnswer).
THEOREM AnswerIsTheSame ==
  ASSUME MaxInFlight <= 1, "execute" \notin MayThrow
  PROVE  Spec => []SameAnswer
<1>1. ExecInv => SameAnswer
  <2> SUFFICES ASSUME ExecInv, NEW r \in Req, NEW q \in Req,
                      req[r].op = "execute", req[r].pc = "done",
                      req[q].op = "execute", req[q].pc = "done", Submitted(r) = Submitted(q)
               PROVE  req[r].result = req[q].result
    BY DEF SameAnswer
  <2>1. "done" \in AnsweredPc
    BY DEF AnsweredPc
  <2>2. /\ exec[Submitted(r)] = [status |-> "committed", result |-> req[r].result]
        /\ exec[Submitted(q)] = [status |-> "committed", result |-> req[q].result]
    BY <2>1 DEF ExecInv, Ledgered
  <2>3. exec[Submitted(r)].result = req[r].result /\ exec[Submitted(q)].result = req[q].result
    BY <2>2
  <2> QED
    BY <2>3
<1> QED
  BY <1>1, ExecInvariant, PTL

LEMMA AtGuarantors ==
  ASSUME Tabled, NEW r \in Req, Step(r)
  PROVE  \/ GuarantorsStep(r) /\ Handles(r, GuarantorOps)
         \/ UNCHANGED guarantors /\ Away(r, GuarantorOps)
<1>1. GuarantorOps \in Endpoints
  BY DEF Endpoints
<1>2. CASE GuarantorsStep(r) /\ Handles(r, GuarantorOps)
  BY <1>2
<1>3. CASE ~(GuarantorsStep(r) /\ Handles(r, GuarantorOps))
  <2>1. UNCHANGED guarantors
    BY <1>3 DEF Step, people, files
  <2>2. "invite" \in GuarantorOps
        /\ "invite" \notin CoreOps \cup AccountOps \cup MembershipOps \cup MeetingOps
                           \cup PolicyOps \cup DocumentOps \cup UniversityOps \cup AssessmentOps
    BY DEF CoreOps, GuarantorOps, AccountOps, MembershipOps, MeetingOps,
           PolicyOps, DocumentOps, UniversityOps, AssessmentOps
  <2>3. \E ops \in Endpoints \ {GuarantorOps} : Handles(r, ops) /\ Keeps(r, ops)
    BY <1>3, <2>2, CoreKeeps, AccountKeeps, MembershipKeeps, MeetingKeeps, PolicyKeeps,
       DocumentKeeps, UniversityKeeps, AssessmentKeeps DEF Step, Endpoints
  <2> QED
    BY <2>1, <2>3, <1>1, ElsewhereIsAway
<1> QED
  BY <1>2, <1>3

-------------------------------------------------------------------------------
(***************************************************************************)
(* Guarantors.                                                              *)
(***************************************************************************)
GuarantorRow ==
  [op : GuarantorOps,
   pc : {"guarantor", "link", "token", "account", "accept", "decline", "clear", "refused"} \cup Ended,
   catch : {"failed"}, back : {"done"}, guarantor : Guarantor, email : Email \cup {None}]

GuarantorAnswer == [email : Email \cup {None}, token : Guarantor \cup {None}, activated : BOOLEAN]

GuarantorsInv ==
  /\ GuarantorsTypeOK
  /\ \A r \in Req : req[r].op \in GuarantorOps => req[r] \in GuarantorRow

LEMMA GuarantorsBegin == Init => GuarantorsInv
<1> SUFFICES ASSUME Init PROVE GuarantorsInv
  OBVIOUS
<1>1. \E e \in Email :
        guarantor = [g \in Guarantor |->
          [email |-> IF g = 0 THEN e ELSE None, token |-> IF g = 0 THEN 0 ELSE None,
           activated |-> FALSE]]
  <2>1. Varying(GuarantorOps, Email) \subseteq Email
    BY VaryingIn, GuarantorsAssumption
  <2> QED
    BY <2>1 DEF Init, GuarantorsInit
<1>2. guarantor \in [Guarantor -> GuarantorAnswer]
  BY <1>1 DEF Guarantor, GuarantorAnswer
<1>3. link \in [Guarantor -> LinkStatus]
  BY DEF Init, GuarantorsInit, LinkStatus
<1>4. account \in [Email -> Guarantor \cup {None, Someone}]
  BY DEF Init, GuarantorsInit
<1>5. \A r \in Req : req[r].op \notin GuarantorOps
  BY DEF Init, ServerInit, GuarantorOps
<1> QED
  BY <1>2, <1>3, <1>4, <1>5 DEF GuarantorsInv, GuarantorsTypeOK, GuarantorAnswer

\* A handler of this desk that goes on.
LEMMA GuarantorGoes ==
  ASSUME Tabled, GuarantorsInv, NEW r \in Req, Handles(r, GuarantorOps), req[r].pc # "idle",
         NEW pc, Goto(r, pc), pc \in {"link", "accept", "clear", "done"}
  PROVE  /\ req[r] \in GuarantorRow /\ req'[r] \in GuarantorRow
         /\ req'[r].op = req[r].op /\ req'[r].guarantor = req[r].guarantor
         /\ req'[r].pc = pc /\ \A q \in Req : q # r => req'[q] = req[q]
<1>1. req[r] \in GuarantorRow
  BY DEF Handles, Tabled, GuarantorsInv
<1>2. req'[r] = [req[r] EXCEPT !.pc = pc] /\ \A q \in Req : q # r => req'[q] = req[q]
  BY DEF Goto, Tabled
<1> QED
  BY <1>1, <1>2 DEF GuarantorRow, Ended

LEMMA GuarantorRaises ==
  ASSUME Tabled, GuarantorsInv, NEW r \in Req, Handles(r, GuarantorOps), req[r].pc # "idle", Raise(r)
  PROVE  /\ req[r] \in GuarantorRow /\ req'[r] \in GuarantorRow
         /\ req'[r].op = req[r].op /\ req'[r].guarantor = req[r].guarantor
         /\ req'[r].pc = "failed" /\ \A q \in Req : q # r => req'[q] = req[q]
<1>1. req[r] \in GuarantorRow
  BY DEF Handles, Tabled, GuarantorsInv
<1>2. /\ req'[r] = [req[r] EXCEPT !.pc = req[r].catch, !.catch = "failed"]
      /\ \A q \in Req : q # r => req'[q] = req[q]
  BY DEF Raise, Tabled
<1> QED
  BY <1>1, <1>2 DEF GuarantorRow, Ended

LEMMA GuarantorArrives ==
  ASSUME Tabled, GuarantorsInv, NEW r \in Req, req[r].pc = "idle", NEW op \in GuarantorOps,
         NEW pc \in {"guarantor", "token", "account", "decline", "done", "refused"},
         NEW g \in Guarantor, NEW e \in Email \cup {None}, Begin(r, GuarantorCall(op, pc, g, e))
  PROVE  /\ req[r].op \notin GuarantorOps /\ req'[r] \in GuarantorRow
         /\ req'[r].op = op /\ req'[r].guarantor = g /\ req'[r].email = e /\ req'[r].pc = pc
         /\ \A q \in Req : q # r => req'[q] = req[q]
<1>1. req[r].op \notin GuarantorOps
  BY DEF GuarantorsInv, GuarantorRow, Ended
<1>2. req'[r] = GuarantorCall(op, pc, g, e) /\ \A q \in Req : q # r => req'[q] = req[q]
  BY DEF Begin, Tabled
<1> QED
  BY <1>1, <1>2 DEF GuarantorCall, GuarantorRow, Ended

\* Another desk, or a stop.
LEMMA GuarantorsRest ==
  ASSUME GuarantorsInv, NEW r \in Req, \A q \in Req : q # r => req'[q] = req[q],
         GuarantorsTypeOK', req'[r].op \in GuarantorOps => req'[r] \in GuarantorRow
  PROVE  GuarantorsInv'
BY DEF GuarantorsInv

LEMMA GuarantorsStepKeeps ==
  ASSUME Tabled, GuarantorsInv, NEW r \in Req, Handles(r, GuarantorOps), GuarantorsStep(r)
  PROVE  GuarantorsInv'
<1>1. /\ guarantor \in [Guarantor -> GuarantorAnswer] /\ link \in [Guarantor -> LinkStatus]
      /\ account \in [Email -> Guarantor \cup {None, Someone}]
  BY DEF GuarantorsInv, GuarantorsTypeOK, GuarantorAnswer
<1>2. r \in Guarantor /\ None \notin Guarantor
  BY GuarantorsAssumption DEF Guarantor
<1>3. CASE Invite(r)
  <2>1. req[r].pc = "idle"
    BY <1>3 DEF Invite, CanStart
  <2>2. PICK e \in Email : Begin(r, GuarantorCall("invite", "guarantor", r, e))
    BY <1>3 DEF Invite
  <2>3. UNCHANGED guarantors
    BY <1>3 DEF Invite
  <2> QED
    BY <1>2, <2>1, <2>2, <2>3, GuarantorArrives, GuarantorsRest DEF GuarantorOps, guarantors, GuarantorsInv, GuarantorsTypeOK
<1>4. CASE Resend(r)
  <2>1. req[r].pc = "idle"
    BY <1>4 DEF Resend, CanStart
  <2>2. PICK g \in Guarantor : Begin(r, GuarantorCall("resend", "token", g, None))
    BY <1>4 DEF Resend
  <2>3. UNCHANGED guarantors
    BY <1>4 DEF Resend
  <2> QED
    BY <2>1, <2>2, <2>3, GuarantorArrives, GuarantorsRest DEF GuarantorOps, guarantors, GuarantorsInv, GuarantorsTypeOK
<1>5. CASE Accept(r)
  <2>1. req[r].pc = "idle"
    BY <1>5 DEF Accept, CanStart
  <2>2. PICK g \in Guarantor : Begin(r, GuarantorCall("accept", "account", g, guarantor[g].email))
    BY <1>5 DEF Accept, Invited
  <2>3. UNCHANGED guarantors /\ guarantor[g].email \in Email \cup {None}
    BY <1>1, <1>5 DEF Accept, GuarantorAnswer
  <2> QED
    BY <2>1, <2>2, <2>3, GuarantorArrives, GuarantorsRest DEF GuarantorOps, guarantors, GuarantorsInv, GuarantorsTypeOK
<1>6. CASE Decline(r)
  <2>1. req[r].pc = "idle"
    BY <1>6 DEF Decline, CanStart
  <2>2. PICK g \in Guarantor, pc \in {"done", "decline"} : Begin(r, GuarantorCall("decline", pc, g, None))
    BY <1>6 DEF Decline, Invited
  <2>3. UNCHANGED guarantors
    BY <1>6 DEF Decline
  <2> QED
    BY <2>1, <2>2, <2>3, GuarantorArrives, GuarantorsRest DEF GuarantorOps, guarantors, GuarantorsInv, GuarantorsTypeOK
<1>7. CASE FindLinked(r)
  <2>1. req[r].pc = "idle"
    BY <1>7 DEF FindLinked, CanStart
  <2>2. PICK op \in {"withdraw", "receipt"} :
          \E g \in Guarantor : Begin(r, GuarantorCall(op, "refused", g, None))
    BY <1>7 DEF FindLinked
  <2>3. PICK g \in Guarantor : Begin(r, GuarantorCall(op, "refused", g, None))
    BY <2>2
  <2>4. UNCHANGED guarantors /\ op \in GuarantorOps
    BY <1>7 DEF FindLinked, GuarantorOps
  <2> QED
    BY <2>1, <2>3, <2>4, GuarantorArrives, GuarantorsRest DEF guarantors, GuarantorsInv, GuarantorsTypeOK
<1>8. CASE req[r].pc # "idle"
  <2>1. req[r] \in GuarantorRow
    BY <1>8 DEF Handles, Tabled, GuarantorsInv
  <2>2. PICK g, e : g = req[r].guarantor /\ e = req[r].email
    OBVIOUS
  <2>3. g \in Guarantor /\ e \in Email \cup {None}
    BY <2>1, <2>2 DEF GuarantorRow
  <2>4. \/ Goto(r, "link") \/ Goto(r, "accept") \/ Goto(r, "clear") \/ Goto(r, "done") \/ Raise(r)
    <3>1. ~(Invite(r) \/ Resend(r) \/ Accept(r) \/ Decline(r) \/ FindLinked(r))
      BY <1>8 DEF Invite, Resend, Accept, Decline, FindLinked, CanStart
    <3> QED
      BY <3>1 DEF GuarantorsStep, InsertGuarantor, InsertLink, RenewToken, CheckAccount,
         AccountExists, AcceptTransaction, MarkDeclined, ClearToken, StatementRefused
  <2>5. req'[r] \in GuarantorRow /\ \A q \in Req : q # r => req'[q] = req[q]
    <3>1. ASSUME NEW pc \in {"link", "accept", "clear", "done"}, Goto(r, pc)
          PROVE  req'[r] \in GuarantorRow /\ \A q \in Req : q # r => req'[q] = req[q]
      BY <1>8, <3>1, GuarantorGoes
    <3>2. CASE Raise(r)
      BY <1>8, <3>2, GuarantorRaises
    <3> QED
      BY <2>4, <3>1, <3>2
  <2>6. guarantor' \in [Guarantor -> GuarantorAnswer]
    <3>1. CASE InsertGuarantor(r)
      <4>1. guarantor' = [guarantor EXCEPT ![r] = [email |-> e, token |-> r, activated |-> FALSE]]
        BY <2>2, <3>1 DEF InsertGuarantor
      <4> QED
        BY <1>1, <1>2, <2>3, <4>1 DEF GuarantorAnswer
    <3>2. CASE RenewToken(r) \/ ClearToken(r)
      <4>1. \E t \in {r, None} : guarantor' = [guarantor EXCEPT ![g].token = t]
        BY <2>2, <3>2 DEF RenewToken, ClearToken
      <4> QED
        BY <1>1, <1>2, <2>3, <4>1 DEF GuarantorAnswer
    <3>3. CASE AcceptTransaction(r)
      <4>1. guarantor' = [guarantor EXCEPT ![g].activated = TRUE, ![g].token = None]
        BY <2>2, <3>3 DEF AcceptTransaction
      <4> QED
        BY <1>1, <2>3, <4>1 DEF GuarantorAnswer
    <3>4. CASE ~(InsertGuarantor(r) \/ RenewToken(r) \/ ClearToken(r) \/ AcceptTransaction(r))
      <4>1. guarantor' = guarantor
        BY <3>4 DEF GuarantorsStep, guarantors, Invite, InsertLink, Resend, Accept, CheckAccount,
           AccountExists, Decline, MarkDeclined, FindLinked, StatementRefused
      <4> QED
        BY <1>1, <4>1
    <3> QED
      BY <3>1, <3>2, <3>3, <3>4
  <2>7. link' \in [Guarantor -> LinkStatus]
    <3>1. CASE InsertLink(r) \/ MarkDeclined(r) \/ AcceptTransaction(r)
      <4>1. \E i \in Guarantor, s \in LinkStatus : link' = [link EXCEPT ![i] = s]
        <5>1. CASE InsertLink(r)
          <6>1. link' = [link EXCEPT ![r] = "pending_invitation"] /\ "pending_invitation" \in LinkStatus
            BY <5>1 DEF InsertLink, LinkStatus
          <6> QED
            BY <1>2, <6>1
        <5>2. CASE MarkDeclined(r)
          <6>1. link' = [link EXCEPT ![g] = "declined"] /\ "declined" \in LinkStatus
            BY <2>2, <5>2 DEF MarkDeclined, LinkStatus
          <6> QED
            BY <2>3, <6>1
        <5>3. CASE AcceptTransaction(r)
          <6>1. PICK s : s = IF link[g] = "absent" THEN "absent" ELSE "active"
            OBVIOUS
          <6>2. link' = [link EXCEPT ![g] = s] /\ s \in LinkStatus
            BY <1>1, <2>2, <2>3, <5>3, <6>1 DEF AcceptTransaction, LinkStatus
          <6> QED
            BY <2>3, <6>2
        <5> QED
          BY <3>1, <5>1, <5>2, <5>3
      <4> QED
        BY <1>1, <4>1
    <3>2. CASE ~(InsertLink(r) \/ MarkDeclined(r) \/ AcceptTransaction(r))
      <4>1. link' = link
        BY <3>2 DEF GuarantorsStep, guarantors, Invite, InsertGuarantor, Resend, RenewToken, Accept,
           CheckAccount, AccountExists, Decline, ClearToken, FindLinked, StatementRefused
      <4> QED
        BY <1>1, <4>1
    <3> QED
      BY <3>1, <3>2
  <2>8. account' \in [Email -> Guarantor \cup {None, Someone}]
    <3>1. CASE AcceptTransaction(r)
      <4>1. account' = [account EXCEPT ![e] = g]
        BY <2>2, <3>1 DEF AcceptTransaction
      <4> QED
        BY <1>1, <2>3, <4>1
    <3>2. CASE ~AcceptTransaction(r)
      <4>1. account' = account
        BY <3>2 DEF GuarantorsStep, guarantors, Invite, InsertGuarantor, InsertLink, Resend, RenewToken,
           Accept, CheckAccount, AccountExists, Decline, MarkDeclined, ClearToken, FindLinked,
           StatementRefused
      <4> QED
        BY <1>1, <4>1
    <3> QED
      BY <3>1, <3>2
  <2> QED
    BY <2>5, <2>6, <2>7, <2>8, GuarantorsRest DEF GuarantorsTypeOK, GuarantorAnswer
<1>9. req[r].pc = "idle" => Invite(r) \/ Resend(r) \/ Accept(r) \/ Decline(r) \/ FindLinked(r)
  BY DEF GuarantorsStep, InsertGuarantor, InsertLink, RenewToken,
     CheckAccount, AccountExists, AcceptTransaction, MarkDeclined, ClearToken, StatementRefused, At
<1> QED
  BY <1>3, <1>4, <1>5, <1>6, <1>7, <1>8, <1>9

LEMMA GuarantorsBreak ==
  ASSUME Tabled, GuarantorsInv, NEW r \in Req, Break(r)
  PROVE  /\ UNCHANGED guarantors /\ \A q \in Req : q # r => req'[q] = req[q]
         /\ req'[r].op = req[r].op
         /\ req[r].op \in GuarantorOps =>
              /\ req'[r] \in GuarantorRow /\ req'[r].guarantor = req[r].guarantor
              /\ req'[r].pc \in {"failed", "died"}
<1>1. /\ UNCHANGED guarantors /\ req'[r].op = req[r].op
      /\ \A q \in Req : q # r => req'[q] = req[q]
      /\ \/ req'[r] = [req[r] EXCEPT !.pc = req[r].catch, !.catch = "failed"]
         \/ req'[r] = [req[r] EXCEPT !.pc = "died"]
  BY BreakEnds DEF Break, people
<1>2. ASSUME req[r].op \in GuarantorOps
      PROVE  /\ req'[r] \in GuarantorRow /\ req'[r].guarantor = req[r].guarantor
             /\ req'[r].pc \in {"failed", "died"}
  <2>1. req[r] \in GuarantorRow
    BY <1>2 DEF GuarantorsInv
  <2> QED
    BY <1>1, <2>1 DEF GuarantorRow, Ended
<1> QED
  BY <1>1, <1>2

LEMMA AlwaysGuarantors == Spec => []GuarantorsInv
<1>1. Tabled /\ GuarantorsInv /\ [Next]_vars => GuarantorsInv'
  <2> SUFFICES ASSUME Tabled, GuarantorsInv, [Next]_vars PROVE GuarantorsInv'
    OBVIOUS
  <2>1. CASE UNCHANGED vars
    BY <2>1 DEF vars, server, people, guarantors, GuarantorsInv, GuarantorsTypeOK
  <2>2. ASSUME NEW r \in Req, UNCHANGED guarantors, Away(r, GuarantorOps)
        PROVE  GuarantorsInv'
    BY <2>2, GuarantorsRest DEF Away, guarantors, GuarantorsInv, GuarantorsTypeOK
  <2>3. ASSUME NEW r \in Req, Break(r)
        PROVE  GuarantorsInv'
    BY <2>3, GuarantorsBreak, GuarantorsRest DEF guarantors, GuarantorsInv, GuarantorsTypeOK
  <2> QED
    BY <2>1, <2>2, <2>3, AtGuarantors, GuarantorsStepKeeps DEF Next
<1> QED
  BY <1>1, GuarantorsBegin, AlwaysTabled, PTL DEF Spec

\* One request at a time: what a handler of this desk found is still so when it
\* writes.
Open(g) == ~guarantor[g].activated /\ link[g] # "declined"

Asked(r) ==
  req[r].op \in GuarantorOps =>
    /\ req[r].pc \in {"guarantor", "link"} => req[r].op = "invite" /\ link[r] = "absent"
    /\ req[r].pc \in {"token", "account", "accept", "decline"} =>
         /\ req[r].op # "invite"
         /\ req[r].guarantor \in Req => req[req[r].guarantor].op = "invite"
    /\ req[r].pc \in {"account", "accept", "decline"} => Open(req[r].guarantor)

\* Who was invited, and who is a guarantor for good.
Inviting(g) == guarantor[g].token # None \/ link[g] # "absent" => req[g].op = "invite"

AnsweredInv ==
  /\ \A g \in Req : Inviting(g)
  /\ \A g \in Guarantor : link[g] = "active" => guarantor[g].activated
  /\ \A r \in Req : Asked(r)

AnswersStand == \A g \in Guarantor : link[g] \in {"active", "declined"} => link'[g] = link[g]

LEMMA AnsweredBegins == Init => AnsweredInv
<1> SUFFICES ASSUME Init PROVE AnsweredInv
  OBVIOUS
<1>1. /\ \A g \in Req : guarantor[g].token = None /\ link[g] = "absent" /\ req[g].op \notin GuarantorOps
      /\ \A g \in Guarantor : link[g] # "active"
  <2>1. \E e : guarantor = [g \in Guarantor |->
          [email |-> IF g = 0 THEN e ELSE None, token |-> IF g = 0 THEN 0 ELSE None,
           activated |-> FALSE]]
    BY DEF Init, GuarantorsInit
  <2>2. link = [g \in Guarantor |-> IF g = 0 THEN "pending_invitation" ELSE "absent"]
    BY DEF Init, GuarantorsInit
  <2>3. \A g \in Req : g # 0 /\ g \in Guarantor
    BY ServerAssumption DEF Req, Guarantor
  <2>4. \A g \in Req : req[g].op \notin GuarantorOps
    BY DEF Init, ServerInit, GuarantorOps
  <2> QED
    BY <2>1, <2>2, <2>3, <2>4
<1> QED
  BY <1>1 DEF AnsweredInv, Inviting, Asked

LEMMA AnsweredRest ==
  ASSUME GuarantorsInv, AnsweredInv, NEW r \in Req, Turn(r), \A q \in Req : q # r => req'[q] = req[q],
         \A g \in Req : guarantor'[g].token # None \/ link'[g] # "absent" => req'[g].op = "invite",
         \A g \in Guarantor : link'[g] = "active" => guarantor'[g].activated,
         Asked(r)'
  PROVE  AnsweredInv'
<1>1. ASSUME NEW q \in Req, q # r
      PROVE  Asked(q)'
  <2>1. req'[q] = req[q] /\ req[q].pc \in Ended \cup {"idle"}
    BY <1>1, ServerAssumption DEF Turn, Req
  <2> QED
    BY <2>1 DEF Asked, Ended
<1> QED
  BY <1>1 DEF AnsweredInv, Inviting

LEMMA AnsweredArrives ==
  ASSUME Tabled, GuarantorsInv, AnsweredInv, NEW r \in Req, Turn(r), Handles(r, GuarantorOps),
         GuarantorsStep(r), req[r].pc = "idle"
  PROVE  AnsweredInv' /\ AnswersStand
<1>1. req[r].op \notin GuarantorOps
  BY DEF GuarantorsInv, GuarantorRow, Ended
<1>2. guarantor[r].token = None /\ link[r] = "absent"
  BY <1>1 DEF AnsweredInv, Inviting, GuarantorOps
<1>3. Invite(r) \/ Resend(r) \/ Accept(r) \/ Decline(r) \/ FindLinked(r)
  BY DEF GuarantorsStep, InsertGuarantor, InsertLink, RenewToken,
     CheckAccount, AccountExists, AcceptTransaction, MarkDeclined, ClearToken, StatementRefused, At
<1>4. UNCHANGED <<guarantor, link>>
  BY <1>3 DEF Invite, Resend, Accept, Decline, FindLinked, guarantors
<1>5. \A g \in Guarantor : g \in Req /\ (guarantor[g].token # None \/ link[g] # "absent") =>
        g # r /\ req[g].op = "invite"
  BY <1>2 DEF AnsweredInv, Inviting
<1>6. \A t \in Mailed : \A g \in Invited(t) : g \in Guarantor /\ guarantor[g].token # None
  <2>1. Mailed \subseteq Guarantor
    BY DEF Mailed, Guarantor
  <2> QED
    BY <2>1, GuarantorsAssumption DEF Invited
<1>7. guarantor \in [Guarantor -> GuarantorAnswer]
  BY DEF GuarantorsInv, GuarantorsTypeOK, GuarantorAnswer
<1>8. r \in Guarantor
  BY DEF Guarantor
<1>9. Asked(r)' /\ \A q \in Req : q # r => req'[q] = req[q]
  <2>1. CASE Invite(r)
    <3>1. PICK e \in Email : Begin(r, GuarantorCall("invite", "guarantor", r, e))
      BY <2>1 DEF Invite
    <3>2. /\ req'[r].op = "invite" /\ req'[r].pc = "guarantor"
          /\ \A q \in Req : q # r => req'[q] = req[q]
      BY <1>8, <3>1, GuarantorArrives DEF GuarantorOps
    <3> QED
      BY <1>2, <1>4, <3>2 DEF Asked
  <2>2. CASE Resend(r)
    <3>1. PICK g \in Guarantor : Resendable(g) /\ Begin(r, GuarantorCall("resend", "token", g, None))
      BY <2>2 DEF Resend
    <3>2. /\ req'[r].op = "resend" /\ req'[r].pc = "token" /\ req'[r].guarantor = g
          /\ \A q \in Req : q # r => req'[q] = req[q]
      BY <3>1, GuarantorArrives DEF GuarantorOps
    <3>3. g \in Req => req'[g].op = "invite"
      BY <1>5, <3>1, <3>2 DEF Resendable
    <3> QED
      BY <3>2, <3>3 DEF Asked
  <2>3. CASE Accept(r)
    <3>1. PICK t \in Mailed : \E g \in Invited(t) :
            Acceptable(g) /\ Begin(r, GuarantorCall("accept", "account", g, guarantor[g].email))
      BY <2>3 DEF Accept
    <3>2. PICK g \in Invited(t) :
            Acceptable(g) /\ Begin(r, GuarantorCall("accept", "account", g, guarantor[g].email))
      BY <3>1
    <3>3. g \in Guarantor /\ guarantor[g].email \in Email \cup {None}
      BY <1>6, <1>7 DEF GuarantorAnswer
    <3>4. /\ req'[r].op = "accept" /\ req'[r].pc = "account" /\ req'[r].guarantor = g
          /\ \A q \in Req : q # r => req'[q] = req[q]
      BY <3>2, <3>3, GuarantorArrives DEF GuarantorOps
    <3>5. g \in Req => req'[g].op = "invite"
      BY <1>5, <1>6, <3>4
    <3>6. Open(g)'
      BY <1>4, <3>2 DEF Open, Acceptable, Invited
    <3> QED
      BY <3>4, <3>5, <3>6 DEF Asked, Open
  <2>4. CASE Decline(r)
    <3>1. PICK t \in Mailed : \E g \in Invited(t) :
            Begin(r, GuarantorCall("decline", IF link[g] = "declined" THEN "done" ELSE "decline",
                                   g, None))
      BY <2>4 DEF Decline
    <3>2. PICK g \in Invited(t) :
            Begin(r, GuarantorCall("decline", IF link[g] = "declined" THEN "done" ELSE "decline",
                                   g, None))
      BY <3>1
    <3>3. PICK pc \in {"done", "decline"} : pc = IF link[g] = "declined" THEN "done" ELSE "decline"
      OBVIOUS
    <3>4. g \in Guarantor /\ Begin(r, GuarantorCall("decline", pc, g, None))
      BY <1>6, <3>2, <3>3
    <3>5. /\ req'[r].op = "decline" /\ req'[r].pc = pc /\ req'[r].guarantor = g
          /\ \A q \in Req : q # r => req'[q] = req[q]
      BY <3>4, GuarantorArrives DEF GuarantorOps
    <3>6. g \in Req => req'[g].op = "invite"
      BY <1>5, <1>6, <3>5
    <3>7. pc = "decline" => Open(g)'
      BY <1>4, <3>3 DEF Open, Invited
    <3> QED
      BY <3>5, <3>6, <3>7 DEF Asked, Open
  <2>5. CASE FindLinked(r)
    <3>1. PICK op \in {"withdraw", "receipt"} :
            \E g \in Guarantor : Begin(r, GuarantorCall(op, "refused", g, None))
      BY <2>5 DEF FindLinked
    <3>2. PICK g \in Guarantor : Begin(r, GuarantorCall(op, "refused", g, None))
      BY <3>1
    <3>3. op \in GuarantorOps
      BY DEF GuarantorOps
    <3>4. req'[r].pc = "refused" /\ \A q \in Req : q # r => req'[q] = req[q]
      BY <3>2, <3>3, GuarantorArrives
    <3> QED
      BY <3>4 DEF Asked
  <2> QED
    BY <1>3, <2>1, <2>2, <2>3, <2>4, <2>5
<1>10. \A g \in Req : guarantor'[g].token # None \/ link'[g] # "absent" => req'[g].op = "invite"
  BY <1>2, <1>4, <1>9 DEF AnsweredInv, Inviting
<1>11. \A g \in Guarantor : link'[g] = "active" => guarantor'[g].activated
  BY <1>4 DEF AnsweredInv
<1> QED
  BY <1>4, <1>9, <1>10, <1>11, AnsweredRest DEF AnswersStand

LEMMA AnsweredWorks ==
  ASSUME Tabled, GuarantorsInv, AnsweredInv, NEW r \in Req, Turn(r), Handles(r, GuarantorOps),
         GuarantorsStep(r), req[r].pc # "idle"
  PROVE  AnsweredInv' /\ AnswersStand
<1>1. req[r] \in GuarantorRow /\ req[r].op \in GuarantorOps /\ Asked(r)
  BY DEF Handles, Tabled, GuarantorsInv, GuarantorRow, AnsweredInv
<1>2. PICK g, e : g = req[r].guarantor /\ e = req[r].email
  OBVIOUS
<1>3. g \in Guarantor /\ r \in Guarantor
  BY <1>1, <1>2 DEF GuarantorRow, Guarantor
<1>4. guarantor \in [Guarantor -> GuarantorAnswer] /\ link \in [Guarantor -> LinkStatus]
  BY DEF GuarantorsInv, GuarantorsTypeOK, GuarantorAnswer
<1>5. ~(Invite(r) \/ Resend(r) \/ Accept(r) \/ Decline(r) \/ FindLinked(r))
  BY DEF Invite, Resend, Accept, Decline, FindLinked, CanStart
<1>6. ASSUME NEW pc \in {"link", "accept", "clear", "done"}, Goto(r, pc)
      PROVE  /\ req'[r].op = req[r].op /\ req'[r].guarantor = g /\ req'[r].pc = pc
             /\ \A q \in Req : q # r => req'[q] = req[q]
  BY <1>2, <1>6, GuarantorGoes
<1>7. CASE InsertGuarantor(r)
  <2>1. /\ guarantor' = [guarantor EXCEPT ![r] = [email |-> e, token |-> r, activated |-> FALSE]]
        /\ Goto(r, "link") /\ link' = link
    BY <1>2, <1>7 DEF InsertGuarantor
  <2>2. req[r].op = "invite" /\ link[r] = "absent"
    BY <1>1, <1>7 DEF InsertGuarantor, At, Asked
  <2>3. /\ req'[r].op = req[r].op /\ req'[r].pc = "link"
        /\ \A q \in Req : q # r => req'[q] = req[q]
    BY <1>6, <2>1
  <2>4. Asked(r)'
    BY <2>1, <2>2, <2>3 DEF Asked
  <2>5. \A h \in Guarantor : h # r => guarantor'[h] = guarantor[h]
    BY <1>4, <2>1
  <2>6. \A h \in Req : guarantor'[h].token # None \/ link'[h] # "absent" => req'[h].op = "invite"
    BY <2>1, <2>2, <2>3, <2>5 DEF AnsweredInv, Inviting, Guarantor
  <2>7. \A h \in Guarantor : link'[h] = "active" => guarantor'[h].activated
    BY <2>1, <2>2, <2>5 DEF AnsweredInv
  <2> QED
    BY <2>1, <2>3, <2>4, <2>6, <2>7, AnsweredRest DEF AnswersStand
<1>8. CASE InsertLink(r)
  <2>1. /\ link' = [link EXCEPT ![r] = "pending_invitation"]
        /\ Goto(r, "done") /\ guarantor' = guarantor
    BY <1>8 DEF InsertLink
  <2>2. req[r].op = "invite" /\ link[r] = "absent"
    BY <1>1, <1>8 DEF InsertLink, At, Asked
  <2>3. /\ req'[r].op = req[r].op /\ req'[r].pc = "done"
        /\ \A q \in Req : q # r => req'[q] = req[q]
    BY <1>6, <2>1
  <2>4. Asked(r)'
    BY <2>3 DEF Asked
  <2>5. link'[r] = "pending_invitation" /\ \A h \in Guarantor : h # r => link'[h] = link[h]
    BY <1>3, <1>4, <2>1
  <2>6. \A h \in Req : guarantor'[h].token # None \/ link'[h] # "absent" => req'[h].op = "invite"
    BY <2>1, <2>2, <2>3, <2>5 DEF AnsweredInv, Inviting, Guarantor
  <2>7. \A h \in Guarantor : link'[h] = "active" => guarantor'[h].activated
    BY <2>1, <2>5 DEF AnsweredInv
  <2>8. AnswersStand
    BY <2>2, <2>5 DEF AnswersStand
  <2> QED
    BY <2>3, <2>4, <2>6, <2>7, <2>8, AnsweredRest
<1>9. CASE RenewToken(r) \/ ClearToken(r)
  <2>1. /\ \E t : guarantor' = [guarantor EXCEPT ![g].token = t]
        /\ Goto(r, "done") /\ link' = link
    BY <1>2, <1>9 DEF RenewToken, ClearToken
  <2>2. PICK t : guarantor' = [guarantor EXCEPT ![g].token = t]
    BY <2>1
  <2>3. /\ req'[r].op = req[r].op /\ req'[r].pc = "done"
        /\ \A q \in Req : q # r => req'[q] = req[q]
    BY <1>6, <2>1
  <2>4. Asked(r)'
    BY <2>3 DEF Asked
  <2>5. /\ \A h \in Guarantor : h # g => guarantor'[h] = guarantor[h]
        /\ guarantor'[g].activated = guarantor[g].activated /\ guarantor'[g].token = t
    BY <1>3, <1>4, <2>2 DEF GuarantorAnswer
  <2>6. g \in Req => req'[g].op = "invite" \/ guarantor'[g].token = None
    <3>1. CASE RenewToken(r)
      BY <1>1, <1>2, <2>3, <3>1 DEF RenewToken, At, Asked
    <3>2. CASE ClearToken(r)
      <4>1. guarantor' = [guarantor EXCEPT ![g].token = None]
        BY <1>2, <3>2 DEF ClearToken
      <4> QED
        BY <1>3, <1>4, <4>1 DEF GuarantorAnswer
    <3> QED
      BY <1>9, <3>1, <3>2
  <2>7. \A h \in Req : guarantor'[h].token # None \/ link'[h] # "absent" => req'[h].op = "invite"
    BY <2>1, <2>3, <2>5, <2>6 DEF AnsweredInv, Inviting, Guarantor
  <2>8. \A h \in Guarantor : link'[h] = "active" => guarantor'[h].activated
    BY <2>1, <2>5 DEF AnsweredInv
  <2> QED
    BY <2>1, <2>3, <2>4, <2>7, <2>8, AnsweredRest DEF AnswersStand
<1>10. CASE CheckAccount(r)
  <2>1. Goto(r, "accept") /\ UNCHANGED <<guarantor, link>> /\ req[r].pc = "account"
    BY <1>10 DEF CheckAccount, guarantors, At
  <2>2. /\ req'[r].op = req[r].op /\ req'[r].pc = "accept" /\ req'[r].guarantor = g
        /\ \A q \in Req : q # r => req'[q] = req[q]
    BY <1>6, <2>1
  <2>3. Open(g) /\ req[r].op # "invite" /\ (g \in Req => req[g].op = "invite")
    BY <1>1, <1>2, <2>1 DEF Asked
  <2>4. g \in Req => req'[g].op = "invite"
    BY <2>2, <2>3
  <2>5. Asked(r)'
    BY <2>1, <2>2, <2>3, <2>4 DEF Asked, Open
  <2>6. \A h \in Req : guarantor'[h].token # None \/ link'[h] # "absent" => req'[h].op = "invite"
    BY <2>1, <2>2 DEF AnsweredInv, Inviting
  <2> QED
    BY <2>1, <2>2, <2>5, <2>6, AnsweredRest DEF AnswersStand, AnsweredInv
<1>11. CASE AcceptTransaction(r)
  <2>1. PICK s : s = IF link[g] = "absent" THEN "absent" ELSE "active"
    OBVIOUS
  <2>2. /\ guarantor' = [guarantor EXCEPT ![g].activated = TRUE, ![g].token = None]
        /\ link' = [link EXCEPT ![g] = s]
        /\ Goto(r, "done") /\ req[r].pc = "accept"
    BY <1>2, <1>3, <1>4, <1>11, <2>1 DEF AcceptTransaction, At
  <2>3. /\ req'[r].op = req[r].op /\ req'[r].pc = "done"
        /\ \A q \in Req : q # r => req'[q] = req[q]
    BY <1>6, <2>2
  <2>4. Open(g)
    BY <1>1, <1>2, <2>2 DEF Asked
  <2>5. link[g] \notin {"active", "declined"}
    BY <1>3, <2>4 DEF AnsweredInv, Open
  <2>6. /\ \A h \in Guarantor : h # g => guarantor'[h] = guarantor[h] /\ link'[h] = link[h]
        /\ guarantor'[g].activated /\ guarantor'[g].token = None /\ link'[g] = s
    BY <1>3, <1>4, <2>2 DEF GuarantorAnswer
  <2>7. Asked(r)'
    BY <2>3 DEF Asked
  <2>8. \A h \in Req : guarantor'[h].token # None \/ link'[h] # "absent" => req'[h].op = "invite"
    BY <2>1, <2>3, <2>6 DEF AnsweredInv, Inviting, Guarantor
  <2>9. \A h \in Guarantor : link'[h] = "active" => guarantor'[h].activated
    BY <2>6 DEF AnsweredInv
  <2>10. AnswersStand
    BY <2>5, <2>6 DEF AnswersStand
  <2> QED
    BY <2>3, <2>7, <2>8, <2>9, <2>10, AnsweredRest
<1>12. CASE MarkDeclined(r)
  <2>1. /\ link' = [link EXCEPT ![g] = "declined"]
        /\ Goto(r, "clear") /\ guarantor' = guarantor /\ req[r].pc = "decline"
    BY <1>2, <1>12 DEF MarkDeclined, At
  <2>2. /\ req'[r].op = req[r].op /\ req'[r].pc = "clear"
        /\ \A q \in Req : q # r => req'[q] = req[q]
    BY <1>6, <2>1
  <2>3. Open(g) /\ (g \in Req => req[g].op = "invite")
    BY <1>1, <1>2, <2>1 DEF Asked
  <2>4. link[g] \notin {"active", "declined"}
    BY <1>3, <2>3 DEF AnsweredInv, Open
  <2>5. link'[g] = "declined" /\ \A h \in Guarantor : h # g => link'[h] = link[h]
    BY <1>3, <1>4, <2>1
  <2>6. Asked(r)'
    BY <2>2 DEF Asked
  <2>7. \A h \in Req : guarantor'[h].token # None \/ link'[h] # "absent" => req'[h].op = "invite"
    BY <2>1, <2>2, <2>3, <2>5 DEF AnsweredInv, Inviting, Guarantor
  <2>8. \A h \in Guarantor : link'[h] = "active" => guarantor'[h].activated
    BY <2>1, <2>5 DEF AnsweredInv
  <2>9. AnswersStand
    BY <2>4, <2>5 DEF AnswersStand
  <2> QED
    BY <2>2, <2>6, <2>7, <2>8, <2>9, AnsweredRest
<1>13. CASE AccountExists(r) \/ StatementRefused(r)
  <2>1. Raise(r) /\ UNCHANGED <<guarantor, link>>
    BY <1>13 DEF AccountExists, StatementRefused, guarantors
  <2>2. /\ req'[r].op = req[r].op /\ req'[r].pc = "failed"
        /\ \A q \in Req : q # r => req'[q] = req[q]
    BY <2>1, GuarantorRaises
  <2>3. Asked(r)'
    BY <2>2 DEF Asked
  <2>4. \A h \in Req : guarantor'[h].token # None \/ link'[h] # "absent" => req'[h].op = "invite"
    BY <2>1, <2>2 DEF AnsweredInv, Inviting
  <2> QED
    BY <2>1, <2>2, <2>3, <2>4, AnsweredRest DEF AnswersStand, AnsweredInv
<1> QED
  BY <1>5, <1>7, <1>8, <1>9, <1>10, <1>11, <1>12, <1>13 DEF GuarantorsStep

LEMMA AnsweredNext ==
  ASSUME MaxInFlight <= 1, Tabled, InTurn, GuarantorsInv, AnsweredInv, [Next]_vars
  PROVE  AnsweredInv' /\ AnswersStand
<1>1. CASE UNCHANGED vars
  <2>1. UNCHANGED <<req, guarantor, link>>
    BY <1>1 DEF vars, server, people, guarantors
  <2> QED
    BY <2>1 DEF AnsweredInv, Inviting, Asked, Open, AnswersStand
<1>2. ASSUME NEW r \in Req, Turn(r), UNCHANGED guarantors, Away(r, GuarantorOps)
      PROVE  AnsweredInv' /\ AnswersStand
  <2>1. /\ UNCHANGED <<guarantor, link>> /\ \A q \in Req : q # r => req'[q] = req[q]
        /\ req[r].op # "invite" /\ req'[r].op \notin GuarantorOps
    BY <1>2 DEF guarantors, Away, GuarantorOps
  <2>2. Asked(r)'
    BY <2>1 DEF Asked
  <2>3. \A h \in Req : guarantor'[h].token # None \/ link'[h] # "absent" => req'[h].op = "invite"
    BY <2>1 DEF AnsweredInv, Inviting
  <2> QED
    BY <1>2, <2>1, <2>2, <2>3, AnsweredRest DEF AnswersStand, AnsweredInv
<1>3. ASSUME NEW r \in Req, Turn(r), Break(r)
      PROVE  AnsweredInv' /\ AnswersStand
  <2>1. /\ UNCHANGED <<guarantor, link>> /\ \A q \in Req : q # r => req'[q] = req[q]
        /\ req'[r].op = req[r].op
        /\ req'[r].op \in GuarantorOps => req'[r].pc \in {"failed", "died"}
    BY <1>3, GuarantorsBreak DEF guarantors
  <2>2. Asked(r)'
    BY <2>1 DEF Asked
  <2>3. \A h \in Req : guarantor'[h].token # None \/ link'[h] # "absent" => req'[h].op = "invite"
    BY <2>1 DEF AnsweredInv, Inviting
  <2> QED
    BY <1>3, <2>1, <2>2, <2>3, AnsweredRest DEF AnswersStand, AnsweredInv
<1> QED
  BY <1>1, <1>2, <1>3, AtGuarantors, TurnOfStep, AnsweredArrives, AnsweredWorks DEF Next

\* One request at a time, an invitation is answered once (Guarantors'
\* AnsweredOnce): whoever accepted stays the guarantor, whoever declined never
\* becomes one, although either may have been sent several tokens, a declined
\* token is cleared by a statement of its own, and any statement may fail.
THEOREM AnswersAreFinal ==
  ASSUME MaxInFlight <= 1
  PROVE  Spec => AnsweredOnce
<1>1. Tabled /\ InTurn /\ GuarantorsInv /\ AnsweredInv /\ [Next]_vars => AnsweredInv'
  BY AnsweredNext
<1>2. Tabled /\ InTurn /\ GuarantorsInv /\ AnsweredInv /\ [Next]_vars =>
        [\A g \in Guarantor : link[g] \in {"active", "declined"} => link'[g] = link[g]]_link
  BY AnsweredNext DEF AnswersStand
<1> QED
  BY <1>1, <1>2, AnsweredBegins, AlwaysTabled, AlwaysInTurn, AlwaysGuarantors, PTL DEF Spec, AnsweredOnce

LEMMA AtAssessment ==
  ASSUME Tabled, NEW r \in Req, Step(r)
  PROVE  \/ AssessmentStep(r) /\ Handles(r, AssessmentOps)
         \/ UNCHANGED assessments /\ Away(r, AssessmentOps)
<1>1. AssessmentOps \in Endpoints
  BY DEF Endpoints
<1>2. CASE AssessmentStep(r) /\ Handles(r, AssessmentOps)
  BY <1>2
<1>3. CASE ~(AssessmentStep(r) /\ Handles(r, AssessmentOps))
  <2>1. UNCHANGED assessments
    BY <1>3 DEF Step, people, files
  <2>2. "submit" \in AssessmentOps
        /\ "submit" \notin CoreOps \cup GuarantorOps \cup AccountOps \cup MembershipOps
                           \cup MeetingOps \cup PolicyOps \cup DocumentOps \cup UniversityOps
    BY DEF CoreOps, GuarantorOps, AccountOps, MembershipOps, MeetingOps,
           PolicyOps, DocumentOps, UniversityOps, AssessmentOps
  <2>3. \E ops \in Endpoints \ {AssessmentOps} : Handles(r, ops) /\ Keeps(r, ops)
    BY <1>3, <2>2, CoreKeeps, GuarantorKeeps, AccountKeeps, MembershipKeeps, MeetingKeeps,
       PolicyKeeps, DocumentKeeps, UniversityKeeps DEF Step, Endpoints
  <2> QED
    BY <2>1, <2>3, <1>1, ElsewhereIsAway
<1> QED
  BY <1>2, <1>3

-------------------------------------------------------------------------------
(***************************************************************************)
(* The financial assessment.                                                *)
(***************************************************************************)
Value   == {sheet.given[f] : sheet \in Sheet, f \in Field} \cup {None}
Filled  == [Field -> Value]

AssessmentRow ==
  [op : AssessmentOps,
   pc : {"upsert", "total", "complete", "submit", "log", "reread", "score"} \cup Ended,
   catch : {"failed"}, back : {"done"}, sheet : Sheet, todo : SUBSET Field, row : Filled,
   decision : {None, "verified", "rejected"}]

AssessedOK ==
  /\ assessed = [status |-> assessed.status, answers |-> assessed.answers,
                 total |-> assessed.total, declared |-> assessed.declared,
                 result |-> assessed.result, verdict |-> assessed.verdict]
  /\ assessed.status \in {"absent", "draft", "submitted"}
  /\ assessed.verdict \in {"pending", "verified", "rejected"}
  /\ assessed.answers \in Filled /\ assessed.declared \in Filled

Assessing(r) == req[r].op \in AssessmentOps =>
                  req[r] \in AssessmentRow /\ (req[r].pc = "log" => req[r].todo # {})

AssessmentInv ==
  /\ AssessedOK
  /\ corrections \in Seq([field : Field, verified : Value])
  /\ \A r \in Req : Assessing(r)

LEMMA AssessmentBegins == Init => AssessmentInv
BY DEF Init, ServerInit, AssessmentInit, AssessmentInv, AssessedOK, Assessing, AssessmentOps, Blank,
   Filled, Value

LEMMA AssessmentTyped == AssessmentInv => AssessmentTypeOK
<1> SUFFICES ASSUME AssessmentInv PROVE AssessmentTypeOK
  OBVIOUS
<1>1. corrections \in Seq([field : Field, verified : Value])
  BY DEF AssessmentInv
<1>2. ASSUME NEW k \in DOMAIN corrections
      PROVE  corrections[k].field \in Field
  <2>1. corrections[k] \in [field : Field, verified : Value]
    <3> HIDE DEF Field
    <3>1. PICK R : R = [field : Field, verified : Value]
      OBVIOUS
    <3>2. corrections \in Seq(R)
      BY <1>1, <3>1
    <3>3. k \in 1..Len(corrections)
      BY <3>2
    <3>4. corrections[k] \in R
      BY <3>2, <3>3
    <3> QED
      BY <3>1, <3>4
  <2> QED
    BY <2>1
<1> QED
  BY <1>2 DEF AssessmentInv, AssessedOK, AssessmentTypeOK, Filled

LEMMA MergeFills ==
  ASSUME NEW sheet \in Sheet, NEW old \in Filled
  PROVE  Merge(sheet.given, old) \in Filled
BY DEF Merge, Filled, Value

LEMMA AssessmentStepKeeps ==
  ASSUME Tabled, AssessmentInv, NEW r \in Req, Handles(r, AssessmentOps), AssessmentStep(r)
  PROVE  AssessmentInv'
<1>1. ASSUME req[r].pc # "idle"
      PROVE  /\ req[r] \in AssessmentRow /\ (req[r].pc = "log" => req[r].todo # {})
  BY <1>1 DEF Handles, Tabled, AssessmentInv, Assessing
<1>2. SUFFICES /\ AssessedOK' /\ corrections' \in Seq([field : Field, verified : Value])
               /\ req'[r] \in AssessmentRow /\ (req'[r].pc = "log" => req'[r].todo # {})
               /\ \A q \in Req : q # r => req'[q] = req[q]
  BY DEF AssessmentInv, Assessing
<1>3. CASE Answer(r)
  <2>1. PICK op \in {"saveDraft", "submit"} :
          \E sheet \in Sheet : Begin(r, AssessmentCall(op, "upsert", sheet))
    BY <1>3 DEF Answer
  <2>2. PICK sheet \in Sheet : Begin(r, AssessmentCall(op, "upsert", sheet))
    BY <2>1
  <2>3. /\ req'[r] = AssessmentCall(op, "upsert", sheet)
        /\ \A q \in Req : q # r => req'[q] = req[q]
    BY <2>2 DEF Begin, Tabled
  <2>4. Blank \in Filled
    BY DEF Blank, Filled, Value
  <2>5. req'[r] \in AssessmentRow /\ req'[r].pc = "upsert"
    BY <2>3, <2>4 DEF AssessmentCall, AssessmentRow, AssessmentOps
  <2> QED
    BY <1>3, <2>3, <2>5 DEF Answer, assessments, AssessmentInv, AssessedOK
<1>4. CASE StartInterview(r)
  <2>1. PICK sheet \in Sheet : \E d \in {None, "verified", "rejected"} :
          Begin(r, [AssessmentCall("interview", "upsert", sheet) EXCEPT !.decision = d,
                      !.todo = {f \in Field : Changed(f, sheet, assessed.answers)}])
    BY <1>4 DEF StartInterview
  <2>2. PICK d \in {None, "verified", "rejected"} :
          Begin(r, [AssessmentCall("interview", "upsert", sheet) EXCEPT !.decision = d,
                      !.todo = {f \in Field : Changed(f, sheet, assessed.answers)}])
    BY <2>1
  <2>3. PICK todo : todo = {f \in Field : Changed(f, sheet, assessed.answers)}
    OBVIOUS
  <2>4. /\ req'[r] = [AssessmentCall("interview", "upsert", sheet) EXCEPT !.decision = d, !.todo = todo]
        /\ \A q \in Req : q # r => req'[q] = req[q]
    BY <2>2, <2>3 DEF Begin, Tabled
  <2>5. Blank \in Filled /\ todo \in SUBSET Field
    BY <2>3 DEF Blank, Filled, Value
  <2>6. req'[r] \in AssessmentRow /\ req'[r].pc = "upsert"
    BY <2>4, <2>5 DEF AssessmentCall, AssessmentRow, AssessmentOps
  <2> QED
    BY <1>4, <2>4, <2>6 DEF StartInterview, assessments, AssessmentInv, AssessedOK
<1>5. CASE Upsert(r)
  <2>1. req[r] \in AssessmentRow /\ req[r].sheet \in Sheet
    BY <1>1, <1>5 DEF Upsert, At, AssessmentRow
  <2>2. PICK new : new = Merge(req[r].sheet.given, assessed.answers)
    OBVIOUS
  <2>3. /\ assessed' = [assessed EXCEPT !.status = IF @ = "absent" THEN "draft" ELSE @, !.answers = new]
        /\ req'[r] = [req[r] EXCEPT !.pc = "total"] /\ \A q \in Req : q # r => req'[q] = req[q]
        /\ corrections' = corrections
    BY <1>5, <2>2 DEF Upsert, Goto, Tabled
  <2>4. new \in Filled
    BY <2>1, <2>2, MergeFills DEF AssessmentInv, AssessedOK
  <2>5. AssessedOK'
    BY <2>3, <2>4 DEF AssessmentInv, AssessedOK
  <2>6. req'[r] \in AssessmentRow /\ req'[r].pc = "total"
    BY <2>1, <2>3 DEF AssessmentRow
  <2> QED
    BY <2>3, <2>5, <2>6 DEF AssessmentInv
<1>6. CASE UpdateTotal(r)
  <2>1. req[r] \in AssessmentRow
    BY <1>1, <1>6 DEF UpdateTotal, At
  <2>2. PICK total, pc : /\ total = Income(assessed.answers)
                         /\ pc = CASE req[r].op = "saveDraft" -> "done"
                                   [] req[r].op = "submit" -> "complete"
                                   [] OTHER -> IF req[r].todo = {} THEN "reread" ELSE "log"
    OBVIOUS
  <2>3. /\ assessed' = [assessed EXCEPT !.total = total]
        /\ req'[r] = [req[r] EXCEPT !.pc = pc] /\ \A q \in Req : q # r => req'[q] = req[q]
        /\ corrections' = corrections
    BY <1>6, <2>2 DEF UpdateTotal, Goto, Tabled
  <2>4. pc \in {"done", "complete", "reread", "log"} /\ (pc = "log" => req[r].todo # {})
    BY <2>2
  <2>5. AssessedOK'
    BY <2>3 DEF AssessmentInv, AssessedOK
  <2>6. req'[r] \in AssessmentRow /\ req'[r].pc = pc /\ req'[r].todo = req[r].todo
    BY <2>1, <2>3, <2>4 DEF AssessmentRow, Ended
  <2> QED
    BY <2>3, <2>4, <2>5, <2>6 DEF AssessmentInv
<1>7. CASE Incomplete(r)
  <2>1. req[r] \in AssessmentRow
    BY <1>1, <1>7 DEF Incomplete, At
  <2>2. /\ req'[r] = [req[r] EXCEPT !.pc = req[r].catch, !.catch = "failed"]
        /\ \A q \in Req : q # r => req'[q] = req[q]
    BY <1>7 DEF Incomplete, Raise, Tabled
  <2>3. req'[r] \in AssessmentRow /\ req'[r].pc = "failed"
    BY <2>1, <2>2 DEF AssessmentRow, Ended
  <2> QED
    BY <1>7, <2>2, <2>3 DEF Incomplete, assessments, AssessmentInv, AssessedOK
<1>8. CASE ReadRow(r)
  <2>1. req[r] \in AssessmentRow
    BY <1>1, <1>8 DEF ReadRow, At
  <2>2. PICK pc \in {"submit", "score"} : pc = IF req[r].op = "submit" THEN "submit" ELSE "score"
    OBVIOUS
  <2>3. /\ req'[r] = [req[r] EXCEPT !.row = assessed.answers, !.pc = pc]
        /\ \A q \in Req : q # r => req'[q] = req[q]
    BY <1>8, <2>2 DEF ReadRow, Tabled
  <2>4. req'[r] \in AssessmentRow /\ req'[r].pc = pc
    BY <2>1, <2>3 DEF AssessmentRow, AssessmentInv, AssessedOK
  <2> QED
    BY <1>8, <2>2, <2>3, <2>4 DEF ReadRow, assessments, AssessmentInv, AssessedOK
<1>9. CASE Submit(r)
  <2>1. req[r] \in AssessmentRow
    BY <1>1, <1>9 DEF Submit, At
  <2>2. PICK total, result : total = Income(req[r].row) /\ result = Scored(req[r].row, DefaultPolicy)
    OBVIOUS
  <2>3. /\ assessed' = [assessed EXCEPT !.status = "submitted", !.declared = req[r].row,
                                        !.total = total, !.result = result]
        /\ req'[r] = [req[r] EXCEPT !.pc = "done"] /\ \A q \in Req : q # r => req'[q] = req[q]
        /\ corrections' = corrections
    BY <1>9, <2>2 DEF Submit, Goto, Tabled
  <2>4. AssessedOK'
    BY <2>1, <2>3 DEF AssessmentInv, AssessedOK, AssessmentRow
  <2>5. req'[r] \in AssessmentRow /\ req'[r].pc = "done"
    BY <2>1, <2>3 DEF AssessmentRow, Ended
  <2> QED
    BY <2>3, <2>4, <2>5 DEF AssessmentInv
<1>10. CASE LogCorrection(r)
  <2>1. req[r] \in AssessmentRow /\ req[r].todo # {}
    BY <1>1, <1>10 DEF LogCorrection, At
  <2>2. PICK f : f = CHOOSE g \in req[r].todo : TRUE
    OBVIOUS
  <2>3. f \in req[r].todo /\ f \in Field
    BY <2>1, <2>2 DEF AssessmentRow
  <2>4. PICK pc : pc = IF req[r].todo = {f} THEN "reread" ELSE req[r].pc
    OBVIOUS
  <2>5. /\ corrections' = Append(corrections, [field |-> f, verified |-> req[r].sheet.given[f]])
        /\ req'[r] = [req[r] EXCEPT !.todo = req[r].todo \ {f}, !.pc = pc]
        /\ \A q \in Req : q # r => req'[q] = req[q]
        /\ assessed' = assessed
    BY <1>10, <2>2, <2>4 DEF LogCorrection, Tabled
  <2>6. [field |-> f, verified |-> req[r].sheet.given[f]] \in [field : Field, verified : Value]
    BY <2>1, <2>3 DEF AssessmentRow, Value
  <2>7. corrections' \in Seq([field : Field, verified : Value])
    BY <2>5, <2>6 DEF AssessmentInv
  <2>8. req'[r] \in AssessmentRow /\ req'[r].pc = pc /\ req'[r].todo = req[r].todo \ {f}
    BY <2>1, <2>4, <2>5 DEF AssessmentRow
  <2>9. pc = "log" => req[r].todo \ {f} # {}
    BY <2>3, <2>4
  <2> QED
    BY <2>5, <2>7, <2>8, <2>9 DEF AssessmentInv, AssessedOK
<1>11. CASE Rescore(r)
  <2>1. req[r] \in AssessmentRow
    BY <1>1, <1>11 DEF Rescore, At
  <2>2. PICK result, verdict : /\ result = Scored(req[r].row, DefaultPolicy)
                               /\ verdict = IF req[r].decision = None THEN assessed.verdict
                                            ELSE req[r].decision
    OBVIOUS
  <2>3. /\ assessed' = [assessed EXCEPT !.result = result, !.verdict = verdict]
        /\ req'[r] = [req[r] EXCEPT !.pc = "done"] /\ \A q \in Req : q # r => req'[q] = req[q]
        /\ corrections' = corrections
    BY <1>11, <2>2 DEF Rescore, Goto, Tabled
  <2>4. verdict \in {"pending", "verified", "rejected"}
    BY <2>1, <2>2 DEF AssessmentRow, AssessmentInv, AssessedOK
  <2>5. AssessedOK'
    BY <2>3, <2>4 DEF AssessmentInv, AssessedOK
  <2>6. req'[r] \in AssessmentRow /\ req'[r].pc = "done"
    BY <2>1, <2>3 DEF AssessmentRow, Ended
  <2> QED
    BY <2>3, <2>5, <2>6 DEF AssessmentInv
<1> QED
  BY <1>3, <1>4, <1>5, <1>6, <1>7, <1>8, <1>9, <1>10, <1>11 DEF AssessmentStep

LEMMA AssessmentBreaks ==
  ASSUME Tabled, AssessmentInv, NEW r \in Req, Break(r)
  PROVE  /\ UNCHANGED assessments /\ \A q \in Req : q # r => req'[q] = req[q]
         /\ req'[r].op = req[r].op
         /\ req[r].pc \notin Ended
         /\ req[r].op \in AssessmentOps =>
              /\ req'[r] \in AssessmentRow
              /\ (req'[r].pc = "died" \/ (req'[r].pc = "failed" /\ req[r].op \in MayThrow))
<1>1. /\ UNCHANGED assessments /\ req'[r].op = req[r].op /\ req[r].pc \notin Ended
      /\ \A q \in Req : q # r => req'[q] = req[q]
      /\ \/ req'[r] = [req[r] EXCEPT !.pc = req[r].catch, !.catch = "failed"] /\ req[r].op \in MayThrow
         \/ req'[r] = [req[r] EXCEPT !.pc = "died"]
  BY BreakEnds, BreakKeeps DEF Break, files
<1>2. ASSUME req[r].op \in AssessmentOps
      PROVE  /\ req'[r] \in AssessmentRow
             /\ (req'[r].pc = "died" \/ (req'[r].pc = "failed" /\ req[r].op \in MayThrow))
  <2>1. req[r] \in AssessmentRow
    BY <1>2 DEF AssessmentInv, Assessing
  <2>2. CASE req'[r] = [req[r] EXCEPT !.pc = "died"]
    <3>1. req'[r] \in AssessmentRow
      BY <2>1, <2>2 DEF AssessmentRow, Ended
    <3>2. req'[r].pc = "died"
      BY <2>1, <2>2 DEF AssessmentRow
    <3> QED
      BY <3>1, <3>2
  <2>3. CASE /\ req'[r] = [req[r] EXCEPT !.pc = req[r].catch, !.catch = "failed"]
             /\ req[r].op \in MayThrow
    <3>1. req'[r] = [req[r] EXCEPT !.pc = "failed", !.catch = "failed"]
      BY <2>1, <2>3 DEF AssessmentRow
    <3> QED
      BY <2>1, <2>3, <3>1 DEF AssessmentRow, Ended
  <2> QED
    BY <1>1, <2>2, <2>3
<1> QED
  BY <1>1, <1>2

LEMMA AlwaysAssessment == Spec => []AssessmentInv
<1>1. Tabled /\ AssessmentInv /\ [Next]_vars => AssessmentInv'
  <2> SUFFICES ASSUME Tabled, AssessmentInv, [Next]_vars PROVE AssessmentInv'
    OBVIOUS
  <2>1. CASE UNCHANGED vars
    BY <2>1 DEF vars, server, files, assessments, AssessmentInv, AssessedOK, Assessing
  <2>2. ASSUME NEW r \in Req, UNCHANGED assessments, Away(r, AssessmentOps)
        PROVE  AssessmentInv'
    BY <2>2 DEF Away, assessments, AssessmentInv, AssessedOK, Assessing
  <2>3. ASSUME NEW r \in Req, Break(r)
        PROVE  AssessmentInv'
    <3>1. /\ UNCHANGED assessments /\ \A q \in Req : q # r => req'[q] = req[q]
          /\ req'[r].op \in AssessmentOps => req'[r] \in AssessmentRow /\ req'[r].pc # "log"
      BY <2>3, AssessmentBreaks
    <3> QED
      BY <3>1 DEF assessments, AssessmentInv, AssessedOK, Assessing
  <2> QED
    BY <2>1, <2>2, <2>3, AtAssessment, AssessmentStepKeeps DEF Next
<1> QED
  BY <1>1, AssessmentBegins, AlwaysTabled, PTL DEF Spec

\* The corrections of field f that have a value, and what they leave in it.
Made(f)   == {k \in DOMAIN corrections : corrections[k].field = f /\ corrections[k].verified # None}
Logged(f) == IF Made(f) = {} THEN assessed.declared[f] ELSE corrections[Max(Made(f))].verified

Explained == /\ assessed.result = Scored(assessed.answers, DefaultPolicy)
             /\ assessed.total = Income(assessed.answers)
             /\ \A f \in Field : assessed.answers[f] = Logged(f)

LEMMA LoggedStays ==
  ASSUME UNCHANGED corrections, assessed'.declared = assessed.declared, NEW f
  PROVE  Logged(f)' = Logged(f)
BY DEF Logged, Made

LEMMA LoggedGrows ==
  ASSUME AssessmentInv, NEW f \in Field, NEW g \in Field, NEW v \in Value,
         corrections' = Append(corrections, [field |-> g, verified |-> v]),
         assessed'.declared = assessed.declared
  PROVE  Logged(f)' = IF f = g /\ v # None THEN v ELSE Logged(f)
<1>1. PICK n, R, e : /\ n = Len(corrections) /\ R = [field : Field, verified : Value]
                     /\ e = [field |-> g, verified |-> v]
  OBVIOUS
<1>2. corrections \in Seq(R) /\ e \in R /\ n \in Nat
  BY <1>1 DEF AssessmentInv
<1>3. corrections' = Append(corrections, e)
  BY <1>1
<1>4. /\ DOMAIN corrections = 1..n /\ DOMAIN corrections' = 1..(n + 1)
      /\ \A k \in 1..n : corrections'[k] = corrections[k]
      /\ corrections'[n + 1] = e
  BY ONLY <1>1, <1>2, <1>3
<1>5. e.field = g /\ e.verified = v
  BY <1>1
<1>6. Made(f) \subseteq 1..n
  BY <1>4 DEF Made
<1>7. CASE f = g /\ v # None
  <2>1. Made(f)' = Made(f) \cup {n + 1}
    BY <1>2, <1>4, <1>5, <1>7 DEF Made
  <2>2. PICK M : M = Made(f) \cup {n + 1}
    OBVIOUS
  <2>3. M \subseteq 1..(n + 1) /\ M \subseteq Int /\ n + 1 \in M
    BY <1>2, <1>6, <2>2
  <2>4. IsFiniteSet(M) /\ M # {}
    <3>1. n + 1 \in Int /\ 1 \in Int
      BY <1>2
    <3>2. IsFiniteSet(1..(n + 1))
      BY ONLY <3>1, FS_Interval
    <3> QED
      BY ONLY <2>3, <3>2, FS_Subset
  <2>5. Max(M) \in M /\ \A x \in M : x <= Max(M)
    BY ONLY <2>3, <2>4, MaxIsIn, MaxIsGreatest
  <2>6. PICK m : m = Max(M)
    OBVIOUS
  <2>7. m = n + 1
    <3>1. m \in 1..(n + 1) /\ n + 1 <= m
      BY <2>3, <2>5, <2>6
    <3> QED
      BY <1>2, <3>1
  <2>8. Logged(f)' = corrections'[m].verified
    BY <2>1, <2>2, <2>3, <2>6 DEF Logged
  <2> QED
    BY <1>4, <1>5, <1>7, <2>7, <2>8
<1>8. CASE ~(f = g /\ v # None)
  <2>1. Made(f)' = Made(f)
    BY <1>2, <1>4, <1>5, <1>8 DEF Made
  <2>2. CASE Made(f) = {}
    BY <1>8, <2>1, <2>2 DEF Logged
  <2>3. CASE Made(f) # {}
    <3>1. PICK M : M = Made(f)
      OBVIOUS
    <3>2. M \subseteq 1..n /\ M \subseteq Int /\ M # {}
      BY <1>2, <1>6, <2>3, <3>1
    <3>3. IsFiniteSet(M)
      <4>1. n \in Int /\ 1 \in Int
        BY <1>2
      <4>2. IsFiniteSet(1..n)
        BY ONLY <4>1, FS_Interval
      <4> QED
        BY ONLY <3>2, <4>2, FS_Subset
    <3>4. Max(M) \in M
      BY ONLY <3>2, <3>3, MaxIsIn
    <3>5. PICK m : m = Max(M)
      OBVIOUS
    <3>6. m \in 1..n
      BY <3>2, <3>4, <3>5
    <3>7. Logged(f) = corrections[m].verified /\ Logged(f)' = corrections'[m].verified
      BY <2>1, <2>3, <3>1, <3>5 DEF Logged
    <3> QED
      BY <1>4, <1>8, <3>6, <3>7
  <2> QED
    BY <2>2, <2>3
<1> QED
  BY <1>7, <1>8

AtInterview == {"total", "log", "reread", "score"}

\* An interview has read a submitted assessment that explains itself, and what
\* it changes it logs.
Interviewing(r) ==
  req[r].op = "interview" =>
    /\ req[r].pc \in {"upsert"} \cup AtInterview => assessed.status = "submitted"
    /\ req[r].pc = "upsert" => /\ Explained
                               /\ req[r].todo = {f \in Field : Changed(f, req[r].sheet, assessed.answers)}
    /\ req[r].pc \in {"total", "log"} => \A f \in Field :
         assessed.answers[f] = IF f \in req[r].todo /\ req[r].sheet.given[f] # None
                               THEN req[r].sheet.given[f] ELSE Logged(f)
    /\ req[r].pc \in {"reread", "score"} => \A f \in Field : assessed.answers[f] = Logged(f)
    /\ req[r].pc \in {"log", "reread", "score"} => assessed.total = Income(assessed.answers)
    /\ req[r].pc = "score" => req[r].row = assessed.answers
    /\ req[r].pc \notin {"complete", "submit"}

Filling(r) ==
  req[r].op \in {"saveDraft", "submit"} =>
    /\ req[r].pc \in {"upsert", "total", "complete", "submit"} => assessed.status # "submitted"
    /\ req[r].pc = "submit" => req[r].row = assessed.answers
    /\ req[r].pc \in {"complete", "submit"} => req[r].op = "submit"
    /\ req[r].pc \notin {"log", "reread", "score"}

ExplainInv ==
  /\ assessed.status # "submitted" => corrections = <<>>
  /\ \/ assessed.status # "submitted" \/ Explained
     \/ \E r \in Req : req[r].op = "interview" /\ req[r].pc \in AtInterview
  /\ \A r \in Req : Interviewing(r) /\ Filling(r)

\* An interview the end of the process has cut short.
Cut == \E r \in Req : req[r].op = "interview" /\ req[r].pc = "died"

\* The others have ended or not begun.
LEMMA AssessedAlone ==
  ASSUME NEW r \in Req, Turn(r), \A q \in Req : q # r => req'[q] = req[q],
         (Interviewing(r) /\ Filling(r))'
  PROVE  \A q \in Req : (Interviewing(q) /\ Filling(q))'
<1>1. ASSUME NEW q \in Req, q # r
      PROVE  (Interviewing(q) /\ Filling(q))'
  <2>1. req'[q] = req[q] /\ req[q].pc \in Ended \cup {"idle"}
    BY <1>1, ServerAssumption DEF Turn, Req
  <2>2. req'[q].pc \in {"idle", "done", "failed", "died"}
    BY <2>1 DEF Ended
  <2> QED
    BY <2>2 DEF Interviewing, Filling, AtInterview
<1> QED
  BY <1>1

\* Unless it is at work itself, the request whose turn it is finds an
\* assessment that explains itself.
LEMMA FoundExplained ==
  ASSUME ExplainInv, NEW r \in Req, Turn(r), assessed.status = "submitted",
         req[r].pc \notin AtInterview
  PROVE  Explained
<1>1. ASSUME NEW q \in Req, q # r
      PROVE  req[q].pc \notin AtInterview
  BY <1>1, ServerAssumption DEF Turn, Req, Ended, AtInterview
<1> QED
  BY <1>1 DEF ExplainInv

LEMMA ExplainBegins == Init => ExplainInv
BY DEF Init, ServerInit, AssessmentInit, ExplainInv, Interviewing, Filling, AtInterview

\* The assessment and its corrections stay; the handler is where they allow it.
LEMMA ExplainRests ==
  ASSUME ExplainInv, NEW r \in Req, Turn(r), \A q \in Req : q # r => req'[q] = req[q],
         UNCHANGED assessments, (Interviewing(r) /\ Filling(r))',
         req[r].op = "interview" /\ req[r].pc \in AtInterview =>
           req'[r].op = "interview" /\ req'[r].pc \in AtInterview
  PROVE  ExplainInv'
<1>1. assessed' = assessed /\ corrections' = corrections
  BY DEF assessments
<1>2. Explained' <=> Explained
  BY <1>1 DEF Explained, Logged, Made
<1>3. \A q \in Req : (Interviewing(q) /\ Filling(q))'
  BY AssessedAlone
<1>4. ASSUME NEW q \in Req, req[q].op = "interview", req[q].pc \in AtInterview
      PROVE  req'[q].op = "interview" /\ req'[q].pc \in AtInterview
  BY <1>4
<1> QED
  BY <1>1, <1>2, <1>3, <1>4 DEF ExplainInv

LEMMA ExplainStep ==
  ASSUME Tabled, AssessmentInv, ExplainInv, NEW r \in Req, Turn(r), Handles(r, AssessmentOps),
         AssessmentStep(r)
  PROVE  ExplainInv'
<1>1. ASSUME req[r].pc # "idle"
      PROVE  /\ req[r] \in AssessmentRow
             /\ req[r].op \in {"saveDraft", "submit", "interview"}
             /\ req[r].sheet \in Sheet
  BY <1>1 DEF Handles, Tabled, AssessmentInv, Assessing, AssessmentRow, AssessmentOps
<1>2. Interviewing(r) /\ Filling(r)
  BY DEF ExplainInv
<1>3. CASE Answer(r)
  <2>1. PICK op \in {"saveDraft", "submit"} :
          \E sheet \in Sheet : Begin(r, AssessmentCall(op, "upsert", sheet))
    BY <1>3 DEF Answer
  <2>2. PICK sheet \in Sheet : Begin(r, AssessmentCall(op, "upsert", sheet))
    BY <2>1
  <2>3. /\ req'[r] = AssessmentCall(op, "upsert", sheet)
        /\ \A q \in Req : q # r => req'[q] = req[q]
    BY <2>2 DEF Begin, Tabled
  <2>4. req'[r].op = op /\ req'[r].pc = "upsert"
    BY <2>3 DEF AssessmentCall
  <2>5. req[r].pc = "idle" /\ assessed.status # "submitted" /\ UNCHANGED assessments
    BY <1>3 DEF Answer, CanStart, Editable
  <2>6. (Interviewing(r) /\ Filling(r))'
    BY <2>4, <2>5 DEF Interviewing, Filling, assessments
  <2> QED
    BY <2>3, <2>5, <2>6, ExplainRests DEF AtInterview
<1>4. CASE StartInterview(r)
  <2>1. PICK sheet \in Sheet : \E d \in {None, "verified", "rejected"} :
          Begin(r, [AssessmentCall("interview", "upsert", sheet) EXCEPT !.decision = d,
                      !.todo = {f \in Field : Changed(f, sheet, assessed.answers)}])
    BY <1>4 DEF StartInterview
  <2>2. PICK d \in {None, "verified", "rejected"} :
          Begin(r, [AssessmentCall("interview", "upsert", sheet) EXCEPT !.decision = d,
                      !.todo = {f \in Field : Changed(f, sheet, assessed.answers)}])
    BY <2>1
  <2>3. PICK todo : todo = {f \in Field : Changed(f, sheet, assessed.answers)}
    OBVIOUS
  <2>4. /\ req'[r] = [AssessmentCall("interview", "upsert", sheet) EXCEPT !.decision = d, !.todo = todo]
        /\ \A q \in Req : q # r => req'[q] = req[q]
    BY <2>2, <2>3 DEF Begin, Tabled
  <2>5. req'[r].op = "interview" /\ req'[r].pc = "upsert" /\ req'[r].sheet = sheet
        /\ req'[r].todo = todo
    BY <2>4 DEF AssessmentCall
  <2>6. req[r].pc = "idle" /\ assessed.status = "submitted"
        /\ assessed' = assessed /\ corrections' = corrections
    BY <1>4 DEF StartInterview, CanStart, assessments
  <2>7. Explained'
    <3>1. Explained
      BY <2>6, FoundExplained DEF AtInterview
    <3> QED
      BY <2>6, <3>1 DEF Explained, Logged, Made
  <2>8. req'[r].todo = {f \in Field : Changed(f, req'[r].sheet, assessed'.answers)}
    BY <2>3, <2>5, <2>6
  <2>9. (Interviewing(r) /\ Filling(r))'
    BY <2>5, <2>6, <2>7, <2>8 DEF Interviewing, Filling, AtInterview
  <2> QED
    BY <2>4, <2>6, <2>9, ExplainRests DEF AtInterview, assessments
<1>5. CASE Upsert(r)
  <2>1. req[r] \in AssessmentRow /\ req[r].pc = "upsert" /\ req[r].sheet \in Sheet
        /\ req[r].op \in {"saveDraft", "submit", "interview"}
    BY <1>1, <1>5 DEF Upsert, At
  <2>2. PICK new, status :
          /\ new = Merge(req[r].sheet.given, assessed.answers)
          /\ status = IF assessed.status = "absent" THEN "draft" ELSE assessed.status
    OBVIOUS
  <2>3. /\ assessed' = [assessed EXCEPT !.status = status, !.answers = new]
        /\ req'[r] = [req[r] EXCEPT !.pc = "total"] /\ \A q \in Req : q # r => req'[q] = req[q]
        /\ corrections' = corrections
    BY <1>5, <2>2 DEF Upsert, Goto, Tabled
  <2>4. /\ req'[r].pc = "total" /\ req'[r].op = req[r].op
        /\ req'[r].sheet = req[r].sheet /\ req'[r].todo = req[r].todo
    BY <2>1, <2>3 DEF AssessmentRow
  <2>5. /\ assessed'.status = status /\ assessed'.answers = new
        /\ assessed'.declared = assessed.declared
        /\ status = "submitted" <=> assessed.status = "submitted"
    BY <2>2, <2>3 DEF AssessmentInv, AssessedOK
  <2>6. CASE req[r].op = "interview"
    <3>1. /\ assessed.status = "submitted" /\ Explained
          /\ req[r].todo = {f \in Field : Changed(f, req[r].sheet, assessed.answers)}
      BY <1>2, <2>1, <2>6 DEF Interviewing
    <3>2. ASSUME NEW f \in Field
          PROVE  assessed'.answers[f] = IF f \in req[r].todo /\ req[r].sheet.given[f] # None
                                        THEN req[r].sheet.given[f] ELSE Logged(f)'
      <4>1. Logged(f)' = assessed.answers[f]
        BY <2>3, <2>5, <3>1, LoggedStays DEF Explained
      <4>2. assessed'.answers[f] = IF req[r].sheet.given[f] = None THEN assessed.answers[f]
                                   ELSE req[r].sheet.given[f]
        BY <2>2, <2>5 DEF Merge
      <4>3. f \notin req[r].todo => \/ req[r].sheet.given[f] = None
                                   \/ req[r].sheet.given[f] = assessed.answers[f]
        BY <3>1 DEF Changed
      <4> QED
        BY <4>1, <4>2, <4>3
    <3>3. (Interviewing(r) /\ Filling(r))'
      BY <2>4, <2>5, <2>6, <3>1, <3>2 DEF Interviewing, Filling, AtInterview
    <3> QED
      BY <2>3, <2>4, <2>5, <2>6, <3>1, <3>3, AssessedAlone DEF ExplainInv, AtInterview
  <2>7. CASE req[r].op # "interview"
    <3>1. assessed.status # "submitted" /\ corrections = <<>>
      BY <1>2, <2>1, <2>7 DEF Filling, ExplainInv
    <3>2. (Interviewing(r) /\ Filling(r))'
      BY <2>4, <2>5, <2>7, <3>1 DEF Interviewing, Filling
    <3> QED
      BY <2>3, <2>5, <3>1, <3>2, AssessedAlone DEF ExplainInv
  <2> QED
    BY <2>6, <2>7
<1>6. CASE UpdateTotal(r)
  <2>1. req[r] \in AssessmentRow /\ req[r].pc = "total"
        /\ req[r].op \in {"saveDraft", "submit", "interview"}
    BY <1>1, <1>6 DEF UpdateTotal, At
  <2>2. PICK total, pc : /\ total = Income(assessed.answers)
                         /\ pc = CASE req[r].op = "saveDraft" -> "done"
                                   [] req[r].op = "submit" -> "complete"
                                   [] OTHER -> IF req[r].todo = {} THEN "reread" ELSE "log"
    OBVIOUS
  <2>3. /\ assessed' = [assessed EXCEPT !.total = total]
        /\ req'[r] = [req[r] EXCEPT !.pc = pc] /\ \A q \in Req : q # r => req'[q] = req[q]
        /\ corrections' = corrections
    BY <1>6, <2>2 DEF UpdateTotal, Goto, Tabled
  <2>4. /\ req'[r].pc = pc /\ req'[r].op = req[r].op
        /\ req'[r].sheet = req[r].sheet /\ req'[r].todo = req[r].todo
    BY <2>1, <2>3 DEF AssessmentRow
  <2>5. /\ assessed'.status = assessed.status /\ assessed'.answers = assessed.answers
        /\ assessed'.declared = assessed.declared /\ assessed'.total = total
    BY <2>3 DEF AssessmentInv, AssessedOK
  <2>6. CASE req[r].op = "interview"
    <3>1. /\ assessed.status = "submitted"
          /\ \A f \in Field :
               assessed.answers[f] = IF f \in req[r].todo /\ req[r].sheet.given[f] # None
                                     THEN req[r].sheet.given[f] ELSE Logged(f)
      BY <1>2, <2>1, <2>6 DEF Interviewing, AtInterview
    <3>2. pc \in {"reread", "log"} /\ (pc = "reread" <=> req[r].todo = {})
      BY <2>2, <2>6
    <3>3. \A f \in Field : Logged(f)' = Logged(f)
      BY <2>3, <2>5, LoggedStays
    <3>4. \A f \in Field :
            assessed'.answers[f] = IF f \in req[r].todo /\ req[r].sheet.given[f] # None
                                   THEN req[r].sheet.given[f] ELSE Logged(f)'
      BY <2>5, <3>1, <3>3
    <3>5. pc = "reread" => \A f \in Field : assessed'.answers[f] = Logged(f)'
      BY <3>2, <3>4
    <3>6. (Interviewing(r) /\ Filling(r))'
      BY <2>2, <2>4, <2>5, <2>6, <3>1, <3>2, <3>4, <3>5 DEF Interviewing, Filling, AtInterview
    <3> QED
      BY <2>3, <2>4, <2>5, <2>6, <3>1, <3>2, <3>6, AssessedAlone DEF ExplainInv, AtInterview
  <2>7. CASE req[r].op # "interview"
    <3>1. assessed.status # "submitted" /\ corrections = <<>>
      BY <1>2, <2>1, <2>7 DEF Filling, ExplainInv
    <3>2. pc \in {"done", "complete"} /\ (pc = "complete" => req[r].op = "submit")
      BY <2>1, <2>2, <2>7
    <3>3. (Interviewing(r) /\ Filling(r))'
      BY <2>4, <2>5, <2>7, <3>1, <3>2 DEF Interviewing, Filling
    <3> QED
      BY <2>3, <2>5, <3>1, <3>3, AssessedAlone DEF ExplainInv
  <2> QED
    BY <2>6, <2>7
<1>7. CASE Incomplete(r)
  <2>1. req[r] \in AssessmentRow /\ req[r].pc = "complete" /\ req[r].op # "interview"
    BY <1>1, <1>2, <1>7 DEF Incomplete, At, Interviewing
  <2>2. /\ req'[r] = [req[r] EXCEPT !.pc = req[r].catch, !.catch = "failed"]
        /\ \A q \in Req : q # r => req'[q] = req[q]
        /\ UNCHANGED assessments
    BY <1>7 DEF Incomplete, Raise, Tabled
  <2>3. req'[r].pc = "failed" /\ req'[r].op = req[r].op
    BY <2>1, <2>2 DEF AssessmentRow
  <2>4. (Interviewing(r) /\ Filling(r))'
    BY <2>1, <2>3 DEF Interviewing, Filling
  <2> QED
    BY <2>1, <2>2, <2>4, ExplainRests
<1>8. CASE ReadRow(r)
  <2>1. req[r] \in AssessmentRow /\ req[r].pc \in {"complete", "reread"}
        /\ req[r].op \in {"saveDraft", "submit", "interview"}
    BY <1>1, <1>8 DEF ReadRow, At
  <2>2. PICK pc \in {"submit", "score"} : pc = IF req[r].op = "submit" THEN "submit" ELSE "score"
    OBVIOUS
  <2>3. /\ req'[r] = [req[r] EXCEPT !.row = assessed.answers, !.pc = pc]
        /\ \A q \in Req : q # r => req'[q] = req[q]
        /\ assessed' = assessed /\ corrections' = corrections
    BY <1>8, <2>2 DEF ReadRow, Tabled, assessments
  <2>4. req'[r].op = req[r].op /\ req'[r].pc = pc /\ req'[r].row = assessed'.answers
    BY <2>1, <2>3 DEF AssessmentRow
  <2>5. CASE req[r].op = "interview"
    <3>1. /\ assessed.status = "submitted" /\ pc = "score" /\ req[r].pc = "reread"
          /\ \A f \in Field : assessed.answers[f] = Logged(f)
          /\ assessed.total = Income(assessed.answers)
      BY <1>2, <2>1, <2>2, <2>5 DEF Interviewing, AtInterview
    <3>2. \A f \in Field : assessed'.answers[f] = Logged(f)'
      BY <2>3, <3>1, LoggedStays
    <3>3. (Interviewing(r) /\ Filling(r))'
      BY <2>3, <2>4, <2>5, <3>1, <3>2 DEF Interviewing, Filling, AtInterview
    <3> QED
      BY <2>3, <2>4, <2>5, <3>1, <3>3, ExplainRests DEF AtInterview, assessments
  <2>6. CASE req[r].op # "interview"
    <3>1. req[r].op = "submit" /\ pc = "submit" /\ assessed.status # "submitted"
      BY <1>2, <2>1, <2>2, <2>6 DEF Filling
    <3>2. (Interviewing(r) /\ Filling(r))'
      BY <2>3, <2>4, <3>1 DEF Interviewing, Filling
    <3> QED
      BY <2>3, <2>6, <3>2, ExplainRests DEF assessments
  <2> QED
    BY <2>5, <2>6
<1>9. CASE Submit(r)
  <2>1. req[r] \in AssessmentRow /\ req[r].pc = "submit"
        /\ req[r].op \in {"saveDraft", "submit", "interview"}
    BY <1>1, <1>9 DEF Submit, At
  <2>2. /\ req[r].op = "submit" /\ req[r].row = assessed.answers
        /\ corrections = <<>>
    BY <1>2, <2>1 DEF Interviewing, Filling, ExplainInv
  <2>3. PICK total, result : total = Income(req[r].row) /\ result = Scored(req[r].row, DefaultPolicy)
    OBVIOUS
  <2>4. /\ assessed' = [assessed EXCEPT !.status = "submitted", !.declared = req[r].row,
                                        !.total = total, !.result = result]
        /\ req'[r] = [req[r] EXCEPT !.pc = "done"] /\ \A q \in Req : q # r => req'[q] = req[q]
        /\ corrections' = corrections
    BY <1>9, <2>3 DEF Submit, Goto, Tabled
  <2>5. req'[r].op = "submit" /\ req'[r].pc = "done"
    BY <2>1, <2>2, <2>4 DEF AssessmentRow
  <2>6. /\ assessed'.status = "submitted" /\ assessed'.declared = assessed.answers
        /\ assessed'.answers = assessed.answers
        /\ assessed'.total = total /\ assessed'.result = result
    BY <2>2, <2>4 DEF AssessmentInv, AssessedOK
  <2>7. \A f \in Field : Logged(f)' = assessed.answers[f]
    BY <2>2, <2>4, <2>6 DEF Logged, Made
  <2>8. Explained'
    BY <2>2, <2>3, <2>6, <2>7 DEF Explained
  <2>9. (Interviewing(r) /\ Filling(r))'
    BY <2>5 DEF Interviewing, Filling
  <2> QED
    BY <2>4, <2>6, <2>8, <2>9, AssessedAlone DEF ExplainInv
<1>10. CASE LogCorrection(r)
  <2>1. req[r] \in AssessmentRow /\ req[r].pc = "log" /\ req[r].todo # {} /\ req[r].sheet \in Sheet
    BY <1>1, <1>10 DEF LogCorrection, At, AssessmentInv, Assessing, AssessmentRow
  <2>2. req[r].op = "interview"
    BY <1>1, <1>2, <2>1 DEF Filling
  <2>3. PICK g : g = CHOOSE f \in req[r].todo : TRUE
    OBVIOUS
  <2>4. g \in req[r].todo /\ g \in Field
    BY <2>1, <2>3 DEF AssessmentRow
  <2>5. PICK pc, v : /\ pc = IF req[r].todo = {g} THEN "reread" ELSE req[r].pc
                     /\ v = req[r].sheet.given[g]
    OBVIOUS
  <2>6. /\ corrections' = Append(corrections, [field |-> g, verified |-> v])
        /\ req'[r] = [req[r] EXCEPT !.todo = req[r].todo \ {g}, !.pc = pc]
        /\ \A q \in Req : q # r => req'[q] = req[q]
        /\ assessed' = assessed
    BY <1>10, <2>3, <2>5 DEF LogCorrection, Tabled
  <2>7. v \in Value
    BY <2>1, <2>4, <2>5 DEF Value
  <2>8. \A f \in Field : Logged(f)' = IF f = g /\ v # None THEN v ELSE Logged(f)
    BY <2>4, <2>6, <2>7, LoggedGrows
  <2>9. /\ req'[r].op = "interview" /\ req'[r].pc = pc
        /\ req'[r].todo = req[r].todo \ {g} /\ req'[r].sheet = req[r].sheet
    BY <2>1, <2>2, <2>6 DEF AssessmentRow
  <2>10. /\ assessed.status = "submitted" /\ assessed.total = Income(assessed.answers)
         /\ \A f \in Field :
              assessed.answers[f] = IF f \in req[r].todo /\ req[r].sheet.given[f] # None
                                    THEN req[r].sheet.given[f] ELSE Logged(f)
    BY <1>2, <2>1, <2>2 DEF Interviewing, AtInterview
  <2>11. ASSUME NEW f \in Field
         PROVE  assessed'.answers[f] = IF f \in req[r].todo \ {g} /\ req[r].sheet.given[f] # None
                                       THEN req[r].sheet.given[f] ELSE Logged(f)'
    <3>1. CASE f = g
      BY <2>4, <2>5, <2>6, <2>8, <2>10, <3>1
    <3>2. CASE f # g
      BY <2>6, <2>8, <2>10, <3>2
    <3> QED
      BY <3>1, <3>2
  <2>12. pc \in {"log", "reread"} /\ (pc = "reread" => req[r].todo \ {g} = {})
    BY <2>1, <2>4, <2>5
  <2>13. pc = "reread" => \A f \in Field : assessed'.answers[f] = Logged(f)'
    BY <2>11, <2>12
  <2>14. (Interviewing(r) /\ Filling(r))'
    BY <2>6, <2>9, <2>10, <2>11, <2>12, <2>13 DEF Interviewing, Filling, AtInterview
  <2> QED
    BY <2>6, <2>9, <2>10, <2>12, <2>14, AssessedAlone DEF ExplainInv, AtInterview
<1>11. CASE Rescore(r)
  <2>1. req[r] \in AssessmentRow /\ req[r].pc = "score"
    BY <1>1, <1>11 DEF Rescore, At
  <2>2. /\ req[r].op = "interview" /\ assessed.status = "submitted"
        /\ \A f \in Field : assessed.answers[f] = Logged(f)
        /\ assessed.total = Income(assessed.answers) /\ req[r].row = assessed.answers
    BY <1>1, <1>2, <2>1 DEF Interviewing, Filling, AtInterview
  <2>3. PICK result, verdict : /\ result = Scored(req[r].row, DefaultPolicy)
                               /\ verdict = IF req[r].decision = None THEN assessed.verdict
                                            ELSE req[r].decision
    OBVIOUS
  <2>4. /\ assessed' = [assessed EXCEPT !.result = result, !.verdict = verdict]
        /\ req'[r] = [req[r] EXCEPT !.pc = "done"] /\ \A q \in Req : q # r => req'[q] = req[q]
        /\ corrections' = corrections
    BY <1>11, <2>3 DEF Rescore, Goto, Tabled
  <2>5. req'[r].op = "interview" /\ req'[r].pc = "done"
    BY <2>1, <2>2, <2>4 DEF AssessmentRow
  <2>6. /\ assessed'.status = assessed.status /\ assessed'.answers = assessed.answers
        /\ assessed'.declared = assessed.declared /\ assessed'.total = assessed.total
        /\ assessed'.result = result
    BY <2>4 DEF AssessmentInv, AssessedOK
  <2>7. \A f \in Field : Logged(f)' = Logged(f)
    BY <2>4, <2>6, LoggedStays
  <2>8. Explained'
    BY <2>2, <2>3, <2>6, <2>7 DEF Explained
  <2>9. (Interviewing(r) /\ Filling(r))'
    BY <2>5 DEF Interviewing, Filling, AtInterview
  <2> QED
    BY <2>2, <2>4, <2>6, <2>8, <2>9, AssessedAlone DEF ExplainInv
<1> QED
  BY <1>3, <1>4, <1>5, <1>6, <1>7, <1>8, <1>9, <1>10, <1>11 DEF AssessmentStep

\* Requests are served one after the other and no statement of an interview
\* fails: whenever all have been served, a submitted assessment explains itself
\* (verify, financial-assessment.service.ts: the change, its log and the new
\* score are statements of their own).
THEOREM AssessmentIsExplained ==
  ASSUME MaxInFlight <= 1, "interview" \notin MayThrow
  PROVE  Spec => []AssessmentExplained
<1> DEFINE Inv == Cut \/ ExplainInv
<1>1. Init => Inv
  BY ExplainBegins
<1>2. Tabled /\ AssessmentInv /\ InTurn /\ Inv /\ [Next]_vars => Inv'
  <2> SUFFICES ASSUME Tabled, AssessmentInv, InTurn, Inv, [Next]_vars PROVE Inv'
    OBVIOUS
  <2>1. CASE UNCHANGED vars
    <3>1. req' = req /\ assessed' = assessed /\ corrections' = corrections
      BY <2>1 DEF vars, server, files, assessments
    <3>2. Cut => Cut'
      BY <3>1 DEF Cut
    <3>3. Explained' <=> Explained
      BY <3>1 DEF Explained, Logged, Made
    <3>4. ASSUME NEW r \in Req, Interviewing(r)
          PROVE  Interviewing(r)'
      <4>1. \A f \in Field : Logged(f)' = Logged(f)
        BY <3>1, LoggedStays
      <4> QED
        BY <3>1, <3>3, <3>4, <4>1 DEF Interviewing
    <3>5. \A r \in Req : Filling(r) => Filling(r)'
      BY <3>1 DEF Filling
    <3>6. ExplainInv => ExplainInv'
      BY <3>1, <3>3, <3>4, <3>5 DEF ExplainInv
    <3> QED
      BY <3>2, <3>6
  <2>2. ASSUME NEW r \in Req, Step(r) \/ Break(r)
        PROVE  Inv'
    <3>1. Turn(r) /\ (req[r].pc = "idle" \/ r \in InFlight)
      BY <2>2, TurnOfStep
    <3>2. \A q \in Req : q # r => req'[q] = req[q]
      BY <2>2, StepKeeps, BreakKeeps DEF Keeps
    <3>3. CASE Cut
      <4>1. PICK q \in Req : req[q].op = "interview" /\ req[q].pc = "died"
        BY <3>3 DEF Cut
      <4>2. q # r
        BY <3>1, <4>1 DEF InFlight, Ended
      <4> QED
        BY <3>2, <4>1, <4>2 DEF Cut
    <3>4. CASE ExplainInv /\ Step(r)
      <4>1. CASE AssessmentStep(r) /\ Handles(r, AssessmentOps)
        BY <3>1, <3>4, <4>1, ExplainStep
      <4>2. CASE UNCHANGED assessments /\ Away(r, AssessmentOps)
        <5>1. /\ req'[r].op \notin AssessmentOps
              /\ req[r].op = "interview" => req[r].pc \notin AtInterview
          BY <3>1, <4>2 DEF Away, Tabled, AssessmentOps, AtInterview, InFlight
        <5>2. (Interviewing(r) /\ Filling(r))'
          BY <5>1 DEF Interviewing, Filling, AssessmentOps
        <5> QED
          BY <3>1, <3>2, <3>4, <4>2, <5>1, <5>2, ExplainRests
      <4> QED
        BY <3>4, <4>1, <4>2, AtAssessment
    <3>5. CASE ExplainInv /\ Break(r)
      <4>1. /\ UNCHANGED assessments /\ req'[r].op = req[r].op
            /\ req[r].op \in AssessmentOps =>
                 (req'[r].pc = "died" \/ (req'[r].pc = "failed" /\ req[r].op \in MayThrow))
        BY <3>5, AssessmentBreaks
      <4>2. CASE req[r].op = "interview"
        BY <4>1, <4>2 DEF Cut, AssessmentOps
      <4>3. CASE req[r].op # "interview"
        <5>1. (Interviewing(r) /\ Filling(r))'
          BY <4>1, <4>3 DEF Interviewing, Filling, AssessmentOps
        <5> QED
          BY <3>1, <3>2, <3>5, <4>1, <4>3, <5>1, ExplainRests
      <4> QED
        BY <4>2, <4>3
    <3> QED
      BY <2>2, <3>3, <3>4, <3>5
  <2> QED
    BY <2>1, <2>2 DEF Next
<1>3. Inv => AssessmentExplained
  <2> SUFFICES ASSUME Inv, AllServed, assessed.status = "submitted"
               PROVE  Explained
    BY DEF AssessmentExplained, Explained, Logged, Made
  <2>1. \A r \in Req : req[r].pc \in {"idle", "done", "failed"}
    BY DEF AllServed
  <2> QED
    BY <2>1 DEF Cut, ExplainInv, AtInterview
<1> QED
  BY <1>1, <1>2, <1>3, AlwaysTabled, AlwaysAssessment, AlwaysInTurn, PTL DEF Spec
===============================================================================
