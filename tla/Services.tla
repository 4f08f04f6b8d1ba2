------------------------------- MODULE Services -------------------------------
(***************************************************************************)
(* The services of the API behind one server: one pool of handlers and one  *)
(* pool of connections.  Contracts are also made by Execution; the other    *)
(* services share no row with each other here.                              *)
(***************************************************************************)
EXTENDS Execution, Score, Policy, Guarantors, Accounts, Membership, Documents, Universities,
        Assessment, Meetings

core   == <<contracts, execution, scores>>
people == <<guarantors, accounts, members, meetings>>
files  == <<policies, papers, colleges, assessments>>

vars == <<server, core, people, files>>

Init == /\ ServerInit
        /\ ContractsInit /\ ExecutionInit /\ ScoreInit
        /\ GuarantorsInit /\ AccountsInit /\ MembershipInit /\ MeetingsInit
        /\ PolicyInit /\ DocumentsInit /\ UniversitiesInit /\ AssessmentInit

CoreOps == {"generate", "send", "sign", "execute", "recordEvent", "correct", "getScore",
            "reconcile"}
CoreStep(r) == \/ ContractsStep(r) /\ UNCHANGED <<execution, scores>>
               \/ ExecutionStep(r) /\ UNCHANGED scores
               \/ ScoreStep(r) /\ UNCHANGED <<contracts, execution>>

Step(r) ==
  \/ Handles(r, CoreOps) /\ CoreStep(r) /\ UNCHANGED <<people, files>>
  \/ Handles(r, GuarantorOps) /\ GuarantorsStep(r)
       /\ UNCHANGED <<core, accounts, members, meetings, files>>
  \/ Handles(r, AccountOps) /\ AccountsStep(r)
       /\ UNCHANGED <<core, guarantors, members, meetings, files>>
  \/ Handles(r, MembershipOps) /\ MembershipStep(r)
       /\ UNCHANGED <<core, guarantors, accounts, meetings, files>>
  \/ Handles(r, MeetingOps) /\ MeetingsStep(r)
       /\ UNCHANGED <<core, guarantors, accounts, members, files>>
  \/ Handles(r, PolicyOps) /\ PolicyStep(r)
       /\ UNCHANGED <<core, people, papers, colleges, assessments>>
  \/ Handles(r, DocumentOps) /\ DocumentsStep(r)
       /\ UNCHANGED <<core, people, policies, colleges, assessments>>
  \/ Handles(r, UniversityOps) /\ UniversitiesStep(r)
       /\ UNCHANGED <<core, people, policies, papers, assessments>>
  \/ Handles(r, AssessmentOps) /\ AssessmentStep(r)
       /\ UNCHANGED <<core, people, policies, papers, colleges>>

Break(r) == (Throw(r) \/ Crash(r)) /\ UNCHANGED <<core, people, files>>

Next == \E r \in Req : Step(r) \/ Break(r)

Spec == Init /\ [][Next]_vars

\* Node resumes every handler whose statement was answered.
Continue(r) == r \in InFlight /\ Step(r)
Fairness == \A r \in Req : WF_vars(Continue(r))

FairSpec == Spec /\ Fairness

-------------------------------------------------------------------------------
TypeOK ==
  /\ holding \subseteq Req
  /\ ContractsTypeOK /\ ExecutionTypeOK /\ ScoreTypeOK
  /\ GuarantorsTypeOK /\ AccountsTypeOK /\ MembershipTypeOK /\ MeetingsTypeOK
  /\ PolicyTypeOK /\ DocumentsTypeOK /\ UniversitiesTypeOK /\ AssessmentTypeOK

\* Every request that was accepted comes to an end.  A handler in a transaction
\* keeps a connection and asks for more, so this rests on every exit from the
\* transaction giving the connection back, and on fewer executions at a time
\* than connections: with as many, each waits for the others for ever.
HandlersEnd == \A r \in Req : (r \in InFlight) ~> (r \notin InFlight)
===============================================================================
