----------------------------- MODULE Applications -----------------------------
(***************************************************************************)
(* Financing requests of students and the one routine that moves their      *)
(* status (applications.service.ts): submission, transitionStatus with the  *)
(* membership ratchet it carries, and the status history.                   *)
(*                                                                          *)
(* As in the rest of the system a handler is a sequence of SQL statements   *)
(* with no transaction around them: one statement is one step.              *)
(* transitionStatus is called from several handlers, so a handler's record  *)
(* holds where to go on afterwards (back) and where an exception lands      *)
(* (catch).                                                                 *)
(***************************************************************************)
EXTENDS Naturals, Sequences, FiniteSets

CONSTANTS
  App,          \* rows of table applications that may come to exist
  Student,
  Owner,        \* whose application a row is
  Opened,       \* the status each application has before the model starts
  Req,          \* handler invocations; bounds how many requests arrive
  None,         \* SQL NULL / undefined
  Ops,          \* the endpoints in use
  ByHand,       \* statuses staff move applications to themselves
  MaxInFlight,  \* how many handlers run at once (1: requests are serialised)
  MayFail       \* whether a statement may throw, or the server die

Undecided == {"new_lead", "contacted", "waiting_for_documents", "documents_received",
              "under_review", "more_info_required", "on_hold", "capital_queue", "appealing"}
Approved  == {"approved_level1", "approved_level2", "approved_level3"}
Contract  == {"contract_sent", "contract_signed", "university_confirmed",
              "university_paid", "active_student"}
Closed    == {"rejected", "completed", "withdrawn"}
Status    == Undecided \cup Approved \cup Contract \cup Closed \cup {"fraud_flagged"}

Tier       == {"silver", "gold"}
Membership == {"bronze", "blacklisted"} \cup Tier

AllOps == {"apply", "create", "transition", "appeal", "start", "decide", "override", "fraud"}

ASSUME OwnerAssumption == /\ Owner \in [App -> Student]
                          /\ Opened \in [App -> {"absent", "new_lead", "under_review"}]
ASSUME NullAssumption  == None \notin App \cup Student \cup Req \cup Status \cup Tier
ASSUME UseAssumption   == /\ Ops \subseteq AllOps
                          /\ ByHand \subseteq Status
                          /\ MaxInFlight \in Nat
                          /\ MayFail \in BOOLEAN

VARIABLES
  app,      \* table applications
  history,  \* table application_status_history, per application
  member,   \* students.membership_status
  req       \* the handlers: where each is and what it has read

appVars == <<app, history, member, req>>

Row(status) == [status |-> status, tier |-> None, level |-> None, current |-> None]

Handler(op, pc, a, target, tier) ==
  [op |-> op, pc |-> pc, student |-> None, app |-> a, target |-> target,
   tier |-> tier, seen |-> None, back |-> "done", catch |-> "failed"]

Opening == <<[from |-> None, to |-> "new_lead"]>>
Past(status) == CASE status = "absent"   -> <<>>
                  [] status = "new_lead" -> Opening
                  [] OTHER -> Append(Opening, [from |-> "new_lead", to |-> "under_review"])

AppInit ==
  /\ app = [a \in App |-> Row(Opened[a])]
  /\ history = [a \in App |-> Past(Opened[a])]
  /\ member = [s \in Student |-> "bronze"]
  /\ req = [r \in Req |-> Handler("none", "idle", None, None, None)]

(***************************************************************************)
(* The transitions staff, students, universities and the pipeline may make. *)
(***************************************************************************)
STATUS_TRANSITIONS ==
  ({"new_lead"} \X {"contacted", "waiting_for_documents", "under_review"})
  \cup ({"contacted"} \X {"waiting_for_documents", "rejected"})
  \cup ({"waiting_for_documents"} \X {"documents_received", "on_hold"})
  \cup ({"documents_received"} \X {"under_review"})
  \cup ({"under_review"} \X (Approved \cup
          {"rejected", "on_hold", "waiting_for_documents", "capital_queue",
           "more_info_required", "fraud_flagged"}))
  \cup ({"more_info_required", "capital_queue", "appealing"} \X {"under_review", "rejected"})
  \cup (Approved \X {"contract_sent", "on_hold"})
  \cup ({"rejected"} \X {"appealing", "new_lead"})
  \cup ({"on_hold"} \X {"under_review", "rejected", "waiting_for_documents"})
  \cup {<<"contract_sent", "contract_signed">>, <<"contract_signed", "university_confirmed">>,
        <<"university_confirmed", "university_paid">>, <<"university_paid", "active_student">>,
        <<"active_student", "completed">>, <<"active_student", "withdrawn">>}

Allowed_Any(from, to) == TRUE
Allowed(from, to) == <<from, to>> \in STATUS_TRANSITIONS

Rank(m) == CASE m = "bronze" -> 1 [] m = "silver" -> 2 [] m = "gold" -> 3 [] OTHER -> 0

\* The tier an approval grants moves the membership up, never down.
Raises_Any(tier, m) == tier # m
Raises(tier, m) == Rank(tier) > Rank(m)

\* A request still being processed keeps its student from submitting another.
InProcess(s) == {a \in App : Owner[a] = s /\ app[a].status \notin Closed \cup {"absent"}}

(***************************************************************************)
(* Vocabulary of the handlers.                                              *)
(***************************************************************************)
InFlight == {r \in Req : req[r].pc \notin {"idle", "done", "failed"}}
Quiet    == InFlight = {}

CanStart(r, op) == /\ op \in Ops
                   /\ req[r].pc = "idle"
                   /\ Cardinality(InFlight) < MaxInFlight

At(r, pc)   == req[r].pc = pc
Goto(r, pc) == req' = [req EXCEPT ![r].pc = pc]
Begin(r, handler) == req' = [req EXCEPT ![r] = handler]

Exists(a) == app[a].status # "absent"

(***************************************************************************)
(* createForSelf and create: a student, or staff for a student, submit.     *)
(***************************************************************************)
Apply(r) ==
  /\ CanStart(r, "apply")
  /\ \E s \in Student :
        /\ member[s] # "blacklisted"
        /\ Begin(r, [Handler("apply", "look", None, None, None) EXCEPT !.student = s])
  /\ UNCHANGED <<app, history, member>>

LookForRequest(r) ==
  /\ At(r, "look")
  /\ Goto(r, IF InProcess(req[r].student) = {} THEN "insert" ELSE "failed")
  /\ UNCHANGED <<app, history, member>>

Create(r) ==
  /\ CanStart(r, "create")
  /\ \E s \in Student :
        Begin(r, [Handler("create", "insert", None, None, None) EXCEPT !.student = s])
  /\ UNCHANGED <<app, history, member>>

InsertApplication(r) ==
  /\ At(r, "insert")
  /\ \E a \in App :
        /\ ~Exists(a)
        /\ Owner[a] = req[r].student
        /\ app' = [app EXCEPT ![a] = Row("new_lead")]
        /\ req' = [req EXCEPT ![r].app = a, ![r].pc = "opened"]
  /\ UNCHANGED <<history, member>>

RecordOpening(r) ==
  /\ At(r, "opened")
  /\ history' = [history EXCEPT ![req[r].app] = Append(@, [from |-> None, to |-> "new_lead"])]
  /\ Goto(r, "done")
  /\ UNCHANGED <<app, member>>

(***************************************************************************)
(* transitionStatus.  Staff call it directly (PATCH status); the university *)
(* calls it to confirm an enrollment.                                       *)
(***************************************************************************)
Transition(r) ==
  /\ CanStart(r, "transition")
  /\ \E a \in App, target \in ByHand, tier \in Tier \cup {None} :
        /\ Exists(a)
        /\ tier # None => target \in Approved
        /\ Begin(r, Handler("transition", "check", a, target, tier))
  /\ UNCHANGED <<app, history, member>>

CheckTransition(r) ==
  /\ At(r, "check")
  /\ LET seen == app[req[r].app].status IN
       req' = [req EXCEPT ![r].seen = seen,
                          ![r].pc = IF Allowed(seen, req[r].target) THEN "update" ELSE req[r].catch]
  /\ UNCHANGED <<app, history, member>>

\* The UPDATE does not repeat the check.
UpdateStatus(r) ==
  /\ At(r, "update")
  /\ app' = [app EXCEPT ![req[r].app].status = req[r].target]
  /\ Goto(r, "history")
  /\ UNCHANGED <<history, member>>

RecordTransition_Reread(r) ==
  /\ At(r, "history")
  /\ history' = [history EXCEPT ![req[r].app] =
                   Append(@, [from |-> app[req[r].app].status, to |-> req[r].target])]
  /\ Goto(r, IF req[r].target \in Approved /\ req[r].tier # None THEN "tier" ELSE req[r].back)
  /\ UNCHANGED <<app, member>>
RecordTransition(r) ==
  /\ At(r, "history")
  /\ history' = [history EXCEPT ![req[r].app] =
                   Append(@, [from |-> req[r].seen, to |-> req[r].target])]
  /\ Goto(r, IF req[r].target \in Approved /\ req[r].tier # None THEN "tier" ELSE req[r].back)
  /\ UNCHANGED <<app, member>>

SetTier(r) ==
  /\ At(r, "tier")
  /\ app' = [app EXCEPT ![req[r].app].tier = req[r].tier]
  /\ Goto(r, "membership")
  /\ UNCHANGED <<history, member>>

ReadMembership(r) ==
  /\ At(r, "membership")
  /\ Goto(r, IF Raises(req[r].tier, member[Owner[req[r].app]]) THEN "raise" ELSE req[r].back)
  /\ UNCHANGED <<app, history, member>>

RaiseMembership(r) ==
  /\ At(r, "raise")
  /\ member' = [member EXCEPT ![Owner[req[r].app]] = req[r].tier]
  /\ Goto(r, req[r].back)
  /\ UNCHANGED <<app, history>>

\* A statement throws: whatever is already written stays.
Throw(r) ==
  /\ MayFail
  /\ r \in InFlight
  /\ req[r].pc # req[r].catch
  /\ Goto(r, req[r].catch)
  /\ UNCHANGED <<app, history, member>>

\* The process dies: no catch block runs.
Die(r) ==
  /\ MayFail
  /\ r \in InFlight
  /\ Goto(r, "failed")
  /\ UNCHANGED <<app, history, member>>

AppStart(r) == Apply(r) \/ Create(r) \/ Transition(r)

AppContinue(r) == \/ LookForRequest(r) \/ InsertApplication(r) \/ RecordOpening(r)
                  \/ CheckTransition(r) \/ UpdateStatus(r) \/ RecordTransition(r)
                  \/ SetTier(r) \/ ReadMembership(r) \/ RaiseMembership(r)
===============================================================================
