------------------------------ MODULE Universities ------------------------------
(***************************************************************************)
(* universities.service.ts: universities and the account of each, the       *)
(* agreements of one of them, and what happens when it stops teaching.      *)
(* Universities and agreements are named by the handler that inserts them;  *)
(* university 0 and agreement 0, in force, were there before.  What is      *)
(* refused on its first read changes nothing and is left out.               *)
(***************************************************************************)
EXTENDS Handlers

CONSTANTS
  Name,       \* of universities
  Portal,     \* accounts of universities
  Tranche,    \* the tranches of a tranche agreement
  Enrolled    \* students with a running contract

ASSUME UniversitiesAssumption == Name # {}

VARIABLES
  university,   \* table universities: name and account
  serves,       \* users.university_id_linked
  agreement,    \* table university_agreements
  tranches,     \* table agreement_tranches
  opened        \* table student_exceptional_events: how many, by student

colleges == <<university, serves, agreement, tranches, opened>>

UniversityOps == {"found", "rename", "link", "draft", "enact", "suspend"}
University      == {0} \cup Req
Agreement       == {0} \cup Req
AgreementStatus == {"absent", "draft", "active", "expired"}

UniversitiesInit ==
  /\ \E n \in Varying(UniversityOps, Name) : university =
       [u \in University |-> [name |-> IF u = 0 THEN n ELSE None, user |-> None]]
  /\ serves = [p \in Portal |-> None]
  /\ agreement = [a \in Agreement |-> IF a = 0 THEN "active" ELSE "absent"]
  /\ tranches = [a \in Agreement |-> {}]
  /\ opened = [s \in Enrolled |-> 0]

UniversityCall(op, pc, x) ==
  [op |-> op, pc |-> pc, catch |-> "failed", back |-> "done", on |-> x, name |-> None,
   user |-> None, todo |-> {}, valid |-> FALSE]

Founded == {u \in University : university[u].name # None}

(***************************************************************************)
(* create: no university of this name.  update renames without looking.     *)
(* linkUser: the university's account, then the account's university.       *)
(***************************************************************************)
FindName(r) ==
  /\ CanStart(r, "found")
  /\ \E n \in Name : /\ \A u \in University : university[u].name # n
                     /\ Begin(r, [UniversityCall("found", "insert", r) EXCEPT !.name = n])
  /\ UNCHANGED colleges

FindUniversity(r) ==
  /\ \E u \in Founded :
       \/ /\ CanStart(r, "rename")
          /\ \E n \in Name :
               Begin(r, [UniversityCall("rename", "insert", u) EXCEPT !.name = n])
       \/ /\ CanStart(r, "link")
          /\ \E p \in Portal :
               Begin(r, [UniversityCall("link", "user", u) EXCEPT !.user = p])
  /\ UNCHANGED colleges

StoreName(r) ==
  /\ At(r, "insert")
  /\ university' = [university EXCEPT ![req[r].on].name = req[r].name]
  /\ Goto(r, "done")
  /\ UNCHANGED <<serves, agreement, tranches, opened>>

LinkAccount(r) ==
  /\ At(r, "user")
  /\ university' = [university EXCEPT ![req[r].on].user = req[r].user]
  /\ Goto(r, "serves")
  /\ UNCHANGED <<serves, agreement, tranches, opened>>

LinkUniversity(r) ==
  /\ At(r, "serves")
  /\ serves' = [serves EXCEPT ![req[r].user] = req[r].on]
  /\ Goto(r, "done")
  /\ UNCHANGED <<university, agreement, tranches, opened>>

(***************************************************************************)
(* createAgreement: the draft is stored before its tranches are looked at;  *)
(* what is refused then leaves a draft without them.                        *)
(***************************************************************************)
Draft(r) ==
  /\ CanStart(r, "draft")
  /\ \E ts \in {{}, Tranche}, valid \in BOOLEAN :   \* not valid: missing, or not 100 %
       Begin(r, [UniversityCall("draft", "agreement", r) EXCEPT !.todo = ts, !.valid = valid])
  /\ UNCHANGED colleges

InsertAgreement(r) ==
  /\ At(r, "agreement")
  /\ agreement' = [agreement EXCEPT ![r] = "draft"]
  /\ Goto(r, IF ~req[r].valid THEN "refused"
             ELSE IF req[r].todo = {} THEN "done" ELSE "tranche")
  /\ UNCHANGED <<university, serves, tranches, opened>>

InsertTranche(r) ==
  /\ At(r, "tranche")
  /\ \E t \in req[r].todo :
       /\ tranches' = [tranches EXCEPT ![r] = @ \cup {t}]
       /\ req' = [req EXCEPT ![r].todo = @ \ {t},
                             ![r].pc = IF req[r].todo = {t} THEN "done" ELSE @]
  /\ UNCHANGED <<desk, holding, university, serves, agreement, opened>>

TranchesRefused(r) ==
  /\ req[r].pc = "refused" /\ req[r].op = "draft"
  /\ Raise(r)
  /\ UNCHANGED colleges

(***************************************************************************)
(* approveAgreement: a draft; the others in force expire; it is in force,   *)
(* whatever it is by then.                                                  *)
(***************************************************************************)
Expirable_Itself(a, b) == agreement[b] = "active" /\ a = b
Expirable(a, b) == agreement[b] = "active" /\ a # b

FindAgreement(r) ==
  /\ CanStart(r, "enact")
  /\ \E a \in Agreement : /\ agreement[a] = "draft"
                          /\ Begin(r, UniversityCall("enact", "expire", a))
  /\ UNCHANGED colleges

ExpireOthers(r) ==
  /\ At(r, "expire")
  /\ agreement' = [b \in Agreement |->
       IF Expirable(req[r].on, b) THEN "expired" ELSE agreement[b]]
  /\ Goto(r, "enact")
  /\ UNCHANGED <<university, serves, tranches, opened>>

Enact(r) ==
  /\ At(r, "enact")
  /\ agreement' = [agreement EXCEPT ![req[r].on] = "active"]
  /\ Goto(r, "done")
  /\ UNCHANGED <<university, serves, tranches, opened>>

(***************************************************************************)
(* initiateBusinessContinuity: an event for every student of the university *)
(* or of one program, one INSERT at a time; asked for a faculty it reads    *)
(* the students of no program.                                              *)
(***************************************************************************)
Suspend(r) ==
  /\ CanStart(r, "suspend")
  /\ \E affected \in SUBSET Enrolled :
       Begin(r, [UniversityCall("suspend", IF affected = {} THEN "done" ELSE "event", 0)
                   EXCEPT !.todo = affected])
  /\ UNCHANGED colleges

OpenEvent(r) ==
  /\ At(r, "event")
  /\ \E s \in req[r].todo :
       /\ opened' = [opened EXCEPT ![s] = @ + 1]
       /\ req' = [req EXCEPT ![r].todo = @ \ {s},
                             ![r].pc = IF req[r].todo = {s} THEN "done" ELSE @]
  /\ UNCHANGED <<desk, holding, university, serves, agreement, tranches>>

UniversitiesStep(r) ==
  \/ FindName(r) \/ FindUniversity(r) \/ StoreName(r) \/ LinkAccount(r) \/ LinkUniversity(r)
  \/ Draft(r) \/ InsertAgreement(r) \/ InsertTranche(r) \/ TranchesRefused(r)
  \/ FindAgreement(r) \/ ExpireOthers(r) \/ Enact(r)
  \/ Suspend(r) \/ OpenEvent(r)

-------------------------------------------------------------------------------
UniversitiesTypeOK ==
  /\ university \in [University -> [name : Name \cup {None}, user : Portal \cup {None}]]
  /\ serves \in [Portal -> University \cup {None}]
  /\ agreement \in [Agreement -> AgreementStatus]
  /\ tranches \in [Agreement -> SUBSET Tranche]
  /\ opened \in [Enrolled -> Nat]

\* The terms of a university are those of one agreement: with one request at a
\* time and no failure inside an approval, an agreement that was in force is
\* only ever replaced by another, and no two are in force together.
OneAgreementInForce == AllServed => Cardinality({a \in Agreement : agreement[a] = "active"}) = 1
===============================================================================
