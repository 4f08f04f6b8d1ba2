------------------------------ MODULE Membership -------------------------------
(***************************************************************************)
(* membership.service.ts and digital-pass.service.ts: a visitor's request   *)
(* for membership, its approval, which makes a student, an account and a    *)
(* pass in one transaction, and the life of the pass.  A student is named   *)
(* by the handler that inserts it; request 0 came before the first handler. *)
(***************************************************************************)
EXTENDS Handlers

CONSTANT Address   \* e-mail addresses

ASSUME MembershipAssumption == Address # {} /\ None \notin Address

VARIABLES
  wish,      \* table membership_requests
  student,   \* table students
  owner,     \* table users, UNIQUE (tenant_id, email): the account's student
  pass       \* table digital_student_passes, by student: the status

members == <<wish, student, owner, pass>>

MembershipOps == {"apply", "approve", "reject", "revoke", "verifyPass", "blacklist"}
Wish       == {0} \cup Req
Staff      == 0
WishStatus == {"absent", "pending", "approved", "rejected"}
PassStatus == {"absent", "active", "revoked"}
Tier       == {"none", "bronze", "blacklisted"}

MembershipInit ==
  /\ \E e \in Varying(MembershipOps, Address) :
       wish = [w \in Wish |-> [email |-> IF w = 0 THEN e ELSE None, student |-> None,
                               status |-> IF w = 0 THEN "pending" ELSE "absent"]]
  /\ student = [r \in Req |-> [email |-> None, tier |-> "none"]]
  /\ owner \in Varying(MembershipOps, [Address -> {None, Staff}])
  /\ pass = [r \in Req |-> "absent"]

MembershipCall(op, pc, w, e) ==
  [op |-> op, pc |-> pc, catch |-> "failed", back |-> "done", wish |-> w, email |-> e,
   pass |-> None, valid |-> FALSE]

Pending(e) == {w \in Wish : wish[w].status = "pending" /\ wish[w].email = e}

(***************************************************************************)
(* createRequest: no pending request and no student of this address.        *)
(***************************************************************************)
Apply(r) ==
  /\ CanStart(r, "apply")
  /\ \E e \in Address : /\ Pending(e) = {}
                        /\ Begin(r, MembershipCall("apply", "member", r, e))
  /\ UNCHANGED members

CheckMember(r) ==
  /\ At(r, "member")
  /\ IF \E s \in Req : student[s].email = req[r].email
     THEN Raise(r) ELSE Goto(r, "insert")
  /\ UNCHANGED members

InsertRequest(r) ==
  /\ At(r, "insert")
  /\ wish' = [wish EXCEPT ![r] = [email |-> req[r].email, student |-> None,
                                  status |-> "pending"]]
  /\ Goto(r, "done")
  /\ UNCHANGED <<student, owner, pass>>

(***************************************************************************)
(* approve: a pending request, no account of this address, then the         *)
(* transaction, which only the UNIQUE key of the account can refuse.        *)
(***************************************************************************)
FindWish(r) ==
  /\ \E op \in {"approve", "reject"} :
       /\ CanStart(r, op)
       /\ \E w \in Wish :
            /\ wish[w].status = "pending"
            /\ Begin(r, MembershipCall(op, IF op = "approve" THEN "account" ELSE "reject",
                                       w, wish[w].email))
  /\ UNCHANGED members

CheckOwner(r) ==
  /\ At(r, "account")
  /\ IF owner[req[r].email] = None THEN Goto(r, "provision") ELSE Raise(r)
  /\ UNCHANGED members

Provision(r) ==
  /\ At(r, "provision")
  /\ owner[req[r].email] = None
  /\ student' = [student EXCEPT ![r] = [email |-> req[r].email, tier |-> "bronze"]]
  /\ owner' = [owner EXCEPT ![req[r].email] = r]
  /\ pass' = [pass EXCEPT ![r] = "active"]
  /\ wish' = [wish EXCEPT ![req[r].wish].status = "approved", ![req[r].wish].student = r]
  /\ Goto(r, "done")

ProvisionRefused_Kept(r) ==
  /\ At(r, "provision")
  /\ owner[req[r].email] # None
  /\ student' = [student EXCEPT ![r] = [email |-> req[r].email, tier |-> "bronze"]]
  /\ Raise(r)
  /\ UNCHANGED <<wish, owner, pass>>
ProvisionRefused(r) ==
  /\ At(r, "provision")
  /\ owner[req[r].email] # None
  /\ Raise(r)
  /\ UNCHANGED members

RejectWish(r) ==   \* whatever the request has become
  /\ At(r, "reject")
  /\ wish' = [wish EXCEPT ![req[r].wish].status = "rejected"]
  /\ Goto(r, "done")
  /\ UNCHANGED <<student, owner, pass>>

(***************************************************************************)
(* The pass: revoked once; verified live, against the membership too.       *)
(* Blacklisting is the pipeline's, and revokes the pass with it.            *)
(***************************************************************************)
FindPass(r) ==
  /\ CanStart(r, "revoke")
  /\ \E s \in Req :
       /\ pass[s] = "active"
       /\ Begin(r, [MembershipCall("revoke", "revoke", None, None) EXCEPT !.pass = s])
  /\ UNCHANGED members

RevokePass(r) ==
  /\ At(r, "revoke")
  /\ pass' = [pass EXCEPT ![req[r].pass] = "revoked"]
  /\ Goto(r, "done")
  /\ UNCHANGED <<wish, student, owner>>

VerifyPass(r) ==
  /\ CanStart(r, "verifyPass")
  /\ \E s \in Req :
       /\ pass[s] # "absent"
       /\ Begin(r, [MembershipCall("verifyPass", "done", None, None) EXCEPT !.pass = s,
                      !.valid = pass[s] = "active" /\ student[s].tier # "blacklisted"])
  /\ UNCHANGED members

Blacklist(r) ==
  /\ CanStart(r, "blacklist")
  /\ \E s \in Req :
       /\ student[s].tier = "bronze"
       /\ student' = [student EXCEPT ![s].tier = "blacklisted"]
       /\ pass' = [pass EXCEPT ![s] = "revoked"]
       /\ Begin(r, [MembershipCall("blacklist", "done", None, None) EXCEPT !.pass = s])
  /\ UNCHANGED <<wish, owner>>

MembershipStep(r) ==
  \/ Apply(r) \/ CheckMember(r) \/ InsertRequest(r)
  \/ FindWish(r) \/ CheckOwner(r) \/ Provision(r) \/ ProvisionRefused(r) \/ RejectWish(r)
  \/ FindPass(r) \/ RevokePass(r) \/ VerifyPass(r) \/ Blacklist(r)

-------------------------------------------------------------------------------
MembershipTypeOK ==
  /\ wish \in [Wish -> [email : Address \cup {None}, status : WishStatus,
                        student : Req \cup {None}]]
  /\ student \in [Req -> [email : Address \cup {None}, tier : Tier]]
  /\ owner \in [Address -> Req \cup {None, Staff}]
  /\ pass \in [Req -> PassStatus]

\* "A Bronze member should never exist without a pass, or vice versa": however
\* requests, approvals and rejections cross, an address has one student at most,
\* who has the account and a pass, and an approved request has its student.
MembersAreWhole ==
  /\ \A s, t \in Req : student[s].tier # "none" /\ student[s].email = student[t].email => s = t
  /\ \A s \in Req : LET exists == student[s].tier # "none" IN
       /\ exists <=> pass[s] # "absent"
       /\ exists => owner[student[s].email] = s
  /\ \A w \in Wish : wish[w].status = "approved" =>
       /\ wish[w].student # None
       /\ student[wish[w].student].email = wish[w].email
===============================================================================
