------------------------------ MODULE Guarantors -------------------------------
(***************************************************************************)
(* guarantors.service.ts and the guarantor part of students.service.ts, for *)
(* one student: staff or the student invites a guarantor, who accepts or    *)
(* declines with the token of the mail.  A guarantor, its link to the       *)
(* student and a token are named by the handler that makes them; guarantor  *)
(* 0 was invited before the first request.  What is refused on its first    *)
(* read changes nothing and is left out.                                    *)
(***************************************************************************)
EXTENDS Handlers

CONSTANT Email

VARIABLES
  guarantor,   \* table guarantors
  link,        \* table student_guarantors: the status, by guarantor
  account      \* table users, UNIQUE (tenant_id, email): whose account it is

guarantors == <<guarantor, link, account>>

GuarantorOps == {"invite", "resend", "accept", "decline", "withdraw", "receipt"}
Guarantor  == {0} \cup Req
Someone    == 0 - 1   \* a student, or a member of staff
LinkStatus == {"absent", "pending_invitation", "active", "declined", "withdrawn"}

ASSUME GuarantorsAssumption == Email # {} /\ None \notin Guarantor

GuarantorsInit ==
  /\ \E e \in Varying(GuarantorOps, Email) :
       guarantor = [g \in Guarantor |->
         [email |-> IF g = 0 THEN e ELSE None, token |-> IF g = 0 THEN 0 ELSE None,
          activated |-> FALSE]]
  /\ link = [g \in Guarantor |-> IF g = 0 THEN "pending_invitation" ELSE "absent"]
  /\ \E taken \in Varying(GuarantorOps, SUBSET Email) :
       account = [e \in Email |-> IF e \in taken THEN Someone ELSE None]

GuarantorCall(op, pc, g, e) ==
  [op |-> op, pc |-> pc, catch |-> "failed", back |-> "done", guarantor |-> g, email |-> e]

\* The tokens that have been mailed.
Mailed == {0} \cup {q \in Req : req[q].op \in {"invite", "resend"} /\ req[q].pc = "done"}

(***************************************************************************)
(* addGuarantor: an e-mail address is invited once.                         *)
(***************************************************************************)
Invite(r) ==
  /\ CanStart(r, "invite")
  /\ \E e \in Email :
        /\ \A g \in Guarantor : guarantor[g].email # e
        /\ Begin(r, GuarantorCall("invite", "guarantor", r, e))
  /\ UNCHANGED guarantors

InsertGuarantor(r) ==
  /\ At(r, "guarantor")
  /\ guarantor' = [guarantor EXCEPT ![r] = [email |-> req[r].email, token |-> r,
                                             activated |-> FALSE]]
  /\ Goto(r, "link")
  /\ UNCHANGED <<link, account>>

InsertLink(r) ==
  /\ At(r, "link")
  /\ link' = [link EXCEPT ![r] = "pending_invitation"]
  /\ Goto(r, "done")
  /\ UNCHANGED <<guarantor, account>>

(***************************************************************************)
(* resendGuarantorInvite: a new token for whoever has no account yet, the   *)
(* one who declined included.                                               *)
(***************************************************************************)
Resendable(g) == link[g] # "absent" /\ ~guarantor[g].activated

Resend(r) ==
  /\ CanStart(r, "resend")
  /\ \E g \in Guarantor :
        /\ Resendable(g)
        /\ Begin(r, GuarantorCall("resend", "token", g, None))
  /\ UNCHANGED guarantors

RenewToken(r) ==
  /\ At(r, "token")
  /\ guarantor' = [guarantor EXCEPT ![req[r].guarantor].token = r]
  /\ Goto(r, "done")
  /\ UNCHANGED <<link, account>>

(***************************************************************************)
(* acceptInvite: one transaction makes the account, uses up the token and   *)
(* activates the link.  An invitation may have expired at any time.         *)
(***************************************************************************)
Invited(t) == {g \in Guarantor : guarantor[g].token = t /\ ~guarantor[g].activated}

Acceptable_Declined(g) == TRUE
Acceptable(g) == link[g] # "declined"

Accept(r) ==
  /\ CanStart(r, "accept")
  /\ \E t \in Mailed : \E g \in Invited(t) :
        /\ Acceptable(g)
        /\ Begin(r, GuarantorCall("accept", "account", g, guarantor[g].email))
  /\ UNCHANGED guarantors

CheckAccount(r) ==
  /\ At(r, "account")
  /\ account[req[r].email] = None
  /\ Goto(r, "accept")
  /\ UNCHANGED guarantors

AccountExists(r) ==   \* found by the check, or by the UNIQUE key
  /\ At(r, "account") \/ At(r, "accept")
  /\ account[req[r].email] # None
  /\ Raise(r)
  /\ UNCHANGED guarantors

AcceptTransaction(r) ==
  /\ At(r, "accept")
  /\ account[req[r].email] = None
  /\ LET g == req[r].guarantor IN
       /\ account' = [account EXCEPT ![req[r].email] = g]
       /\ guarantor' = [guarantor EXCEPT ![g].activated = TRUE, ![g].token = None]
       /\ link' = [link EXCEPT ![g] = IF @ = "absent" THEN @ ELSE "active"]
  /\ Goto(r, "done")

(***************************************************************************)
(* declineInvite: the link, then the token; a second time changes nothing.  *)
(***************************************************************************)
Decline(r) ==
  /\ CanStart(r, "decline")
  /\ \E t \in Mailed : \E g \in Invited(t) :
        Begin(r, GuarantorCall("decline", IF link[g] = "declined" THEN "done" ELSE "decline",
                               g, None))
  /\ UNCHANGED guarantors

MarkDeclined(r) ==
  /\ At(r, "decline")
  /\ link' = [link EXCEPT ![req[r].guarantor] = "declined"]
  /\ Goto(r, "clear")
  /\ UNCHANGED <<guarantor, account>>

ClearToken(r) ==
  /\ At(r, "clear")
  /\ guarantor' = [guarantor EXCEPT ![req[r].guarantor].token = None]
  /\ Goto(r, "done")
  /\ UNCHANGED <<link, account>>

(***************************************************************************)
(* withdrawGuarantor and submitReceiptOnBehalf find the active link, but    *)
(* their next statement is refused by the database: the UPDATE is sent      *)
(* three values for $3 to $5, and no unique index matches the ON CONFLICT.  *)
(***************************************************************************)
FindLinked(r) ==
  /\ \E op \in {"withdraw", "receipt"} :
       /\ CanStart(r, op)
       /\ \E g \in Guarantor : /\ link[g] = "active"
                               /\ Begin(r, GuarantorCall(op, "refused", g, None))
  /\ UNCHANGED guarantors

StatementRefused(r) ==
  /\ At(r, "refused")
  /\ Raise(r)
  /\ UNCHANGED guarantors

GuarantorsStep(r) ==
  \/ Invite(r) \/ InsertGuarantor(r) \/ InsertLink(r)
  \/ Resend(r) \/ RenewToken(r)
  \/ Accept(r) \/ CheckAccount(r) \/ AccountExists(r) \/ AcceptTransaction(r)
  \/ Decline(r) \/ MarkDeclined(r) \/ ClearToken(r)
  \/ FindLinked(r) \/ StatementRefused(r)

-------------------------------------------------------------------------------
GuarantorsTypeOK ==
  /\ guarantor \in [Guarantor -> [email : Email \cup {None}, token : Guarantor \cup {None},
                                  activated : BOOLEAN]]
  /\ link \in [Guarantor -> LinkStatus]
  /\ account \in [Email -> Guarantor \cup {None, Someone}]

\* An invitation is answered once: however often it is mailed again, who
\* accepted stays the guarantor and who declined never becomes one (one
\* request at a time: an acceptance and a refusal that cross both take effect).
AnsweredOnce ==
  [][\A g \in Guarantor : link[g] \in {"active", "declined"} => link'[g] = link[g]]_link
===============================================================================
