------------------------------ MODULE Contracts -------------------------------
(***************************************************************************)
(* contracts.service.ts for one application and contract type (every query  *)
(* is by that pair): generation of a version, sending it for signature, and *)
(* recording signatures.  A contract, and a signature, are named by the     *)
(* handler that inserts them.                                               *)
(***************************************************************************)
EXTENDS Handlers, FiniteSetsExt

CONSTANTS
  Decision,   \* financing decisions of the application
  Party       \* signatory types

VARIABLES
  contract,   \* table contracts
  terms,      \* the S3 documents, by version
  signature   \* table contract_signatures

contracts == <<contract, terms, signature>>

ContractStatus == {"absent", "draft", "sent_for_signature", "partially_signed", "fully_signed"}
Version == 1..Cardinality(Req)

ContractCall(op, pc, c, d, p) ==
  [op |-> op, pc |-> pc, catch |-> "failed", back |-> "done", contract |-> c,
   decision |-> d, party |-> p, version |-> 0, count |-> 0, result |-> None]

ContractsInit ==
  /\ contract = [r \in Req |-> [status |-> "absent", version |-> 0, decision |-> None]]
  /\ terms = [v \in Version |-> None]
  /\ signature = [r \in Req |-> [contract |-> None, party |-> None]]

Generated == {c \in Req : contract[c].status # "absent"}
Signatures(c) == {s \in Req : signature[s].contract = c}

Required == 2   \* requiredMap: two for every contract type

(***************************************************************************)
(* generateContract: the terms are stored under the next version, then the  *)
(* row that points to them.                                                 *)
(***************************************************************************)
GenerateRead(r) ==
  /\ CanStart(r, "generate")
  /\ \E d \in Decision : Begin(r, ContractCall("generate", "version", None, d, None))
  /\ UNCHANGED contracts

NextVersion_Reused == Max({contract[c].version : c \in Generated} \cup {1})
NextVersion == Max({contract[c].version : c \in Generated} \cup {0}) + 1

ReadVersion(r) ==
  /\ At(r, "version")
  /\ req' = [req EXCEPT ![r].version = NextVersion, ![r].pc = "terms"]
  /\ UNCHANGED <<desk, holding, contracts>>

PutTerms(r) ==
  /\ req[r].pc = "terms"
  /\ terms' = [terms EXCEPT ![req[r].version] = req[r].decision]
  /\ Goto(r, "contract")
  /\ UNCHANGED <<contract, signature>>

InsertContract(r) ==
  /\ At(r, "contract")
  /\ contract' = [contract EXCEPT ![r] =
       [status |-> "draft", version |-> req[r].version, decision |-> req[r].decision]]
  /\ req' = [req EXCEPT ![r].result = r, ![r].pc = req[r].back]
  /\ UNCHANGED <<desk, holding, terms, signature>>

(***************************************************************************)
(* sendForSignature: only drafts, but the UPDATE does not say so again.     *)
(***************************************************************************)
Send(r) ==
  /\ CanStart(r, "send")
  /\ \E c \in Generated : Begin(r, ContractCall("send", "draft", c, None, None))
  /\ UNCHANGED contracts

Sendable(c) == contract[c].status = "draft"

FindDraft(r) ==
  /\ At(r, "draft")
  /\ Sendable(req[r].contract)
  /\ Goto(r, "sent")
  /\ UNCHANGED contracts

NoDraft(r) ==
  /\ At(r, "draft")
  /\ ~Sendable(req[r].contract)
  /\ Raise(r)
  /\ UNCHANGED contracts

MarkSent(r) ==
  /\ At(r, "sent")
  /\ contract' = [contract EXCEPT ![req[r].contract].status = "sent_for_signature"]
  /\ req' = [req EXCEPT ![r].result = req[r].contract, ![r].pc = req[r].back]
  /\ UNCHANGED <<desk, holding, terms, signature>>

(***************************************************************************)
(* recordSignature: any party, any number of times, in any status.          *)
(***************************************************************************)
SignRead(r) ==
  /\ CanStart(r, "sign")
  /\ \E c \in Generated, p \in Party :
        Begin(r, ContractCall("sign", "signature", c, None, p))
  /\ UNCHANGED contracts

InsertSignature(r) ==
  /\ At(r, "signature")
  /\ signature' = [signature EXCEPT ![r] = [contract |-> req[r].contract, party |-> req[r].party]]
  /\ Goto(r, "count")
  /\ UNCHANGED <<contract, terms>>

CountSignatures_Plus(r) ==
  /\ At(r, "count")
  /\ req' = [req EXCEPT ![r].count = Cardinality(Signatures(req[r].contract)) + 1,
                        ![r].pc = "signed"]
  /\ UNCHANGED <<desk, holding, contracts>>
CountSignatures(r) ==
  /\ At(r, "count")
  /\ req' = [req EXCEPT ![r].count = Cardinality(Signatures(req[r].contract)),
                        ![r].pc = "signed"]
  /\ UNCHANGED <<desk, holding, contracts>>

MarkSigned(r) ==
  /\ At(r, "signed")
  /\ contract' = [contract EXCEPT ![req[r].contract].status =
       IF req[r].count >= Required THEN "fully_signed" ELSE "partially_signed"]
  /\ Return(r)
  /\ UNCHANGED <<terms, signature>>

ContractsStep(r) ==
  \/ GenerateRead(r) \/ Send(r) \/ SignRead(r)
  \/ ReadVersion(r) \/ PutTerms(r) \/ InsertContract(r)
  \/ FindDraft(r) \/ NoDraft(r) \/ MarkSent(r)
  \/ InsertSignature(r) \/ CountSignatures(r) \/ MarkSigned(r)

-------------------------------------------------------------------------------
ContractsTypeOK ==
  /\ contract \in [Req -> [status : ContractStatus, version : Nat, decision : Decision \cup {None}]]
  /\ terms \in [Version -> Decision \cup {None}]
  /\ signature \in [Req -> [contract : Req \cup {None}, party : Party \cup {None}]]

\* The document stored under a contract's version is the one generated for
\* that contract, also when an earlier generation stored its document and was
\* cut off before its row (one request at a time: two generations at once may
\* be given the same version, and the later document wins).
TermsMatch ==
  \A c \in Generated : terms[contract[c].version] = contract[c].decision

\* Whatever interleaves and whatever fails, a contract shown as fully signed
\* has the signatures it requires on record, and they are its own.
SignedHasSignatures ==
  \A c \in Req : contract[c].status = "fully_signed" => Cardinality(Signatures(c)) >= Required
===============================================================================
