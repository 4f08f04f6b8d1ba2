------------------------------- MODULE Documents -------------------------------
(***************************************************************************)
(* documents.service.ts for one application: files are announced, uploaded  *)
(* to the object store, confirmed, reviewed and looked at; the application  *)
(* has a checklist with one entry per document type.  A document is named   *)
(* by the handler that inserts it; two were announced before the first      *)
(* request.  What is refused on its first read changes nothing and is left  *)
(* out.                                                                     *)
(***************************************************************************)
EXTENDS Handlers

CONSTANT DocType

VARIABLES
  document,    \* table documents
  checklist,   \* table application_documents, UNIQUE (application_id, document_type_code)
  viewed       \* table document_access_logs: the documents a link was given for

papers == <<document, checklist, viewed>>

DocumentOps == {"upload", "confirm", "review", "view"}
Document  == (0..Requests + 1)
DocStatus == {"absent", "uploading", "uploaded", "verified", "rejected"}

ASSUME DocumentsAssumption == DocType # {} /\ None \notin Document

Announced(t, own) == [type |-> t, own |-> own, status |-> "uploading", passed |-> FALSE]
NoDocument == [type |-> None, own |-> FALSE, status |-> "absent", passed |-> FALSE]

DocumentsInit ==
  /\ \E t \in Varying(DocumentOps, [{0, Requests + 1} -> DocType]) :
       document = [d \in Document |->
         IF d \in Req THEN NoDocument ELSE Announced(t[d], FALSE)]
  /\ checklist = [t \in DocType |-> [document |-> None, status |-> "absent"]]
  /\ viewed = {}

DocumentCall(op, pc, d) ==
  [op |-> op, pc |-> pc, catch |-> "failed", back |-> "done", document |-> d,
   row |-> NoDocument, verdict |-> None]

OnFile == {d \in Document : document[d].status # "absent"}

(***************************************************************************)
(* generateUploadUrl, and generateMyUploadUrl, whose document belongs to    *)
(* the student and never to an application.                                 *)
(***************************************************************************)
RequestUpload(r) ==
  /\ CanStart(r, "upload")
  /\ \E t \in DocType, own \in BOOLEAN :
       Begin(r, [DocumentCall("upload", "announce", r) EXCEPT !.row = Announced(t, own)])
  /\ UNCHANGED papers

InsertDocument(r) ==
  /\ At(r, "announce")
  /\ document' = [document EXCEPT ![r] = req[r].row]
  /\ Goto(r, "done")
  /\ UNCHANGED <<checklist, viewed>>

(***************************************************************************)
(* confirmUpload, also behind confirmMyUpload: a pending document, then the *)
(* file's data, then the entry of its type.                                 *)
(***************************************************************************)
FindUpload(r) ==
  /\ CanStart(r, "confirm")
  /\ \E d \in OnFile :
       /\ document[d].status = "uploading"
       /\ Begin(r, [DocumentCall("confirm", "uploaded", d) EXCEPT !.row = document[d]])
  /\ UNCHANGED papers

MarkUploaded(r) ==   \* whatever a review has made of it meanwhile
  /\ At(r, "uploaded")
  /\ document' = [document EXCEPT ![req[r].document].status = "uploaded"]
  /\ Goto(r, IF req[r].row.own THEN "done" ELSE "list")
  /\ UNCHANGED <<checklist, viewed>>

ListDocument(r) ==
  /\ At(r, "list")
  /\ checklist' = [checklist EXCEPT ![req[r].row.type] =
                     [document |-> req[r].document, status |-> "uploaded"]]
  /\ Goto(r, "done")
  /\ UNCHANGED <<document, viewed>>

(***************************************************************************)
(* reviewDocument: any document, in any status; then the entry of its type, *)
(* whichever document that names by now.                                    *)
(***************************************************************************)
ReadForReview(r) ==
  /\ CanStart(r, "review")
  /\ \E d \in OnFile, v \in {"verified", "rejected"} :
       Begin(r, [DocumentCall("review", "mark", d) EXCEPT !.row = document[d], !.verdict = v])
  /\ UNCHANGED papers

MarkReviewed(r) ==
  /\ At(r, "mark")
  /\ document' = [document EXCEPT ![req[r].document].status = req[r].verdict,
                                  ![req[r].document].passed = @ \/ req[r].verdict = "verified"]
  /\ Goto(r, IF req[r].row.own THEN "done" ELSE "entry")
  /\ UNCHANGED <<checklist, viewed>>

EntryNow(r) == checklist[req[r].row.type]
MarkEntry_Listed(r) ==
  /\ At(r, "entry")
  /\ checklist' = [checklist EXCEPT ![req[r].row.type] =
                     [document |-> req[r].document, status |-> req[r].verdict]]
  /\ Goto(r, "done")
  /\ UNCHANGED <<document, viewed>>
MarkEntry(r) ==
  /\ At(r, "entry")
  /\ checklist' = [checklist EXCEPT ![req[r].row.type] =
       IF EntryNow(r).document = None THEN @ ELSE [@ EXCEPT !.status = req[r].verdict]]
  /\ Goto(r, "done")
  /\ UNCHANGED <<document, viewed>>

(***************************************************************************)
(* generateDownloadUrl: a link to whatever is not rejected, and a record of *)
(* it.  A university is only given what a checklist names.                  *)
(***************************************************************************)
ReadForView(r) ==
  /\ CanStart(r, "view")
  /\ \E d \in OnFile, university \in BOOLEAN :
       /\ university => \E t \in DocType : checklist[t].document = d
       /\ document[d].status # "rejected"
       /\ Begin(r, DocumentCall("view", "log", d))
  /\ UNCHANGED papers

LogView(r) ==
  /\ At(r, "log")
  /\ viewed' = viewed \cup {req[r].document}
  /\ Goto(r, "done")
  /\ UNCHANGED <<document, checklist>>

DocumentsStep(r) ==
  \/ RequestUpload(r) \/ InsertDocument(r)
  \/ FindUpload(r) \/ MarkUploaded(r) \/ ListDocument(r)
  \/ ReadForReview(r) \/ MarkReviewed(r) \/ MarkEntry(r)
  \/ ReadForView(r) \/ LogView(r)

-------------------------------------------------------------------------------
DocumentsTypeOK ==
  /\ document \in [Document -> [type : DocType \cup {None}, own : BOOLEAN,
                                status : DocStatus, passed : BOOLEAN]]
  /\ checklist \in [DocType -> [document : Document \cup {None}, status : DocStatus]]
  /\ viewed \subseteq Document

\* However confirmations and reviews cross, and wherever one of them fails
\* between its statements: an entry of the checklist names a document of its
\* type whose upload was confirmed, and is only marked verified once some
\* document of that type was (not always the one it names: a review of a
\* document that has been replaced marks the entry of its replacement).
ChecklistIsBacked ==
  \A t \in DocType : LET d == checklist[t].document IN
    /\ d = None <=> checklist[t].status = "absent"
    /\ d # None =>
         /\ document[d].type = t /\ ~document[d].own
         /\ \E q \in Req : req[q].op = "confirm" /\ req[q].pc = "done" /\ req[q].document = d
    /\ checklist[t].status = "verified" =>
         \E p \in Document : document[p].type = t /\ document[p].passed
===============================================================================
