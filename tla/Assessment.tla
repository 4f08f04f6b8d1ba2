------------------------------- MODULE Assessment -------------------------------
(***************************************************************************)
(* financial-assessment.service.ts for one application: the guarantor fills *)
(* in a questionnaire over several requests and submits it, staff correct   *)
(* it in an interview, and it is scored at the submission and after every   *)
(* interview.  No version of the scoring policy is seeded, so that the      *)
(* default is in force.  The answers no score is computed from are one,     *)
(* "identity".  What is refused on its first read changes nothing and is    *)
(* left out.                                                                *)
(***************************************************************************)
EXTENDS Scoring, Sequences

CONSTANT Sheet   \* what a request may carry: answers, and fields sent as null

VARIABLES
  assessed,     \* table financial_assessments: the row
  corrections   \* table financial_assessment_field_corrections

assessments == <<assessed, corrections>>

AssessmentOps == {"saveDraft", "submit", "interview"}
Field    == Question \cup {"identity"}
Mandatory == Field \ {"additionalIncomeAmount", "yearsWithEmployer"}
Blank    == [f \in Field |-> None]

AssessmentInit ==
  /\ assessed = [status |-> "absent", answers |-> Blank, total |-> None, declared |-> Blank,
                 result |-> None, verdict |-> "pending"]
  /\ corrections = <<>>

AssessmentCall(op, pc, sheet) ==
  [op |-> op, pc |-> pc, catch |-> "failed", back |-> "done", sheet |-> sheet,
   todo |-> {}, row |-> Blank, decision |-> None]

(***************************************************************************)
(* saveDraft and submit: not once it has been submitted.                    *)
(***************************************************************************)
Editable_Submitted == TRUE
Editable == assessed.status # "submitted"

Answer(r) ==
  /\ \E op \in {"saveDraft", "submit"} :
       /\ CanStart(r, op)
       /\ Editable
       /\ \E sheet \in Sheet : Begin(r, AssessmentCall(op, "upsert", sheet))
  /\ UNCHANGED assessments

\* upsert: what is given replaces what is there, and nothing is ever erased.
Merge(new, old) == [f \in Field |-> IF new[f] = None THEN old[f] ELSE new[f]]

Upsert(r) ==
  /\ At(r, "upsert")
  /\ assessed' = [assessed EXCEPT !.status = IF @ = "absent" THEN "draft" ELSE @,
                                  !.answers = Merge(req[r].sheet.given, @)]
  /\ Goto(r, "total")
  /\ UNCHANGED corrections

UpdateTotal(r) ==
  /\ At(r, "total")
  /\ assessed' = [assessed EXCEPT !.total = Income(assessed.answers)]
  /\ Goto(r, CASE req[r].op = "saveDraft" -> "done"
               [] req[r].op = "submit" -> "complete"
               [] OTHER -> IF req[r].todo = {} THEN "reread" ELSE "log")
  /\ UNCHANGED corrections

Incomplete(r) ==   \* refused, but what was given stays
  /\ At(r, "complete")
  /\ \E f \in Mandatory : assessed.answers[f] = None
  /\ Raise(r)
  /\ UNCHANGED assessments

ReadRow(r) ==   \* the row the score is computed from
  /\ At(r, "complete") \/ At(r, "reread")
  /\ req[r].op = "submit" => \A f \in Mandatory : assessed.answers[f] # None
  /\ req' = [req EXCEPT ![r].row = assessed.answers,
                        ![r].pc = IF req[r].op = "submit" THEN "submit" ELSE "score"]
  /\ UNCHANGED <<desk, holding, assessments>>

Submit(r) ==
  /\ At(r, "submit")
  /\ assessed' = [assessed EXCEPT !.status = "submitted", !.declared = req[r].row,
                                  !.total = Income(req[r].row),
                                  !.result = Scored(req[r].row, DefaultPolicy)]
  /\ Goto(r, "done")
  /\ UNCHANGED corrections

(***************************************************************************)
(* verify: of a submitted assessment; every field whose text differs from   *)
(* what was read is logged, one INSERT at a time, between the change and    *)
(* the new score.  PostgreSQL prints an amount with two decimals and a      *)
(* tenure with one, JavaScript without trailing zeros: a whole number never *)
(* has the text it had.                                                     *)
(***************************************************************************)
Reprinted(f, v) == \/ f \in Amount /\ v % 10 = 0
                   \/ f = "yearsWithEmployer"

Changed(f, sheet, old) ==
  \/ f \in sheet.null /\ old[f] # None
  \/ /\ sheet.given[f] # None
     /\ sheet.given[f] # old[f] \/ Reprinted(f, sheet.given[f])

StartInterview(r) ==
  /\ CanStart(r, "interview")
  /\ assessed.status = "submitted"
  /\ \E sheet \in Sheet, d \in {None, "verified", "rejected"} :
       Begin(r, [AssessmentCall("interview", "upsert", sheet) EXCEPT !.decision = d,
                   !.todo = {f \in Field : Changed(f, sheet, assessed.answers)}])
  /\ UNCHANGED assessments

LogCorrection(r) ==   \* in the order of EDITABLE_FIELDS, which nothing depends on
  /\ At(r, "log")
  /\ LET f == CHOOSE g \in req[r].todo : TRUE IN
       /\ corrections' = Append(corrections, [field |-> f, verified |-> req[r].sheet.given[f]])
       /\ req' = [req EXCEPT ![r].todo = @ \ {f},
                             ![r].pc = IF req[r].todo = {f} THEN "reread" ELSE @]
  /\ UNCHANGED <<desk, holding, assessed>>

Rescore(r) ==
  /\ At(r, "score")
  /\ assessed' = [assessed EXCEPT !.result = Scored(req[r].row, DefaultPolicy),
                                  !.verdict = IF req[r].decision = None THEN @ ELSE req[r].decision]
  /\ Goto(r, "done")
  /\ UNCHANGED corrections

AssessmentStep(r) ==
  \/ Answer(r) \/ Upsert(r) \/ UpdateTotal(r) \/ Incomplete(r) \/ ReadRow(r) \/ Submit(r)
  \/ StartInterview(r) \/ LogCorrection(r) \/ Rescore(r)

-------------------------------------------------------------------------------
AssessmentTypeOK ==
  /\ assessed.status \in {"absent", "draft", "submitted"}
  /\ assessed.verdict \in {"pending", "verified", "rejected"}
  /\ DOMAIN assessed.answers = Field /\ DOMAIN assessed.declared = Field
  /\ \A k \in DOMAIN corrections : corrections[k].field \in Field

\* One request at a time, a submitted assessment explains itself: its score is
\* that of the answers it holds, and every answer is what the guarantor declared
\* or, where staff corrected it, the last correction with a value ("never
\* trusted from the client"; "immutable copy ... frozen at submission time").
AssessmentExplained ==
  AllServed /\ assessed.status = "submitted" =>
    /\ assessed.result = Scored(assessed.answers, DefaultPolicy)
    /\ assessed.total = Income(assessed.answers)
    /\ \A f \in Field :
         LET made == {k \in DOMAIN corrections : /\ corrections[k].field = f
                                                 /\ corrections[k].verified # None} IN
         assessed.answers[f] = IF made = {} THEN assessed.declared[f]
                               ELSE corrections[Max(made)].verified
===============================================================================
