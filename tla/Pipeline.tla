------------------------------- MODULE Pipeline -------------------------------
(***************************************************************************)
(* The ten-stage decision pipeline (pipeline.service.ts) over applications: *)
(* runs, reviewer votes, the approval set of a run, the financing decision, *)
(* the capital queue, fraud, and appeals.                                   *)
(*                                                                          *)
(* The handler that starts a run names it: run[r] is the row of the run     *)
(* handler r inserts, ctx[r] what it keeps in memory while the stages go    *)
(* by.  What the gates of stages 1-3 and 5 and the caps of stage 6 find in  *)
(* the data of student, university and policies is left open.               *)
(***************************************************************************)
EXTENDS Applications

CONSTANTS
  Reviewer,
  Mode,          \* per application, the approval its amount asks for
  Levels,        \* financing_levels of the university's agreement
  QueueEnabled,  \* portfolio.capital_queue.enabled
  Reentry,       \* the stages staff start runs from
  Ballots        \* the votes cast, each with its tier or None

Risk      == {"low", "medium", "high"}
Modes     == {"auto", "single", "dual"}   \* executive asks for two as well
Vote      == {"approved", "rejected", "on_hold", "needs_more_documents", "waiting_list"}
Decision  == Approved \cup {"rejected", "on_hold", "capital_queue"}
RunStatus == {"absent", "active", "superseded", "completed", "cancelled"}
SetStatus == Vote \cup {"pending", "partially_approved", "overridden"}

ASSUME PipelineAssumption == /\ Mode \in [App -> Modes]
                             /\ Levels \subseteq Approved
                             /\ QueueEnabled \in BOOLEAN
                             /\ Reentry \subseteq 1..10
                             /\ Ballots \subseteq Vote \X (Tier \cup {None})
                             /\ \A b \in Ballots : b[2] # None => b[1] = "approved"
                             /\ None \notin Decision \cup Risk \cup Vote \cup Reviewer

VARIABLES
  run,     \* pipeline_runs, risk_profiles and financing_decisions, one of each per run
  set,     \* multi_approval_sets
  votes,   \* reviewer_decisions, in the order of decided_at
  queue,   \* capital_queue: dequeued_at is never written
  appeals, \* application_appeals
  ctx      \* what each handler holds of its run and its vote

pipeVars == <<run, set, votes, queue, appeals, ctx>>
vars     == <<appVars, pipeVars>>

NoRun == [status |-> "absent", app |-> None, number |-> 0, risk |-> None, decision |-> None]

Context == [stage |-> 1, number |-> 0, snapshot |-> None, mode |-> None, required |-> 0,
            decision |-> None, of |-> None, vote |-> None, voter |-> None]

Init ==
  /\ AppInit
  /\ run = [r \in Req |-> NoRun]
  /\ set = [r \in Req |-> None]
  /\ votes = <<>>
  /\ queue = {}
  /\ appeals = {}
  /\ ctx = [r \in Req |-> Context]

(***************************************************************************)
(* Vocabulary.                                                              *)
(***************************************************************************)
RunsOf(a)   == {q \in Req : run[q].status # "absent" /\ run[q].app = a}
NumberIn(a) == {run[q].number : q \in RunsOf(a)}
AppOf(r)    == req[r].app
AtStage(r, s) == At(r, "stage") /\ ctx[r].stage = s

\* Votes are named by their place in the table.
VotesOn(q)   == {k \in 1..Len(votes) : votes[k].run = q}
Approvals(q) == {k \in VotesOn(q) : votes[k].decision = "approved"}

\* ORDER BY decided_at DESC LIMIT 1
Latest(cast) == {k \in cast : \A j \in cast : j <= k}
LatestVote(q) ==
  IF VotesOn(q) = {} THEN {None} ELSE {votes[k].decision : k \in Latest(VotesOn(q))}
GrantedTier(q) ==
  LET tiered == {k \in Approvals(q) : votes[k].tier # None} IN
  IF tiered = {} THEN {None} ELSE {votes[k].tier : k \in Latest(tiered)}

Approvers_Rows(q) == Cardinality(Approvals(q))
Approvers(q) == Cardinality({votes[k].voter : k \in Approvals(q)})

Voted(q, who) == \E k \in 1..Len(votes) : votes[k].run = q /\ votes[k].voter = who

\* Stage 7: what the amount asks for, a high risk never being automatic.
ModeFor(a, risk) == IF risk = "high" /\ Mode[a] = "auto" THEN "single" ELSE Mode[a]
RequiredBy(mode) == CASE mode = "auto" -> 0 [] mode = "single" -> 1 [] OTHER -> 2

\* Stage 9: a reviewer's no, hold or waiting list stands; anything else is
\* decided from the run's risk and the levels the university offers.
ByRisk_Level(risk) == IF risk = "low" THEN "level1" ELSE "level3"
ByRisk(risk) ==
  IF risk = "low" /\ "approved_level1" \in Levels THEN "approved_level1"
  ELSE IF risk = "medium" /\ "approved_level2" \in Levels THEN "approved_level2"
  ELSE IF "approved_level3" \in Levels THEN "approved_level3" ELSE "rejected"

Decide(vote, risk) ==
  CASE vote = "rejected"     -> "rejected"
    [] vote = "on_hold"      -> "on_hold"
    [] vote = "waiting_list" -> "capital_queue"
    [] OTHER                 -> ByRisk(risk)

\* Stage 10: the application status a decision leads to.
StatusMap_OneLevel(d) == IF d \in Approved THEN "approved_level1" ELSE d
StatusMap(d) == d

Call(r, target, back) ==
  [req[r] EXCEPT !.pc = "check", !.target = target, !.back = back]

(***************************************************************************)
(* startRun: five statements before the stages, outside the try block.      *)
(***************************************************************************)
StartRun(r) ==
  /\ CanStart(r, "start")
  /\ \E a \in App, s \in Reentry :
        /\ Exists(a)
        /\ Begin(r, Handler("start", "snapshot", a, None, None))
        /\ ctx' = [ctx EXCEPT ![r].stage = s]
  /\ UNCHANGED <<app, history, member, run, set, votes, queue, appeals>>

Snapshot(r) ==
  /\ At(r, "snapshot")
  /\ ctx' = [ctx EXCEPT ![r].snapshot = app[AppOf(r)].status]
  /\ Goto(r, "number")
  /\ UNCHANGED <<app, history, member, run, set, votes, queue, appeals>>

NextNumber(r) ==
  /\ At(r, "number")
  /\ \E n \in 1..(Cardinality(Req) + 1) :
        /\ \A m \in NumberIn(AppOf(r)) : n > m
        /\ n = 1 \/ n - 1 \in NumberIn(AppOf(r))
        /\ ctx' = [ctx EXCEPT ![r].number = n]
  /\ Goto(r, "run")
  /\ UNCHANGED <<app, history, member, run, set, votes, queue, appeals>>

\* UNIQUE(application_id, run_number)
InsertRun_NotUnique(r) ==
  /\ At(r, "run")
  /\ run' = [run EXCEPT ![r] = [NoRun EXCEPT !.status = "active", !.app = AppOf(r),
                                             !.number = ctx[r].number]]
  /\ Goto(r, "supersede")
  /\ UNCHANGED <<app, history, member, set, votes, queue, appeals, ctx>>
InsertRun(r) ==
  /\ At(r, "run")
  /\ IF ctx[r].number \in NumberIn(AppOf(r))
     THEN Goto(r, "failed") /\ UNCHANGED run
     ELSE /\ run' = [run EXCEPT ![r] = [NoRun EXCEPT !.status = "active", !.app = AppOf(r),
                                                     !.number = ctx[r].number]]
          /\ Goto(r, "supersede")
  /\ UNCHANGED <<app, history, member, set, votes, queue, appeals, ctx>>

Supersede(r) ==
  /\ At(r, "supersede")
  /\ run' = [q \in Req |->
               IF q \in RunsOf(AppOf(r)) \ {r} /\ run[q].status = "active"
               THEN [run[q] EXCEPT !.status = "superseded"] ELSE run[q]]
  /\ Goto(r, "current")
  /\ UNCHANGED <<app, history, member, set, votes, queue, appeals, ctx>>

SetCurrentRun(r) ==
  /\ At(r, "current")
  /\ app' = [app EXCEPT ![AppOf(r)].current = r]
  /\ req' = [req EXCEPT ![r].pc = "stage", ![r].catch = "cancel"]
  /\ UNCHANGED <<history, member, run, set, votes, queue, appeals, ctx>>

(***************************************************************************)
(* The stages.                                                              *)
(***************************************************************************)
NextStage(r) == ctx' = [ctx EXCEPT ![r].stage = @ + 1]

\* Stages 1 (completeness), 2 (eligibility), 3 (partnership) and 5 (policy)
\* read and either pass, perhaps asking for a review, or block the run.
Gate(r) ==
  /\ \E s \in {1, 2, 3, 5} : AtStage(r, s)
  /\ \/ NextStage(r) /\ UNCHANGED req
     \/ Goto(r, "complete") /\ UNCHANGED ctx
  /\ UNCHANGED <<app, history, member, run, set, votes, queue, appeals>>

AssessRisk(r) ==
  /\ AtStage(r, 4)
  /\ \E risk \in Risk : run' = [run EXCEPT ![r].risk = risk]
  /\ NextStage(r)
  /\ UNCHANGED <<app, history, member, req, set, votes, queue, appeals>>

\* A cap of stage 6 is exceeded: the application waits instead of failing.
CapitalPasses(r) ==
  /\ AtStage(r, 6)
  /\ NextStage(r)
  /\ UNCHANGED <<app, history, member, req, run, set, votes, queue, appeals>>

CapitalExceeded_NoRow(r) ==
  /\ AtStage(r, 6)
  /\ QueueEnabled
  /\ Begin(r, Call(r, "capital_queue", "complete"))
  /\ UNCHANGED <<app, history, member, run, set, votes, queue, appeals, ctx>>
CapitalExceeded(r) ==
  /\ AtStage(r, 6)
  /\ QueueEnabled
  /\ queue' = queue \cup {[run |-> r, app |-> AppOf(r)]}
  /\ Begin(r, Call(r, "capital_queue", "complete"))
  /\ UNCHANGED <<app, history, member, run, set, votes, appeals, ctx>>

Threshold(r) ==
  /\ AtStage(r, 7)
  /\ LET mode == ModeFor(AppOf(r), run[r].risk) IN
       ctx' = [ctx EXCEPT ![r].stage = 8, ![r].mode = mode, ![r].required = RequiredBy(mode)]
  /\ UNCHANGED <<app, history, member, req, run, set, votes, queue, appeals>>

\* Stage 8 records the approvals needed and brings the application under
\* review.  "needs_review" does not stop the loop over the stages.
AskReviewers(r) ==
  /\ AtStage(r, 8)
  /\ IF ctx[r].mode = "auto" THEN UNCHANGED set
     ELSE set' = [set EXCEPT ![r] = [required |-> ctx[r].required, status |-> "pending"]]
  /\ IF ctx[r].snapshot = "under_review" THEN UNCHANGED req
     ELSE Begin(r, Call(r, "under_review", "stage"))
  /\ NextStage(r)
  /\ UNCHANGED <<app, history, member, run, votes, queue, appeals>>

GenerateDecision(r) ==
  /\ AtStage(r, 9)
  /\ \E vote \in LatestVote(r) :
       LET d == Decide(vote, run[r].risk) IN
         /\ ctx' = [ctx EXCEPT ![r].decision = d]
         /\ Goto(r, IF d = "capital_queue" THEN "waiting" ELSE "decision")
  /\ UNCHANGED <<app, history, member, run, set, votes, queue, appeals>>

WaitingList(r) ==
  /\ At(r, "waiting")
  /\ queue' = queue \cup {[run |-> r, app |-> AppOf(r)]}
  /\ Goto(r, "decision")
  /\ UNCHANGED <<app, history, member, run, set, votes, appeals, ctx>>

InsertDecision_Later(r) ==
  /\ At(r, "decision")
  /\ Goto(r, "stage")
  /\ NextStage(r)
  /\ UNCHANGED <<app, history, member, run, set, votes, queue, appeals>>
InsertDecision(r) ==
  /\ At(r, "decision")
  /\ run' = [run EXCEPT ![r].decision = ctx[r].decision]
  /\ Goto(r, "stage")
  /\ NextStage(r)
  /\ UNCHANGED <<app, history, member, set, votes, queue, appeals>>

\* Stage 10 takes the tier of the latest approval of this very run.
ExecuteDecision(r) ==
  /\ AtStage(r, 10)
  /\ LET d == ctx[r].decision IN
       \E tier \in IF d \in Approved THEN GrantedTier(r) ELSE {None} :
         req' = [req EXCEPT ![r] =
                   IF d = None THEN [@ EXCEPT !.pc = "complete"]
                   ELSE [Call(r, StatusMap(d), "level") EXCEPT !.tier = tier]]
  /\ UNCHANGED <<app, history, member, run, set, votes, queue, appeals, ctx>>

\* After the status, the level; then the tier and the ratchet once more.
SetLevel(r) ==
  /\ At(r, "level")
  /\ IF ctx[r].decision \in Approved
     THEN app' = [app EXCEPT ![AppOf(r)].level = ctx[r].decision] ELSE UNCHANGED app
  /\ req' = [req EXCEPT ![r].pc = IF req[r].tier = None THEN "complete" ELSE "tier",
                        ![r].back = "complete"]
  /\ UNCHANGED <<history, member, run, set, votes, queue, appeals, ctx>>

\* Both ends write the run's status whatever it has become since.  The trace is
\* stored inside the try: where it cannot be, a completed run is cancelled.
CompleteRun(r) ==
  /\ At(r, "complete")
  /\ run' = [run EXCEPT ![r].status = "completed"]
  /\ Goto(r, "trace")
  /\ UNCHANGED <<app, history, member, set, votes, queue, appeals, ctx>>

StoreTrace(r) ==
  /\ At(r, "trace")
  /\ Goto(r, "done")
  /\ UNCHANGED <<app, history, member, run, set, votes, queue, appeals, ctx>>

CancelRun_Rethrows(r) ==
  /\ At(r, "cancel")
  /\ Goto(r, "failed")
  /\ UNCHANGED <<app, history, member, run, set, votes, queue, appeals, ctx>>
CancelRun(r) ==
  /\ At(r, "cancel")
  /\ run' = [run EXCEPT ![r].status = "cancelled"]
  /\ Goto(r, "failed")
  /\ UNCHANGED <<app, history, member, set, votes, queue, appeals, ctx>>

(***************************************************************************)
(* submitHumanDecision, and the executive's overrideDecision.               *)
(***************************************************************************)
ReviewRun(r) ==
  /\ \E op \in {"decide", "override"}, q \in Req, who \in Reviewer, b \in Ballots :
        /\ CanStart(r, op)
        /\ run[q].status = "active"
        /\ op = "override" => b[1] \in {"approved", "rejected"}
        /\ Begin(r, Handler(op, IF op = "decide" THEN "voted" ELSE "vote",
                            run[q].app, None, b[2]))
        /\ ctx' = [ctx EXCEPT ![r].of = q, ![r].vote = b[1], ![r].voter = who, ![r].stage = 9]
  /\ UNCHANGED <<app, history, member, run, set, votes, queue, appeals>>

CheckVote(r) ==
  /\ At(r, "voted")
  /\ Goto(r, IF Voted(ctx[r].of, ctx[r].voter) THEN "failed" ELSE "vote")
  /\ UNCHANGED <<app, history, member, run, set, votes, queue, appeals, ctx>>

CastVote(r) ==
  /\ At(r, "vote")
  /\ votes' = Append(votes, [run |-> ctx[r].of, voter |-> ctx[r].voter,
                             decision |-> ctx[r].vote, tier |-> req[r].tier,
                             override |-> (req[r].op = "override")])
  \* the tier stays with the vote: startRun begins with none
  /\ req' = [req EXCEPT ![r].pc = "tally", ![r].tier = None]
  /\ UNCHANGED <<app, history, member, run, set, queue, appeals, ctx>>

Tally(r) ==
  /\ At(r, "tally")
  /\ LET s == set[ctx[r].of] IN
       Goto(r, IF s = None THEN "snapshot"
               ELSE IF req[r].op = "decide" /\ ctx[r].vote = "approved" /\ s.required > 1
               THEN "count" ELSE "mark")
  /\ UNCHANGED <<app, history, member, run, set, votes, queue, appeals, ctx>>

CountApprovers(r) ==
  /\ At(r, "count")
  /\ Goto(r, IF Approvers(ctx[r].of) < set[ctx[r].of].required THEN "partial" ELSE "mark")
  /\ UNCHANGED <<app, history, member, run, set, votes, queue, appeals, ctx>>

MarkPartial(r) ==
  /\ At(r, "partial")
  /\ set' = [set EXCEPT ![ctx[r].of].status = "partially_approved"]
  /\ Goto(r, "done")
  /\ UNCHANGED <<app, history, member, run, votes, queue, appeals, ctx>>

\* The decision is in: a new run goes on from stage 9.
MarkDecided(r) ==
  /\ At(r, "mark")
  /\ set' = [set EXCEPT ![ctx[r].of].status =
               IF req[r].op = "override" THEN "overridden" ELSE ctx[r].vote]
  /\ Goto(r, "snapshot")
  /\ UNCHANGED <<app, history, member, run, votes, queue, appeals, ctx>>

(***************************************************************************)
(* flagFraud: the one handler here that runs in a transaction.              *)
(***************************************************************************)
FraudRead(r) ==
  /\ CanStart(r, "fraud")
  /\ \E q \in Req : /\ run[q].status # "absent"
                    /\ Begin(r, Handler("fraud", "condemn", run[q].app, None, None))
  /\ UNCHANGED <<app, history, member, pipeVars>>

Condemn(r) ==
  /\ At(r, "condemn")
  /\ member' = [member EXCEPT ![Owner[AppOf(r)]] = "blacklisted"]
  /\ app' = [app EXCEPT ![AppOf(r)].status = "fraud_flagged"]
  /\ history' = [history EXCEPT ![AppOf(r)] = Append(@, [from |-> None, to |-> "fraud_flagged"])]
  /\ Goto(r, "done")
  /\ UNCHANGED pipeVars

(***************************************************************************)
(* submitAppeal: of a rejection that came with a decision.                  *)
(***************************************************************************)
AppealRead(r) ==
  /\ CanStart(r, "appeal")
  /\ \E a \in App :
        /\ app[a].status = "rejected"
        /\ \E q \in RunsOf(a) : run[q].decision # None
        /\ Begin(r, Handler("appeal", "appeal", a, "appealing", None))
  /\ UNCHANGED <<app, history, member, pipeVars>>

InsertAppeal(r) ==
  /\ At(r, "appeal")
  /\ appeals' = appeals \cup {[by |-> r, app |-> AppOf(r)]}
  /\ Goto(r, "check")
  /\ UNCHANGED <<app, history, member, run, set, votes, queue, ctx>>

Start(r) == \/ AppStart(r) /\ UNCHANGED pipeVars
            \/ StartRun(r) \/ ReviewRun(r) \/ FraudRead(r) \/ AppealRead(r)

Continue(r) == \/ AppContinue(r) /\ UNCHANGED pipeVars
               \/ Snapshot(r) \/ NextNumber(r) \/ InsertRun(r) \/ Supersede(r) \/ SetCurrentRun(r)
               \/ Gate(r) \/ AssessRisk(r) \/ CapitalPasses(r) \/ CapitalExceeded(r)
               \/ Threshold(r) \/ AskReviewers(r)
               \/ GenerateDecision(r) \/ WaitingList(r) \/ InsertDecision(r)
               \/ ExecuteDecision(r) \/ SetLevel(r) \/ CompleteRun(r) \/ StoreTrace(r) \/ CancelRun(r)
               \/ CheckVote(r) \/ CastVote(r) \/ Tally(r) \/ CountApprovers(r)
               \/ MarkPartial(r) \/ MarkDecided(r)
               \/ Condemn(r) \/ InsertAppeal(r)

Break(r) == (Throw(r) \/ Die(r)) /\ UNCHANGED pipeVars

Next == \E r \in Req : Start(r) \/ Continue(r) \/ Break(r)

Spec == Init /\ [][Next]_vars

\* The server runs on the handlers it has accepted; nobody must send any.
FairSpec == Spec /\ \A r \in Req : WF_vars(Continue(r))

-------------------------------------------------------------------------------
AppRow     == [status : Status \cup {"absent"}, tier : Tier \cup {None},
               level : Approved \cup {None}, current : Req \cup {None}]
HistoryRow == [from : Status \cup {None}, to : Status]
RunRow     == [status : RunStatus, app : App \cup {None}, number : Nat,
               risk : Risk \cup {None}, decision : Decision \cup {None}]
SetRow     == [required : 0..2, status : SetStatus]
VoteRow    == [run : Req, voter : Reviewer, decision : Vote, tier : Tier \cup {None},
               override : BOOLEAN]
Where      == {"idle", "done", "failed", "look", "insert", "opened", "check", "update", "history",
               "tier", "membership", "raise", "snapshot", "number", "run", "supersede",
               "current", "stage", "waiting", "decision", "level", "complete", "trace", "cancel",
               "voted", "vote", "tally", "count", "partial", "mark", "condemn", "appeal"}
HandlerRow == [op : AllOps \cup {"none"}, pc : Where, student : Student \cup {None},
               app : App \cup {None}, target : Status \cup {None}, tier : Tier \cup {None},
               seen : Status \cup {"absent", None}, back : {"done", "stage", "complete", "level"},
               catch : {"failed", "cancel"}]
ContextRow == [stage : 1..11, number : Nat, snapshot : Status \cup {"absent", None},
               mode : Modes \cup {None}, required : 0..2, decision : Decision \cup {None},
               of : Req \cup {None}, vote : Vote \cup {None}, voter : Reviewer \cup {None}]

\* NULL is not a row.
ASSUME RowAssumption == None \notin SetRow

\* The shape of the tables and of what the handlers hold in memory.
TypeOK ==
  /\ app \in [App -> AppRow]
  /\ history \in [App -> Seq(HistoryRow)]
  /\ member \in [Student -> Membership]
  /\ req \in [Req -> HandlerRow]
  /\ run \in [Req -> RunRow]
  /\ set \in [Req -> SetRow \cup {None}]
  /\ votes \in Seq(VoteRow)
  /\ queue \subseteq [run : Req, app : App]
  /\ appeals \subseteq [by : Req, app : App]
  /\ ctx \in [Req -> ContextRow]
===============================================================================
