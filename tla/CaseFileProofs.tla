----------------------------- MODULE CaseFileProofs -----------------------------
(***************************************************************************)
(* What holds of the case of a student when requests are served one after   *)
(* the other: whatever the number of requests, applications and reviewers.  *)
(* With two handlers at work each of these is false, as the runs show.      *)
(***************************************************************************)
EXTENDS PipelineProofs

OneAtATime == \A p, q \in InFlight : p = q

\* Where a handler still has something to do to the status or the membership.
Places == Moving \cup {"history"} \cup Raising \cup {"level", "complete"}

\* Where a handler is about to write history.
Telling == {"opened", "history"}

\* What the handler at work knows of the case is what the case is.
Steady(r) ==
  /\ req[r].pc = "update" => app[req[r].app].status = req[r].seen
  /\ req[r].pc = "raise" => Raises(req[r].tier, member[Owner[req[r].app]])
  /\ run[r].status # "absent" /\ run[r].decision # None =>
       /\ req[r].pc \in Moving \cup {"history"} =>
            req[r].target = run[r].decision /\ req[r].back = "level"
       /\ req[r].pc \in {"history", "level", "complete"} \cup Raising =>
            app[req[r].app].status = run[r].decision
       /\ req[r].pc \in Raising => req[r].back \in {"level", "complete"}
       /\ req[r].pc = "complete" \/ (req[r].pc \in Raising /\ req[r].back = "complete") =>
            (run[r].decision \in Approved => app[req[r].app].level = run[r].decision)

SInv == IInv /\ OneAtATime /\ \A r \in InFlight : Steady(r)

-------------------------------------------------------------------------------
(***************************************************************************)
(* One handler at a time.                                                   *)
(***************************************************************************)
LEMMA AppOthers ==
  ASSUME IInv, NEW r \in Req, AppStart(r) \/ AppContinue(r)
  PROVE  Others(r)
BY DEF Others, AppStart, AppContinue, Apply, Create, Transition, LookForRequest, InsertApplication,
       RecordOpening, CheckTransition, UpdateStatus, RecordTransition, SetTier, ReadMembership, RaiseMembership,
       Goto, Begin, IInv, TypeOK

LEMMA StartOthers ==
  ASSUME IInv, NEW r \in Req, Start(r)
  PROVE  Others(r)
BY AppOthers DEF Start, StartRun, ReviewRun, FraudRead, AppealRead, Begin, Others, IInv, TypeOK

LEMMA ContinueOthers ==
  ASSUME IInv, NEW r \in Req, Continue(r)
  PROVE  Others(r)
<1> USE DEF Others, Goto, Begin, IInv, TypeOK
<1>1. CASE Snapshot(r) \/ NextNumber(r) \/ InsertRun(r) \/ Supersede(r) \/ SetCurrentRun(r)
  BY <1>1 DEF Snapshot, NextNumber, InsertRun, Supersede, SetCurrentRun
<1>2. CASE Gate(r) \/ AssessRisk(r) \/ CapitalPasses(r) \/ CapitalExceeded(r) \/ Threshold(r)
             \/ AskReviewers(r)
  BY <1>2 DEF Gate, AssessRisk, CapitalPasses, CapitalExceeded, Threshold, AskReviewers
<1>3. CASE GenerateDecision(r) \/ WaitingList(r) \/ InsertDecision(r) \/ ExecuteDecision(r)
             \/ SetLevel(r) \/ CompleteRun(r) \/ StoreTrace(r) \/ CancelRun(r)
  BY <1>3 DEF GenerateDecision, WaitingList, InsertDecision, ExecuteDecision, SetLevel,
              CompleteRun, StoreTrace, CancelRun
<1>4. CASE CheckVote(r) \/ CastVote(r) \/ Tally(r) \/ CountApprovers(r)
             \/ MarkPartial(r) \/ MarkDecided(r) \/ Condemn(r) \/ InsertAppeal(r)
  BY <1>4 DEF CheckVote, CastVote, Tally, CountApprovers, MarkPartial, MarkDecided, Condemn,
              InsertAppeal
<1> QED
  BY <1>1, <1>2, <1>3, <1>4, AppOthers DEF Continue

LEMMA StartsAlone ==
  ASSUME IsFiniteSet(Req), MaxInFlight <= 1, NEW r \in Req, Start(r)
  PROVE  InFlight = {} /\ req[r].pc = "idle"
<1>1. Cardinality(InFlight) < MaxInFlight /\ req[r].pc = "idle"
  BY DEF Start, AppStart, Apply, Create, Transition, StartRun, ReviewRun, FraudRead, AppealRead,
         CanStart
<1>2. IsFiniteSet(InFlight)
  BY FS_Subset DEF InFlight
<1>3. Cardinality(InFlight) \in Nat /\ MaxInFlight \in Nat
  BY <1>2, FS_CardinalityType, UseAssumption
<1>4. Cardinality(InFlight) = 0
  BY <1>1, <1>3
<1> QED
  BY <1>1, <1>2, <1>4, FS_EmptySet

LEMMA ContinuesAtWork ==
  ASSUME NEW r \in Req, Continue(r) \/ Break(r)
  PROVE  r \in InFlight
<1> USE DEF InFlight, At, AtStage
<1>1. CASE AppContinue(r)
  BY <1>1 DEF AppContinue, LookForRequest, InsertApplication, RecordOpening, CheckTransition,
              UpdateStatus, RecordTransition, SetTier, ReadMembership, RaiseMembership
<1>2. CASE Snapshot(r) \/ NextNumber(r) \/ InsertRun(r) \/ Supersede(r) \/ SetCurrentRun(r)
             \/ Gate(r) \/ AssessRisk(r) \/ CapitalPasses(r) \/ CapitalExceeded(r) \/ Threshold(r)
             \/ AskReviewers(r)
  BY <1>2 DEF Snapshot, NextNumber, InsertRun, Supersede, SetCurrentRun,
              Gate, AssessRisk, CapitalPasses, CapitalExceeded, Threshold, AskReviewers
<1>3. CASE GenerateDecision(r) \/ WaitingList(r) \/ InsertDecision(r) \/ ExecuteDecision(r)
             \/ SetLevel(r) \/ CompleteRun(r) \/ StoreTrace(r) \/ CancelRun(r)
  BY <1>3 DEF GenerateDecision, WaitingList, InsertDecision, ExecuteDecision, SetLevel,
              CompleteRun, StoreTrace, CancelRun
<1>4. CASE CheckVote(r) \/ CastVote(r) \/ Tally(r) \/ CountApprovers(r)
             \/ MarkPartial(r) \/ MarkDecided(r) \/ Condemn(r) \/ InsertAppeal(r) \/ Break(r)
  BY <1>4 DEF CheckVote, CastVote, Tally, CountApprovers, MarkPartial, MarkDecided, Condemn,
              InsertAppeal, Break, Throw, Die
<1> QED
  BY <1>1, <1>2, <1>3, <1>4 DEF Continue

\* The handler that takes a step is the only one at work after it.
LEMMA Alone ==
  ASSUME IsFiniteSet(Req), MaxInFlight <= 1, IInv, OneAtATime,
         NEW r \in Req, Start(r) \/ Continue(r) \/ Break(r)
  PROVE  /\ Others(r)
         /\ \A q \in InFlight : q = r /\ ~Start(r)
         /\ \A q \in InFlight' : q = r
<1>1. Others(r)
  BY StartOthers, ContinueOthers DEF Break, Throw, Die, Goto, Others, IInv, TypeOK
<1>2. \A q \in InFlight : q = r /\ ~Start(r)
  BY StartsAlone, ContinuesAtWork DEF OneAtATime
<1>3. \A q \in InFlight' : q = r
  BY <1>1, <1>2 DEF Others, InFlight
<1> QED
  BY <1>1, <1>2, <1>3

-------------------------------------------------------------------------------
(***************************************************************************)
(* The handler at work stays in step with the case.                         *)
(***************************************************************************)
LEMMA Calm ==
  ASSUME NEW r \in Req, req'[r].pc \notin Places
  PROVE  Steady(r)'
BY DEF Steady, Places, Moving, Raising

LEMMA GotoPlace ==
  ASSUME IInv, NEW r \in Req, NEW pc, Goto(r, pc)
  PROVE  req'[r].pc = pc
<1>1. req \in [Req -> HandlerRow]
  BY DEF IInv, TypeOK
<1>2. req[r] \in HandlerRow /\ req'[r] = [req[r] EXCEPT !.pc = pc]
  BY <1>1 DEF Goto
<1> QED
  BY <1>2 DEF HandlerRow

LEMMA BeginPlace ==
  ASSUME IInv, NEW r \in Req, NEW h, Begin(r, h)
  PROVE  req'[r] = h
BY DEF Begin, IInv, TypeOK

LEMMA CalmStarts ==
  ASSUME IInv, NEW r \in Req,
         Apply(r) \/ Create(r) \/ StartRun(r) \/ ReviewRun(r) \/ FraudRead(r) \/ AppealRead(r)
  PROVE  Steady(r)' /\ req'[r].pc \notin Telling
<1> SUFFICES req'[r].pc \notin Places \cup Telling
  BY Calm
<1> USE DEF Places, Moving, Raising, Telling
<1>1. CASE Apply(r)
  BY <1>1, BeginPlace DEF Apply, Handler
<1>2. CASE Create(r)
  BY <1>2, BeginPlace DEF Create, Handler
<1>3. CASE StartRun(r)
  BY <1>3, BeginPlace DEF StartRun, Handler
<1>4. CASE ReviewRun(r)
  <2>1. PICK op \in {"decide", "override"}, q \in Req, who \in Reviewer, b \in Ballots :
          Begin(r, Handler(op, IF op = "decide" THEN "voted" ELSE "vote", run[q].app, None, b[2]))
    BY <1>4 DEF ReviewRun
  <2> DEFINE pc == IF op = "decide" THEN "voted" ELSE "vote"
  <2>2. req'[r] = Handler(op, pc, run[q].app, None, b[2]) /\ pc \in {"voted", "vote"}
    BY <2>1, BeginPlace
  <2> HIDE DEF pc
  <2> QED
    BY <2>2 DEF Handler
<1>5. CASE FraudRead(r)
  BY <1>5, BeginPlace DEF FraudRead, Handler
<1>6. CASE AppealRead(r)
  BY <1>6, BeginPlace DEF AppealRead, Handler
<1> QED
  BY <1>1, <1>2, <1>3, <1>4, <1>5, <1>6

LEMMA CalmInsertApplication ==
  ASSUME IInv, NEW r \in Req, InsertApplication(r)
  PROVE  Steady(r)'
<1>0. req \in [Req -> HandlerRow] /\ req[r] \in HandlerRow
  BY DEF IInv, TypeOK
<1>1. PICK a \in App : req' = [req EXCEPT ![r].app = a, ![r].pc = "opened"]
  BY DEF InsertApplication
<1>2. req'[r] = [req[r] EXCEPT !.app = a, !.pc = "opened"]
  BY <1>0, <1>1
<1>3. req'[r].pc = "opened"
  BY <1>0, <1>2 DEF HandlerRow
<1> QED
  BY <1>3, Calm DEF Places, Moving, Raising

LEMMA CalmSteps ==
  ASSUME IInv, NEW r \in Req,
         \/ LookForRequest(r) \/ RecordOpening(r)
         \/ Snapshot(r) \/ NextNumber(r) \/ InsertRun(r) \/ Supersede(r) \/ SetCurrentRun(r)
         \/ AssessRisk(r) \/ CapitalPasses(r) \/ Threshold(r)
         \/ GenerateDecision(r) \/ WaitingList(r) \/ InsertDecision(r)
         \/ CompleteRun(r) \/ StoreTrace(r) \/ CancelRun(r)
         \/ CheckVote(r) \/ CastVote(r) \/ Tally(r) \/ CountApprovers(r)
         \/ MarkPartial(r) \/ MarkDecided(r) \/ Condemn(r) \/ Break(r)
  PROVE  Steady(r)' /\ req'[r].pc \notin Telling
<1> SUFFICES req'[r].pc \notin Places \cup Telling
  BY Calm
<1>0. /\ req \in [Req -> HandlerRow] /\ req[r] \in HandlerRow
      /\ req[r].catch \in {"failed", "cancel"}
  BY DEF IInv, TypeOK, HandlerRow
<1>2. CASE SetCurrentRun(r) \/ CastVote(r)
  <2>1. req'[r] = [req[r] EXCEPT !.pc = "stage", !.catch = "cancel"]
        \/ req'[r] = [req[r] EXCEPT !.pc = "tally", !.tier = None]
    BY <1>0, <1>2 DEF SetCurrentRun, CastVote
  <2>2. req'[r].pc \in {"stage", "tally"}
    BY <1>0, <2>1 DEF HandlerRow
  <2> QED
    BY <2>2 DEF Places, Moving, Raising, Telling
<1>3. CASE AssessRisk(r) \/ CapitalPasses(r) \/ Threshold(r)
  BY <1>3 DEF AssessRisk, CapitalPasses, Threshold, AtStage, At, Places, Moving, Raising, Telling
<1>4. CASE \E pc \in {"done", "insert", "trace", "number", "run", "failed", "supersede", "current",
                       "waiting", "decision", "stage", "cancel", "vote", "snapshot", "count", "mark",
                       "partial"} : Goto(r, pc)
  BY <1>4, GotoPlace DEF Places, Moving, Raising, Telling
<1>5. CASE LookForRequest(r) \/ RecordOpening(r) \/ Snapshot(r) \/ NextNumber(r)
             \/ InsertRun(r) \/ Supersede(r)
  BY <1>4, <1>5 DEF LookForRequest, RecordOpening, Snapshot, NextNumber, InsertRun, Supersede
<1>6. CASE GenerateDecision(r) \/ WaitingList(r) \/ InsertDecision(r) \/ CompleteRun(r)
             \/ StoreTrace(r) \/ CancelRun(r)
  BY <1>4, <1>6 DEF GenerateDecision, WaitingList, InsertDecision, CompleteRun, StoreTrace,
                    CancelRun
<1>7. CASE CheckVote(r) \/ Tally(r) \/ CountApprovers(r) \/ MarkPartial(r) \/ MarkDecided(r)
             \/ Condemn(r)
  BY <1>4, <1>7 DEF CheckVote, Tally, CountApprovers, MarkPartial, MarkDecided, Condemn
<1>8. CASE Break(r)
  BY <1>0, <1>4, <1>8 DEF Break, Throw, Die
<1> QED
  BY <1>2, <1>3, <1>5, <1>6, <1>7, <1>8

LEMMA AtWork ==
  ASSUME SInv, NEW r \in Req, Continue(r)
  PROVE  /\ req \in [Req -> HandlerRow] /\ req[r] \in HandlerRow
         /\ req[r].back \in {"done", "stage", "complete", "level"}
         /\ Equipped(r) /\ RunKnown(r) /\ Steady(r) /\ IInv
BY Known, ContinuesAtWork DEF SInv, HandlerRow

LEMMA SteadyTransition ==
  ASSUME SInv, NEW r \in Req, Transition(r), UNCHANGED pipeVars
  PROVE  Steady(r)' /\ req'[r].pc \notin Telling
<1>1. req[r].pc = "idle"
  BY DEF Transition, CanStart
<1>2. run[r].status = "absent"
  BY <1>1 DEF SInv, IInv, Handlers, RunKnown, Before
<1>3. req'[r].pc = "check"
  BY BeginPlace DEF Transition, Handler, SInv
<1> QED
  BY <1>2, <1>3 DEF Telling, Steady, pipeVars

LEMMA SteadyInsertAppeal ==
  ASSUME SInv, NEW r \in Req, InsertAppeal(r)
  PROVE  Steady(r)' /\ req'[r].pc \notin Telling
<1>1. req[r].pc = "appeal" /\ UNCHANGED run
  BY DEF InsertAppeal, At
<1>2. run[r].status = "absent"
  BY <1>1 DEF SInv, IInv, Handlers, RunKnown, Before
<1>3. req'[r].pc = "check"
  BY GotoPlace DEF InsertAppeal, SInv
<1> QED
  BY <1>1, <1>2, <1>3 DEF Telling, Steady

LEMMA SteadyCheckTransition ==
  ASSUME SInv, NEW r \in Req, CheckTransition(r), UNCHANGED pipeVars
  PROVE  Steady(r)' /\ req'[r].pc \notin Telling
<1>0. /\ req \in [Req -> HandlerRow] /\ req[r] \in HandlerRow
      /\ Steady(r)
  BY AtWork DEF Continue, AppContinue
<1>1. req[r].pc = "check" /\ UNCHANGED <<app, member, run>>
  BY DEF CheckTransition, At, pipeVars
<1> DEFINE seen == app[req[r].app].status
           pc   == IF Allowed(seen, req[r].target) THEN "update" ELSE req[r].catch
<1>2. req'[r] = [req[r] EXCEPT !.seen = seen, !.pc = pc]
  BY <1>0 DEF CheckTransition
<1>3. pc \in {"update", "failed", "cancel"}
  BY <1>0 DEF HandlerRow
<1>4. seen = app[req[r].app].status
  OBVIOUS
<1> HIDE DEF seen, pc
<1>5. /\ req'[r].pc = pc /\ req'[r].seen = seen /\ req'[r].app = req[r].app
      /\ req'[r].target = req[r].target /\ req'[r].back = req[r].back
  BY <1>0, <1>2 DEF HandlerRow
<1> QED
  BY <1>0, <1>1, <1>3, <1>4, <1>5 DEF Telling, Steady, Moving, Raising

LEMMA SteadyUpdateStatus ==
  ASSUME SInv, NEW r \in Req, UpdateStatus(r), UNCHANGED pipeVars
  PROVE  Steady(r)' /\ app'[req[r].app].status = req[r].target
<1>0. /\ req \in [Req -> HandlerRow] /\ req[r] \in HandlerRow
      /\ Equipped(r) /\ Steady(r) /\ IInv
  BY AtWork DEF Continue, AppContinue
<1>1. req[r].pc = "update" /\ Goto(r, "history") /\ "history" \in Where /\ UNCHANGED run
  BY DEF UpdateStatus, At, pipeVars, Where
<1>2. req'[r].pc = "history" /\ Keeps(req[r], req'[r])
  BY <1>0, <1>1, GotoEffect
<1>3. PICK a \in App : a = req[r].app
  BY <1>0, <1>1 DEF Equipped, Nowhere, HandlerRow
<1>4. app \in [App -> AppRow] /\ app[a] \in AppRow
  BY <1>0 DEF IInv, TypeOK
<1>5. app'[a] = [app[a] EXCEPT !.status = req[r].target]
  BY <1>3, <1>4 DEF UpdateStatus
<1>6. app'[a].status = req[r].target
  BY <1>4, <1>5 DEF AppRow
<1> QED
  BY <1>0, <1>1, <1>2, <1>3, <1>6 DEF Steady, Keeps, Moving, Raising

LEMMA SteadyRecordTransition ==
  ASSUME SInv, NEW r \in Req, RecordTransition(r), UNCHANGED pipeVars
  PROVE  Steady(r)' /\ req'[r].pc \notin Telling
<1>0. /\ req \in [Req -> HandlerRow] /\ req[r] \in HandlerRow
      /\ req[r].back \in {"done", "stage", "complete", "level"} /\ Steady(r)
  BY AtWork DEF Continue, AppContinue
<1>1. PICK pc \in {"tier", req[r].back} : Goto(r, pc)
  BY DEF RecordTransition
<1>2. pc \in Where
  BY <1>0 DEF Where
<1>3. req'[r].pc = pc /\ Keeps(req[r], req'[r])
  BY <1>0, <1>1, <1>2, GotoEffect
<1>4. req[r].pc = "history" /\ UNCHANGED <<app, member, run>>
  BY DEF RecordTransition, At, pipeVars
<1> QED
  BY <1>0, <1>1, <1>3, <1>4 DEF Telling, Steady, Keeps, Moving, Raising

LEMMA SteadySetTier ==
  ASSUME SInv, NEW r \in Req, SetTier(r), UNCHANGED pipeVars
  PROVE  /\ Steady(r)' /\ req'[r].pc \notin Telling
         /\ \A b \in App : app'[b].status = app[b].status /\ app'[b].level = app[b].level
<1>0. /\ req \in [Req -> HandlerRow] /\ req[r] \in HandlerRow
      /\ Equipped(r) /\ Steady(r) /\ IInv
  BY AtWork DEF Continue, AppContinue
<1>1. req[r].pc = "tier" /\ Goto(r, "membership") /\ "membership" \in Where /\ UNCHANGED run
  BY DEF SetTier, At, pipeVars, Where
<1>2. req'[r].pc = "membership" /\ Keeps(req[r], req'[r])
  BY <1>0, <1>1, GotoEffect
<1>3. PICK a \in App : a = req[r].app
  BY <1>0, <1>1 DEF Equipped, Nowhere, HandlerRow
<1>4. app \in [App -> AppRow] /\ app[a] \in AppRow
  BY <1>0 DEF IInv, TypeOK
<1>5. app' = [app EXCEPT ![a] = [app[a] EXCEPT !.tier = req[r].tier]]
  BY <1>3, <1>4 DEF SetTier
<1>6. \A b \in App : app'[b].status = app[b].status /\ app'[b].level = app[b].level
  BY <1>4, <1>5 DEF AppRow
<1>7. Steady(r)'
  BY <1>0, <1>1, <1>2, <1>3, <1>6 DEF Steady, Keeps, Moving, Raising
<1> QED
  BY <1>2, <1>6, <1>7 DEF Telling

LEMMA SteadyMembership ==
  ASSUME SInv, NEW r \in Req, ReadMembership(r) \/ RaiseMembership(r), UNCHANGED pipeVars
  PROVE  Steady(r)' /\ req'[r].pc \notin Telling
<1>0. /\ req \in [Req -> HandlerRow] /\ req[r] \in HandlerRow
      /\ req[r].back \in {"done", "stage", "complete", "level"} /\ Steady(r)
  BY AtWork DEF Continue, AppContinue
<1>1. PICK pc \in {"raise", req[r].back} :
        Goto(r, pc) /\ (pc = "raise" => Raises(req[r].tier, member[Owner[req[r].app]])
                                        /\ UNCHANGED member)
  BY <1>0 DEF ReadMembership, RaiseMembership
<1>2. pc \in Where
  BY <1>0 DEF Where
<1>3. req'[r].pc = pc /\ Keeps(req[r], req'[r])
  BY <1>0, <1>1, <1>2, GotoEffect
<1>4. req[r].pc \in {"membership", "raise"} /\ UNCHANGED <<app, run>>
  BY DEF ReadMembership, RaiseMembership, At, pipeVars
<1> QED
  BY <1>0, <1>1, <1>3, <1>4 DEF Telling, Steady, Keeps, Moving, Raising

\* Before stage 10 a run has no decision row.
LEMMA NotDecidedYet ==
  ASSUME IInv, NEW r \in Req, run[r].status # "absent", ctx[r].stage # 10
  PROVE  run[r].decision = None
BY DEF IInv, Handlers, RunKnown

LEMMA SteadyStages ==
  ASSUME SInv, NEW r \in Req, Gate(r) \/ CapitalExceeded(r) \/ AskReviewers(r)
  PROVE  Steady(r)' /\ req'[r].pc \notin Telling
<1>0. /\ req \in [Req -> HandlerRow] /\ req[r] \in HandlerRow /\ IInv
  BY AtWork DEF Continue
<1>1. /\ req[r].pc = "stage" /\ ctx[r].stage # 10 /\ UNCHANGED <<run, app, member>>
  BY DEF Gate, CapitalExceeded, AskReviewers, AtStage, At
<1>2. run[r].status # "absent" => run[r].decision = None
  BY <1>0, <1>1, NotDecidedYet
<1>3. req'[r].pc \in {"stage", "complete", "check"}
  <2>1. CASE req' = req
    BY <1>1, <2>1
  <2>2. CASE Goto(r, "complete")
    BY <1>0, <2>2, GotoPlace
  <2>3. ASSUME NEW target, NEW back, Begin(r, Call(r, target, back)) PROVE req'[r].pc = "check"
    <3>1. req'[r] = Call(r, target, back)
      BY <1>0, <2>3, BeginPlace
    <3> QED
      BY <1>0, <3>1 DEF Call, HandlerRow
  <2> QED
    BY <2>1, <2>2, <2>3 DEF Gate, CapitalExceeded, AskReviewers
<1> QED
  BY <1>1, <1>2, <1>3 DEF Telling, Steady

LEMMA SteadyExecuteDecision ==
  ASSUME SInv, NEW r \in Req, ExecuteDecision(r)
  PROVE  Steady(r)' /\ req'[r].pc \notin Telling
<1>0. /\ req \in [Req -> HandlerRow] /\ req[r] \in HandlerRow /\ RunKnown(r)
  BY AtWork DEF Continue
<1>1. ctx[r].stage = 10 /\ UNCHANGED <<run, app, member>>
  BY DEF ExecuteDecision, AtStage
<1>2. run[r].status # "absent" => run[r].decision = ctx[r].decision
  BY <1>0, <1>1 DEF RunKnown
<1>3. CASE ctx[r].decision = None
  <2>1. req'[r] = [req[r] EXCEPT !.pc = "complete"]
    BY <1>0, <1>3 DEF ExecuteDecision
  <2>2. req'[r].pc = "complete"
    BY <1>0, <2>1 DEF HandlerRow
  <2> QED
    BY <1>1, <1>2, <1>3, <2>2 DEF Telling, Steady
<1>4. CASE ctx[r].decision # None
  <2>1. PICK tier : req'[r] = [Call(r, ctx[r].decision, "level") EXCEPT !.tier = tier]
    BY <1>0, <1>4 DEF ExecuteDecision, StatusMap
  <2>2. /\ req'[r].pc = "check" /\ req'[r].target = ctx[r].decision /\ req'[r].back = "level"
    BY <1>0, <2>1 DEF Call, HandlerRow
  <2> QED
    BY <1>1, <1>2, <2>2 DEF Telling, Steady, Raising
<1> QED
  BY <1>3, <1>4

LEMMA SteadySetLevel ==
  ASSUME SInv, NEW r \in Req, SetLevel(r)
  PROVE  /\ Steady(r)' /\ req'[r].pc \notin Telling
         /\ \A b \in App : app'[b].status = app[b].status
<1>0. /\ req \in [Req -> HandlerRow] /\ req[r] \in HandlerRow
      /\ Equipped(r) /\ RunKnown(r) /\ Steady(r) /\ IInv
  BY AtWork DEF Continue
<1>1. req[r].pc = "level" /\ UNCHANGED <<run, member, ctx>>
  BY DEF SetLevel, At
<1>2. /\ req'[r].pc \in {"complete", "tier"} /\ req'[r].back = "complete"
      /\ req'[r].app = req[r].app
  <2> DEFINE pc == IF req[r].tier = None THEN "complete" ELSE "tier"
  <2>1. req'[r] = [req[r] EXCEPT !.pc = pc, !.back = "complete"]
    BY <1>0 DEF SetLevel
  <2>2. pc \in {"complete", "tier"}
    OBVIOUS
  <2> HIDE DEF pc
  <2> QED
    BY <1>0, <2>1, <2>2 DEF HandlerRow
<1>3. PICK a \in App : a = req[r].app
  BY <1>0, <1>1 DEF Equipped, Nowhere, HandlerRow
<1>4. app \in [App -> AppRow] /\ app[a] \in AppRow
  BY <1>0 DEF IInv, TypeOK
<1>5. /\ \A b \in App : app'[b].status = app[b].status
      /\ ctx[r].decision \in Approved => app'[a].level = ctx[r].decision
  <2>1. CASE ctx[r].decision \in Approved
    <3>1. app' = [app EXCEPT ![a] = [app[a] EXCEPT !.level = ctx[r].decision]]
      BY <1>3, <1>4, <2>1 DEF SetLevel, AppOf
    <3> QED
      BY <1>4, <3>1 DEF AppRow
  <2>2. CASE ctx[r].decision \notin Approved
    BY <2>2 DEF SetLevel
  <2> QED
    BY <2>1, <2>2
<1>6. run[r].status # "absent" /\ run[r].decision # None => run[r].decision = ctx[r].decision
  BY <1>0 DEF RunKnown
<1>7. Steady(r)'
  BY <1>0, <1>1, <1>2, <1>3, <1>5, <1>6 DEF Steady, Moving, Raising
<1> QED
  BY <1>2, <1>5, <1>7 DEF Telling

LEMMA SteadyStep ==
  ASSUME SInv, NEW r \in Req, Start(r) \/ Continue(r) \/ Break(r)
  PROVE  /\ Steady(r)'
         /\ req'[r].pc \notin Telling \/ InsertApplication(r) \/ UpdateStatus(r)
<1>1. CASE Start(r)
  BY <1>1, CalmStarts, SteadyTransition DEF Start, AppStart, SInv
<1>2. CASE Break(r)
  BY <1>2, CalmSteps DEF SInv
<1>3. CASE AppContinue(r) /\ UNCHANGED pipeVars
  BY <1>3, CalmSteps, CalmInsertApplication, SteadyCheckTransition, SteadyUpdateStatus, SteadyRecordTransition,
     SteadySetTier, SteadyMembership DEF AppContinue, SInv
<1>4. CASE Continue(r) /\ ~(AppContinue(r) /\ UNCHANGED pipeVars)
  BY <1>4, CalmSteps, SteadyStages, SteadyExecuteDecision, SteadySetLevel, SteadyInsertAppeal
  DEF Continue, SInv
<1> QED
  BY <1>1, <1>2, <1>3, <1>4

LEMMA InitSInv == Init => SInv
<1> SUFFICES ASSUME Init PROVE SInv
  OBVIOUS
<1>1. InFlight = {}
  BY DEF Init, AppInit, InFlight, Handler
<1> QED
  BY <1>1, InitIInv DEF SInv, OneAtATime

LEMMA NextSInv ==
  ASSUME IsFiniteSet(Req), MaxInFlight <= 1, SInv, [Next]_vars
  PROVE  SInv'
<1>1. IInv'
  BY NextIInv DEF SInv
<1>2. CASE UNCHANGED vars
  BY <1>1, <1>2
  DEF SInv, OneAtATime, InFlight, Steady, vars, appVars, pipeVars
<1>3. ASSUME NEW r \in Req, Start(r) \/ Continue(r) \/ Break(r) PROVE SInv'
  <2>1. \A q \in InFlight' : q = r
    BY <1>3, Alone DEF SInv
  <2>2. Steady(r)'
    BY <1>3, SteadyStep
  <2>3. ASSUME NEW q \in InFlight' PROVE Steady(q)'
    <3>1. q = r
      BY <2>1
    <3> QED
      BY <2>2, <3>1 DEF Steady
  <2> QED
    BY <1>1, <2>1, <2>3 DEF SInv, OneAtATime
<1> QED
  BY <1>2, <1>3 DEF Next

LEMMA SerialInvariance ==
  ASSUME IsFiniteSet(Req), MaxInFlight <= 1
  PROVE  Spec => []SInv
<1>1. Init => SInv
  BY InitSInv
<1>2. SInv /\ [Next]_vars => SInv'
  BY NextSInv
<1> QED
  BY <1>1, <1>2, PTL DEF Spec

-------------------------------------------------------------------------------
(***************************************************************************)
(* Who writes what.                                                         *)
(***************************************************************************)
LEMMA StartWrites ==
  ASSUME NEW r \in Req, Start(r)
  PROVE  UNCHANGED <<app, history, member, run>>
BY DEF Start, AppStart, Apply, Create, Transition, StartRun, ReviewRun, FraudRead, AppealRead,
       pipeVars

LEMMA AppContinueWrites ==
  ASSUME NEW r \in Req, AppContinue(r), UNCHANGED pipeVars
  PROVE  /\ UNCHANGED run
         /\ UNCHANGED member \/ RaiseMembership(r)
         /\ UNCHANGED history \/ RecordOpening(r) \/ RecordTransition(r)
         /\ UNCHANGED app \/ InsertApplication(r) \/ UpdateStatus(r) \/ SetTier(r)
BY DEF AppContinue, LookForRequest, InsertApplication, RecordOpening, CheckTransition,
       UpdateStatus, RecordTransition, SetTier, ReadMembership, RaiseMembership, pipeVars

LEMMA ContinueWrites ==
  ASSUME NEW r \in Req, Continue(r), ~(AppContinue(r) /\ UNCHANGED pipeVars)
  PROVE  /\ UNCHANGED member \/ Condemn(r)
         /\ UNCHANGED history \/ Condemn(r)
         /\ UNCHANGED app \/ SetLevel(r) \/ SetCurrentRun(r) \/ Condemn(r)
         /\ \/ UNCHANGED run \/ InsertRun(r) \/ Supersede(r) \/ AssessRisk(r) \/ InsertDecision(r)
            \/ CompleteRun(r) \/ CancelRun(r)
<1>1. CASE Snapshot(r) \/ NextNumber(r) \/ InsertRun(r) \/ Supersede(r) \/ SetCurrentRun(r)
             \/ Gate(r) \/ AssessRisk(r) \/ CapitalPasses(r) \/ CapitalExceeded(r) \/ Threshold(r)
             \/ AskReviewers(r)
  BY <1>1 DEF Snapshot, NextNumber, InsertRun, Supersede, SetCurrentRun,
              Gate, AssessRisk, CapitalPasses, CapitalExceeded, Threshold, AskReviewers
<1>2. CASE GenerateDecision(r) \/ WaitingList(r) \/ InsertDecision(r) \/ ExecuteDecision(r)
             \/ SetLevel(r) \/ CompleteRun(r) \/ StoreTrace(r) \/ CancelRun(r)
  BY <1>2 DEF GenerateDecision, WaitingList, InsertDecision, ExecuteDecision, SetLevel,
              CompleteRun, StoreTrace, CancelRun
<1>3. CASE CheckVote(r) \/ CastVote(r) \/ Tally(r) \/ CountApprovers(r)
             \/ MarkPartial(r) \/ MarkDecided(r) \/ Condemn(r) \/ InsertAppeal(r)
  BY <1>3 DEF CheckVote, CastVote, Tally, CountApprovers, MarkPartial, MarkDecided, Condemn,
              InsertAppeal, pipeVars
<1> QED
  BY <1>1, <1>2, <1>3 DEF Continue

LEMMA BreakWrites ==
  ASSUME NEW r \in Req, Break(r)
  PROVE  UNCHANGED <<app, history, member, run>>
BY DEF Break, Throw, Die, pipeVars

\* The status of an application is written by three statements only.
LEMMA StatusWrites ==
  ASSUME SInv, NEW r \in Req, Start(r) \/ Continue(r) \/ Break(r)
  PROVE  \/ \A a \in App : app'[a].status = app[a].status
         \/ InsertApplication(r) \/ (UpdateStatus(r) /\ UNCHANGED pipeVars) \/ Condemn(r)
<1>1. CASE UNCHANGED app
  BY <1>1
<1>2. CASE SetTier(r) /\ UNCHANGED pipeVars
  BY <1>2, SteadySetTier
<1>3. CASE SetLevel(r)
  BY <1>3, SteadySetLevel
<1>4. CASE SetCurrentRun(r)
  <2>1. app \in [App -> AppRow]
    BY DEF SInv, IInv, TypeOK
  <2> QED
    BY <1>4, <2>1 DEF SetCurrentRun, AppRow
<1> QED
  BY <1>1, <1>2, <1>3, <1>4, StartWrites, AppContinueWrites, ContinueWrites, BreakWrites
  DEF Continue

-------------------------------------------------------------------------------
(***************************************************************************)
(* The membership.                                                          *)
(***************************************************************************)
LEMMA StepRises ==
  ASSUME SInv, NEW r \in Req, Start(r) \/ Continue(r) \/ Break(r), NEW s \in Student
  PROVE  member'[s] # "blacklisted" => Rank(member'[s]) >= Rank(member[s])
<1>1. \A m : Rank(m) \in Nat
  BY DEF Rank
<1>2. CASE UNCHANGED member
  BY <1>1, <1>2
<1>3. CASE RaiseMembership(r) /\ Continue(r)
  <2>1. req[r].pc = "raise" /\ Steady(r)
    BY <1>3, AtWork DEF RaiseMembership, At
  <2>2. Rank(req[r].tier) > Rank(member[Owner[req[r].app]])
    BY <2>1 DEF Steady, Raises
  <2>3. member'[s] = member[s] \/ (s = Owner[req[r].app] /\ member'[s] = req[r].tier)
    BY <1>3 DEF RaiseMembership, SInv, IInv, TypeOK
  <2> QED
    BY <1>1, <2>2, <2>3
<1>4. CASE Condemn(r)
  <2>1. member'[s] = member[s] \/ member'[s] = "blacklisted"
    BY <1>4 DEF Condemn, SInv, IInv, TypeOK
  <2> QED
    BY <1>1, <2>1
<1> QED
  BY <1>2, <1>3, <1>4, StartWrites, AppContinueWrites, ContinueWrites, BreakWrites DEF Continue

-------------------------------------------------------------------------------
(***************************************************************************)
(* The end of a run.                                                        *)
(***************************************************************************)
\* Only the last statement of a run completes it.
LEMMA Completes ==
  ASSUME SInv, NEW r \in Req, Start(r) \/ Continue(r) \/ Break(r), NEW q \in Req,
         run[q].status # "completed", run'[q].status = "completed"
  PROVE  q = r /\ CompleteRun(r)
<1>1. run \in [Req -> RunRow] /\ run[q] \in RunRow /\ run[r] \in RunRow
  BY DEF SInv, IInv, TypeOK
<1>2. CASE UNCHANGED run
  BY <1>2
<1>3. CASE InsertRun(r)
  BY <1>1, <1>3 DEF InsertRun, NoRun, RunRow
<1>4. CASE Supersede(r)
  <2>1. run'[q] = [run[q] EXCEPT !.status = "superseded"] \/ run'[q] = run[q]
    BY <1>4 DEF Supersede
  <2> QED
    BY <1>1, <2>1 DEF RunRow
<1>5. CASE AssessRisk(r)
  <2>1. PICK risk \in Risk : run' = [run EXCEPT ![r] = [run[r] EXCEPT !.risk = risk]]
    BY <1>1, <1>5 DEF AssessRisk
  <2> QED
    BY <1>1, <2>1 DEF RunRow
<1>6. CASE InsertDecision(r)
  <2>1. run' = [run EXCEPT ![r] = [run[r] EXCEPT !.decision = ctx[r].decision]]
    BY <1>1, <1>6 DEF InsertDecision
  <2> QED
    BY <1>1, <2>1 DEF RunRow
<1>7. CASE CompleteRun(r)
  BY <1>1, <1>7 DEF CompleteRun
<1>8. CASE CancelRun(r)
  <2>1. run' = [run EXCEPT ![r] = [run[r] EXCEPT !.status = "cancelled"]]
    BY <1>1, <1>8 DEF CancelRun
  <2> QED
    BY <1>1, <2>1 DEF RunRow
<1> QED
  BY <1>2, <1>3, <1>4, <1>5, <1>6, <1>7, <1>8,
     StartWrites, AppContinueWrites, ContinueWrites, BreakWrites DEF Continue

LEMMA StepExecutes ==
  ASSUME SInv, NEW r \in Req, Start(r) \/ Continue(r) \/ Break(r), NEW q \in Req,
         run[q].status # "completed", run'[q].status = "completed", run[q].decision # None
  PROVE  /\ app[run[q].app].status = run[q].decision
         /\ run[q].decision \in Approved => app[run[q].app].level = run[q].decision
<1>1. q = r /\ CompleteRun(r)
  BY Completes
<1>2. req[r].pc = "complete"
  BY <1>1 DEF CompleteRun, At
<1>3. Steady(r) /\ RunKnown(r)
  BY <1>1, AtWork DEF Continue
<1>4. run[r].status # "absent" /\ run[r].app = req[r].app
  BY <1>2, <1>3 DEF RunKnown, After
<1> QED
  BY <1>1, <1>2, <1>3, <1>4 DEF Steady

-------------------------------------------------------------------------------
(***************************************************************************)
(* The theorems.                                                            *)
(***************************************************************************)
\* The ratchet of transitionStatus (D-004): a tier an approval grants raises the
\* membership or leaves it alone.
THEOREM MembershipOnlyRises ==
  ASSUME IsFiniteSet(Req), MaxInFlight <= 1
  PROVE  Spec => MembershipNeverFalls
<1>1. ASSUME SInv, [Next]_vars
      PROVE  [\A s \in Student : member'[s] # "blacklisted" => Rank(member'[s]) >= Rank(member[s])]_vars
  BY <1>1, StepRises DEF Next
<1>2. SInv /\ [Next]_vars =>
      [\A s \in Student : member'[s] # "blacklisted" => Rank(member'[s]) >= Rank(member[s])]_vars
  BY <1>1
<1>3. Spec => []SInv
  BY SerialInvariance
<1> QED
  BY <1>2, <1>3, PTL DEF Spec, MembershipNeverFalls

\* A run that completes with a decision leaves the application in the status,
\* and at the level, that decision names (T-213).
THEOREM DecisionExecuted ==
  ASSUME IsFiniteSet(Req), MaxInFlight <= 1
  PROVE  Spec => DecisionIsExecuted
<1>1. ASSUME SInv, [Next]_vars
      PROVE  [\A r \in Req :
       run[r].status # "completed" /\ run'[r].status = "completed" /\ run[r].decision # None =>
         LET a == run[r].app IN
           /\ app[a].status = run[r].decision
           /\ run[r].decision \in Approved => app[a].level = run[r].decision]_vars
  BY <1>1, StepExecutes DEF Next
<1>2. SInv /\ [Next]_vars =>
      [\A r \in Req :
       run[r].status # "completed" /\ run'[r].status = "completed" /\ run[r].decision # None =>
         LET a == run[r].app IN
           /\ app[a].status = run[r].decision
           /\ run[r].decision \in Approved => app[a].level = run[r].decision]_vars
  BY <1>1
<1>3. Spec => []SInv
  BY SerialInvariance
<1> QED
  BY <1>2, <1>3, PTL DEF Spec, DecisionIsExecuted

-------------------------------------------------------------------------------
(***************************************************************************)
(* The published lifecycle.                                                 *)
(***************************************************************************)
LEMMA InitPublished == Init => Published!Init
BY OwnerAssumption DEF Init, AppInit, Row, Published!Init

LEMMA StepPublished ==
  ASSUME SInv, NEW r \in Req, Start(r) \/ Continue(r) \/ Break(r)
  PROVE  \/ Published!Next
         \/ UNCHANGED [a \in App |-> app[a].status]
<1> DEFINE status == [a \in App |-> app[a].status]
<1>0. app \in [App -> AppRow]
  BY DEF SInv, IInv, TypeOK
<1>1. CASE \A a \in App : app'[a].status = app[a].status
  BY <1>1
<1>2. CASE InsertApplication(r)
  <2>1. PICK a \in App : ~Exists(a) /\ app' = [app EXCEPT ![a] = Row("new_lead")]
    BY <1>2 DEF InsertApplication
  <2>2. status[a] = "absent" /\ status' = [status EXCEPT ![a] = "new_lead"]
    BY <1>0, <2>1 DEF Exists, Row
  <2> QED
    BY <2>2 DEF Published!Next, Published!Submit
<1>3. CASE UpdateStatus(r) /\ UNCHANGED pipeVars
  <2>1. req[r].pc = "update" /\ Equipped(r) /\ Steady(r) /\ req[r] \in HandlerRow
    BY <1>3, AtWork DEF UpdateStatus, At, Continue, AppContinue
  <2>2. PICK a \in App : a = req[r].app
    BY <2>1 DEF Equipped, Nowhere, HandlerRow
  <2>3. PICK to : to = req[r].target
    OBVIOUS
  <2>4. <<status[a], to>> \in STATUS_TRANSITIONS
    BY <2>1, <2>2, <2>3 DEF Equipped, Steady, Allowed
  <2>5. status' = [status EXCEPT ![a] = to]
    <3>1. app' = [app EXCEPT ![a] = [app[a] EXCEPT !.status = to]]
      BY <1>0, <1>3, <2>2, <2>3 DEF UpdateStatus
    <3> QED
      BY <1>0, <3>1 DEF AppRow
  <2>6. to \in {edge[2] : edge \in STATUS_TRANSITIONS}
    BY <2>4
  <2> HIDE DEF status
  <2> QED
    BY <2>4, <2>5, <2>6 DEF Published!Next, Published!Move, status
<1>4. CASE Condemn(r)
  <2>1. req[r].pc = "condemn" /\ Equipped(r) /\ req[r] \in HandlerRow
    BY <1>4, AtWork DEF Condemn, At, Continue
  <2>2. PICK a \in App : a = req[r].app
    BY <2>1 DEF Equipped, Nowhere, HandlerRow
  <2>3. status[a] # "absent"
    BY <2>1, <2>2 DEF Equipped, Nowhere, Exists
  <2>4. status' = [status EXCEPT ![a] = "fraud_flagged"]
    <3>1. app' = [app EXCEPT ![a] = [app[a] EXCEPT !.status = "fraud_flagged"]]
      BY <1>0, <1>4, <2>2 DEF Condemn, AppOf
    <3> QED
      BY <1>0, <3>1 DEF AppRow
  <2> QED
    BY <2>3, <2>4 DEF Published!Next, Published!Condemn
<1> QED
  BY <1>1, <1>2, <1>3, <1>4, StatusWrites

\* One request at a time, the statuses of the applications implement the
\* published lifecycle: submitted once, moved along published transitions only,
\* ended by fraud from anywhere.
THEOREM LifecycleRefined ==
  ASSUME IsFiniteSet(Req), MaxInFlight <= 1
  PROVE  Spec => FollowsLifecycle
<1>1. Init => Published!Init
  BY InitPublished
<1>2. SInv /\ [Next]_vars => [Published!Next]_([a \in App |-> app[a].status])
  <2>1. SInv /\ UNCHANGED vars => UNCHANGED [a \in App |-> app[a].status]
    BY DEF vars, appVars
  <2> QED
    BY <2>1, StepPublished DEF Next
<1>3. Spec => []SInv
  BY SerialInvariance
<1> QED
  BY <1>1, <1>2, <1>3, PTL DEF Spec, FollowsLifecycle, Published!Spec

-------------------------------------------------------------------------------
(***************************************************************************)
(* The two views.  A bar reaches the place of the stage, or milestone, that *)
(* is current; the statuses share places as the two lists have them.        *)
(***************************************************************************)
InReview == {"under_review", "more_info_required", "on_hold", "capital_queue", "appealing"}

AdminPlace(s, g) ==
  CASE s \in {"new_lead", "contacted"} -> IF g = "active" THEN 5 ELSE 4
    [] s \in {"waiting_for_documents", "documents_received"} -> 3
    [] s \in InReview -> 6
    [] s \in Approved -> 7
    [] s \in {"contract_sent", "contract_signed"} -> 8
    [] s = "university_confirmed" -> 9
    [] s = "university_paid" -> 11
    [] OTHER -> 12

StudentPlace(s, g) ==
  CASE s \in {"new_lead", "contacted", "waiting_for_documents", "documents_received"} ->
         IF AtLeastInvited(g) THEN 2 ELSE 4
    [] s \in InReview -> 5
    [] s \in Approved \cup {"contract_sent", "contract_signed"} -> 6
    [] s \in {"university_confirmed", "university_paid"} -> 7
    [] OTHER -> 8

Shown == {"new_lead", "contacted", "waiting_for_documents", "documents_received"} \cup InReview
           \cup Approved \cup {"contract_sent", "contract_signed"}
           \cup {"university_confirmed", "university_paid", "active_student", "completed"}

LEMMA BarReaches ==
  ASSUME NEW n \in Nat, NEW at \in 1..n, NEW bar, DOMAIN bar = 1..n,
         \A k \in 1..n : bar[k] # "upcoming" <=> k <= at
  PROVE  Reached(bar) = at
<1>1. {k \in DOMAIN bar : bar[k] # "upcoming"} = 1..at
  OBVIOUS
<1>2. Cardinality(1..at) = at
  BY FS_Interval
<1> QED
  BY <1>1, <1>2 DEF Reached

LEMMA AdminReached ==
  ASSUME NEW s \in Shown, NEW g \in LinkShown
  PROVE  Reached(AdminBar(s, g)) = AdminPlace(s, g)
<1> DEFINE at == CHOOSE k \in DOMAIN AdminStages : AdminStages[k] = AdminStage(s, g)
<1>1. DOMAIN AdminStages = 1..12
  BY DEF AdminStages
<1>2. AdminPlace(s, g) \in 1..12 /\ AdminStages[AdminPlace(s, g)] = AdminStage(s, g)
  BY DEF AdminPlace, AdminStage, AdminStages, Shown, InReview, Approved
<1>3. \A i, j \in 1..12 : AdminStages[i] = AdminStages[j] => i = j
  BY DEF AdminStages
<1>4. at = AdminPlace(s, g)
  BY <1>1, <1>2, <1>3
<1>5. AdminBar(s, g) = [k \in 1..12 |-> CASE k < at -> "done"
                                         [] k = at -> IF s \in Exceptional THEN "done" ELSE "current"
                                         [] OTHER  -> "upcoming"]
  BY <1>1 DEF AdminBar
<1> HIDE DEF at
<1>6. at \in 1..12
  BY <1>2, <1>4
<1>7. /\ DOMAIN AdminBar(s, g) = 1..12
      /\ \A k \in 1..12 : AdminBar(s, g)[k] # "upcoming" <=> k <= at
  BY <1>5, <1>6
<1> QED
  BY <1>4, <1>6, <1>7, BarReaches

LEMMA StudentReached ==
  ASSUME NEW s \in Shown, NEW g \in LinkShown
  PROVE  Reached(StudentBar(s, g)) = StudentPlace(s, g)
<1> DEFINE at == CHOOSE k \in DOMAIN Milestones : Milestones[k] = Milestone(s, g)
<1>1. DOMAIN Milestones = 1..8
  BY DEF Milestones
<1>2. StudentPlace(s, g) \in 1..8 /\ Milestones[StudentPlace(s, g)] = Milestone(s, g)
  <2>1. /\ Milestones[2] = "application_submitted" /\ Milestones[4] = "guarantor_status"
        /\ Milestones[5] = "under_review" /\ Milestones[6] = "decision"
        /\ Milestones[7] = "university_confirmation" /\ Milestones[8] = "active_student"
    BY DEF Milestones
  <2>2. CASE s \in {"new_lead", "contacted", "waiting_for_documents", "documents_received"}
    BY <2>1, <2>2 DEF StudentPlace, Milestone, InReview, Approved, IsActiveStudent,
       UniversityConfirmed, DecisionMade, ReachedUnderReview
  <2>3. CASE s \in InReview
    BY <2>1, <2>3 DEF StudentPlace, Milestone, InReview, Approved, IsActiveStudent,
       UniversityConfirmed, DecisionMade, ReachedUnderReview
  <2>4. CASE s \in Approved \cup {"contract_sent", "contract_signed"}
    <3>1. StudentPlace(s, g) = 6
      BY <2>4 DEF StudentPlace, InReview, Approved
    <3>2. Milestone(s, g) = "decision"
      BY <2>4 DEF Milestone, Approved, IsActiveStudent, UniversityConfirmed, DecisionMade,
         ReachedUnderReview
    <3> QED
      BY <2>1, <3>1, <3>2
  <2>5. CASE s \in {"university_confirmed", "university_paid"}
    <3>1. StudentPlace(s, g) = 7
      BY <2>5 DEF StudentPlace, InReview, Approved
    <3>2. Milestone(s, g) = "university_confirmation"
      BY <2>5 DEF Milestone, Approved, IsActiveStudent, UniversityConfirmed, DecisionMade,
         ReachedUnderReview
    <3> QED
      BY <2>1, <3>1, <3>2
  <2>6. CASE s \in {"active_student", "completed"}
    <3>1. StudentPlace(s, g) = 8
      BY <2>6 DEF StudentPlace, InReview, Approved
    <3>2. Milestone(s, g) = "active_student"
      BY <2>6 DEF Milestone, Approved, IsActiveStudent, UniversityConfirmed, DecisionMade,
         ReachedUnderReview
    <3> QED
      BY <2>1, <3>1, <3>2
  <2> QED
    BY <2>2, <2>3, <2>4, <2>5, <2>6 DEF Shown
<1>3. \A i, j \in 1..8 : Milestones[i] = Milestones[j] => i = j
  BY DEF Milestones
<1>4. at = StudentPlace(s, g)
  BY <1>1, <1>2, <1>3
<1>5. StudentBar(s, g) = [k \in 1..8 |-> CASE k < at -> "done"
                                          [] k = at -> "current"
                                          [] OTHER  -> "upcoming"]
  BY <1>1 DEF StudentBar
<1> HIDE DEF at
<1>6. at \in 1..8
  BY <1>2, <1>4
<1>7. /\ DOMAIN StudentBar(s, g) = 1..8
      /\ \A k \in 1..8 : StudentBar(s, g)[k] # "upcoming" <=> k <= at
  BY <1>5, <1>6
<1> QED
  BY <1>4, <1>6, <1>7, BarReaches

LEMMA EdgesAreShown ==
  ASSUME NEW was, NEW is, <<was, is>> \in STATUS_TRANSITIONS, {was, is} \cap Exceptional = {}
  PROVE  was \in Shown /\ is \in Shown
BY DEF STATUS_TRANSITIONS, Exceptional, Shown, InReview, Approved

LEMMA EdgesMoveTogether ==
  ASSUME NEW was, NEW is, <<was, is>> \in STATUS_TRANSITIONS, {was, is} \cap Exceptional = {},
         NEW g \in LinkShown
  PROVE  /\ AdminPlace(is, g) = AdminPlace(was, g) => StudentPlace(is, g) = StudentPlace(was, g)
         /\ AdminPlace(is, g) > AdminPlace(was, g) => StudentPlace(is, g) >= StudentPlace(was, g)
         /\ AdminPlace(is, g) < AdminPlace(was, g) => StudentPlace(is, g) <= StudentPlace(was, g)
<1>1. CASE was \in {"new_lead", "contacted", "waiting_for_documents", "documents_received"}
  BY <1>1 DEF STATUS_TRANSITIONS, Exceptional, AdminPlace, StudentPlace, InReview, Approved
<1>2. CASE was \in InReview
  BY <1>2 DEF STATUS_TRANSITIONS, Exceptional, AdminPlace, StudentPlace, InReview, Approved
<1>3. CASE was \notin {"new_lead", "contacted", "waiting_for_documents", "documents_received"}
                       \cup InReview
  BY <1>3 DEF STATUS_TRANSITIONS, Exceptional, AdminPlace, StudentPlace, InReview, Approved
<1> QED
  BY <1>1, <1>2, <1>3

LEMMA MovesAreEdges ==
  ASSUME SInv, [Next]_vars, NEW a \in App, Exists(a), app'[a].status # app[a].status,
         app'[a].status \notin Exceptional
  PROVE  <<app[a].status, app'[a].status>> \in STATUS_TRANSITIONS
<1> DEFINE status == [c \in App |-> app[c].status]
<1>1. status' # status /\ status[a] = app[a].status /\ status'[a] = app'[a].status
  <2>1. status[a] = app[a].status /\ status'[a] = app'[a].status
    OBVIOUS
  <2> QED
    BY <2>1
<1>2. Published!Next
  <2>1. UNCHANGED vars => UNCHANGED status
    BY DEF vars, appVars
  <2>2. CASE UNCHANGED vars
    BY <1>1, <2>1, <2>2
  <2>3. CASE \E r \in Req : Start(r) \/ Continue(r) \/ Break(r)
    BY <1>1, <2>3, StepPublished
  <2> QED
    BY <2>2, <2>3 DEF Next
<1>3. DOMAIN status = App /\ status[a] # "absent"
  BY DEF Exists
<1> HIDE DEF status
<1>4. PICK c \in App : \/ status[c] = "absent" /\ status' = [status EXCEPT ![c] = "new_lead"]
                       \/ \E to : <<status[c], to>> \in STATUS_TRANSITIONS
                                  /\ status' = [status EXCEPT ![c] = to]
                       \/ status' = [status EXCEPT ![c] = "fraud_flagged"]
  BY <1>2 DEF status, Published!Next, Published!Submit, Published!Move, Published!Condemn
<1>5. c = a
  <2> SUFFICES ASSUME c # a PROVE FALSE
    OBVIOUS
  <2>1. status'[a] = status[a]
    BY <1>3, <1>4
  <2> QED
    BY <1>1, <2>1
<1> QED
  BY <1>1, <1>3, <1>4, <1>5 DEF Exceptional

\* Requests served one after the other: whatever moves a case that is not an
\* exception, the bar of the student does not move while the stage of staff
\* stands still, nor against it, whoever the guarantor and whatever statuses are
\* set by hand (application-stages.util.ts keeps two sets of status lists).
THEOREM ViewsAgree ==
  ASSUME IsFiniteSet(Req), MaxInFlight <= 1
  PROVE  Spec => TimelineFollowsCase
<1>1. SInv /\ [Next]_vars =>
      [\A a \in App : Exists(a) /\ app'[a].status # app[a].status
                        /\ {app[a].status, app'[a].status} \cap Exceptional = {} =>
         \A g \in LinkShown : MoveTogether(app[a].status, app'[a].status, g)]_vars
  <2> SUFFICES ASSUME SInv, [Next]_vars, NEW a \in App, Exists(a),
                      app'[a].status # app[a].status,
                      {app[a].status, app'[a].status} \cap Exceptional = {},
                      NEW g \in LinkShown
               PROVE  MoveTogether(app[a].status, app'[a].status, g)
    OBVIOUS
  <2>1. PICK was, is : was = app[a].status /\ is = app'[a].status
    OBVIOUS
  <2>2. <<was, is>> \in STATUS_TRANSITIONS /\ {was, is} \cap Exceptional = {}
    BY <2>1, MovesAreEdges
  <2>3. was \in Shown /\ is \in Shown
    BY <2>2, EdgesAreShown
  <2>4. /\ Reached(AdminBar(was, g)) = AdminPlace(was, g)
        /\ Reached(AdminBar(is, g)) = AdminPlace(is, g)
        /\ Reached(StudentBar(was, g)) = StudentPlace(was, g)
        /\ Reached(StudentBar(is, g)) = StudentPlace(is, g)
    BY <2>3, AdminReached, StudentReached
  <2>5. MoveTogether(was, is, g)
    BY <2>2, <2>4, EdgesMoveTogether DEF MoveTogether
  <2> QED
    BY <2>1, <2>5
<1> QED
  BY <1>1, SerialInvariance, PTL DEF Spec, TimelineFollowsCase

-------------------------------------------------------------------------------
(***************************************************************************)
(* The history.  Between the statement that moves an application and the    *)
(* one that records the move, the handler owes the trail an entry.          *)
(***************************************************************************)
Unbroken(h) == \A k \in 2..Len(h) : h[k].from \in {h[k - 1].to, None}

Told(a) == Len(history[a]) > 0 /\ history[a][Len(history[a])].to = app[a].status

Owes(r) ==
  /\ req[r].pc = "opened" => /\ app[req[r].app].status = "new_lead"
                             /\ history[req[r].app] = <<>>
  /\ req[r].pc = "history" =>
       /\ app[req[r].app].status = req[r].target
       /\ Len(history[req[r].app]) > 0
       /\ history[req[r].app][Len(history[req[r].app])].to = req[r].seen

Trail(a) ==
  /\ Unbroken(history[a])
  /\ ~Exists(a) => history[a] = <<>>
  /\ Exists(a) => \/ Told(a)
                  \/ \E r \in Req : req[r].pc \in Telling /\ req[r].app = a

TInv == SInv /\ (\A r \in Req : Owes(r)) /\ (\A a \in App : Trail(a))

LEMMA Recorded ==
  ASSUME NEW h \in Seq(HistoryRow), NEW e \in HistoryRow, Unbroken(h),
         Len(h) > 0 => e.from \in {h[Len(h)].to, None}
  PROVE  /\ Unbroken(Append(h, e)) /\ Len(Append(h, e)) > 0
         /\ Append(h, e)[Len(Append(h, e))].to = e.to
<1>1. Len(h) \in Nat
  OBVIOUS
<1>2. /\ Len(Append(h, e)) = Len(h) + 1
      /\ \A k \in 1..Len(h) : Append(h, e)[k] = h[k]
      /\ Append(h, e)[Len(h) + 1] = e
  OBVIOUS
<1>3. ASSUME NEW k \in 2..(Len(h) + 1)
      PROVE  Append(h, e)[k].from \in {Append(h, e)[k - 1].to, None}
  <2>1. CASE k \in 2..Len(h)
    <3>1. k \in 1..Len(h) /\ k - 1 \in 1..Len(h)
      BY <1>1, <2>1
    <3> QED
      BY <1>2, <2>1, <3>1 DEF Unbroken
  <2>2. CASE k = Len(h) + 1
    <3>1. Len(h) > 0 /\ k - 1 = Len(h) /\ k - 1 \in 1..Len(h)
      BY <1>1, <2>2
    <3> QED
      BY <1>2, <2>2, <3>1
  <2> QED
    BY <1>1, <2>1, <2>2
<1> QED
  BY <1>1, <1>2, <1>3 DEF Unbroken

USE DEF Telling

LEMMA InitTInv == Init => TInv
<1> SUFFICES ASSUME Init PROVE TInv
  OBVIOUS
<1>1. ASSUME NEW r \in Req PROVE Owes(r)
  BY DEF Init, AppInit, Handler, Owes
<1>2. ASSUME NEW a \in App PROVE Trail(a)
  <2>1. history[a] = Past(Opened[a]) /\ app[a].status = Opened[a]
    BY DEF Init, AppInit, Row
  <2>2. CASE Opened[a] = "absent"
    BY <2>1, <2>2 DEF Past, Trail, Unbroken, Exists
  <2>3. CASE Opened[a] = "new_lead"
    BY <2>1, <2>3 DEF Past, Opening, Trail, Unbroken, Exists, Told
  <2>4. CASE Opened[a] = "under_review"
    <3> DEFINE e == [from |-> "new_lead", to |-> "under_review"]
    <3>1. history[a] = Append(Opening, e) /\ e.to = "under_review" /\ e.from = "new_lead"
      BY <2>1, <2>4 DEF Past
    <3>2. [from |-> None, to |-> "new_lead"] \in HistoryRow /\ e \in HistoryRow
      BY DEF HistoryRow, Status, Undecided
    <3>3. Opening \in Seq(HistoryRow)
      BY <3>2 DEF Opening
    <3>4. Unbroken(Opening) /\ Len(Opening) = 1 /\ Opening[1].to = "new_lead"
      BY DEF Opening, Unbroken
    <3> HIDE DEF e
    <3> QED
      BY <2>1, <2>4, <3>1, <3>2, <3>3, <3>4, Recorded DEF Trail, Exists, Told
  <2> QED
    BY <2>2, <2>3, <2>4, OwnerAssumption
<1> QED
  BY <1>1, <1>2, InitSInv DEF TInv

\* A step that touches neither a status nor a history, of a handler that owes
\* nothing before or after.
LEMMA Told_Stays ==
  ASSUME IsFiniteSet(Req), MaxInFlight <= 1, TInv,
         NEW r \in Req, Start(r) \/ Continue(r) \/ Break(r),
         req[r].pc \notin Telling, req'[r].pc \notin Telling,
         NEW a \in App, history'[a] = history[a], app'[a].status = app[a].status
  PROVE  Trail(a)'
<1>1. \A q \in Req : req[q].pc \in Telling => q = r
  BY Alone DEF TInv, SInv, InFlight
<1> QED
  BY <1>1 DEF TInv, Trail, Told, Exists

LEMMA OwesNothing ==
  ASSUME IsFiniteSet(Req), MaxInFlight <= 1, TInv,
         NEW r \in Req, Start(r) \/ Continue(r) \/ Break(r),
         req'[r].pc \notin Telling,
         NEW q \in Req
  PROVE  Owes(q)'
<1>1. \A p \in InFlight' : p = r
  BY Alone DEF TInv, SInv
<1> QED
  BY <1>1 DEF Owes, InFlight

LEMMA TrailOpened ==
  ASSUME IsFiniteSet(Req), MaxInFlight <= 1, TInv, NEW r \in Req, Continue(r), InsertApplication(r)
  PROVE  (\A q \in Req : Owes(q)') /\ (\A a \in App : Trail(a)')
<1>0. /\ req \in [Req -> HandlerRow] /\ req[r] \in HandlerRow /\ app \in [App -> AppRow]
  BY DEF TInv, SInv, IInv, TypeOK
<1>1. PICK a \in App : /\ ~Exists(a)
                       /\ app' = [app EXCEPT ![a] = Row("new_lead")]
                       /\ req' = [req EXCEPT ![r].app = a, ![r].pc = "opened"]
  BY DEF InsertApplication
<1>2. req'[r].pc = "opened" /\ req'[r].app = a
  <2>1. req'[r] = [req[r] EXCEPT !.app = a, !.pc = "opened"]
    BY <1>0, <1>1
  <2> QED
    BY <1>0, <2>1 DEF HandlerRow
<1>3. UNCHANGED history /\ req[r].pc = "insert"
  BY DEF InsertApplication, At
<1>4. history[a] = <<>> /\ app'[a].status = "new_lead"
  BY <1>0, <1>1 DEF TInv, Trail, Row
<1>6. (\A q \in InFlight' : q = r) /\ (\A q \in InFlight : q = r)
  BY Alone DEF TInv, SInv
<1>7. ASSUME NEW q \in Req PROVE Owes(q)'
  BY <1>2, <1>3, <1>4, <1>6 DEF Owes, InFlight
<1>8. ASSUME NEW b \in App, b # a PROVE Trail(b)'
  <2>1. history'[b] = history[b] /\ app'[b] = app[b]
    BY <1>0, <1>1, <1>3, <1>8
  <2>2. \A q \in Req : req[q].pc \in Telling => q = r
    BY <1>6 DEF InFlight
  <2> QED
    BY <1>3, <2>1, <2>2 DEF TInv, Trail, Told, Exists
<1>9. Trail(a)'
  BY <1>2, <1>3, <1>4 DEF TInv, Trail
<1> QED
  BY <1>7, <1>8, <1>9

LEMMA TrailMoved ==
  ASSUME IsFiniteSet(Req), MaxInFlight <= 1, TInv, NEW r \in Req, Continue(r), UpdateStatus(r)
  PROVE  (\A q \in Req : Owes(q)') /\ (\A a \in App : Trail(a)')
<1>0. /\ req \in [Req -> HandlerRow] /\ req[r] \in HandlerRow /\ app \in [App -> AppRow]
      /\ Equipped(r) /\ Steady(r)
  BY AtWork DEF TInv, SInv, IInv, TypeOK
<1>2. req[r].pc = "update" /\ Goto(r, "history") /\ "history" \in Where /\ UNCHANGED history
  BY DEF UpdateStatus, At, Where
<1>3. req'[r].pc = "history" /\ Keeps(req[r], req'[r])
  BY <1>0, <1>2, GotoEffect
<1>4. PICK a \in App : a = req[r].app
  BY <1>0, <1>2 DEF Equipped, Nowhere, HandlerRow
<1>5. app' = [app EXCEPT ![a] = [app[a] EXCEPT !.status = req[r].target]]
  BY <1>0, <1>4 DEF UpdateStatus
<1>6. app'[a].status = req[r].target /\ \A b \in App \ {a} : app'[b] = app[b]
  BY <1>0, <1>5 DEF AppRow
<1>7. (\A q \in InFlight' : q = r) /\ (\A q \in InFlight : q = r)
  BY Alone DEF TInv, SInv
<1>8. Exists(a) /\ app[a].status = req[r].seen
  BY <1>0, <1>2, <1>4 DEF Equipped, Steady, Nowhere
<1>9. \A q \in Req : req[q].pc \notin Telling
  BY <1>2, <1>7 DEF InFlight
<1>10. Told(a)
  BY <1>8, <1>9 DEF TInv, Trail
<1>11. ASSUME NEW q \in Req PROVE Owes(q)'
  BY <1>2, <1>3, <1>4, <1>6, <1>7, <1>8, <1>10 DEF Owes, InFlight, Told, Keeps
<1>12. ASSUME NEW b \in App, b # a PROVE Trail(b)'
  BY <1>2, <1>6, <1>9, <1>12 DEF TInv, Trail, Told, Exists
<1>13. Trail(a)'
  <2>1. Exists(a)'
    BY <1>0, <1>2, <1>6
    DEF Equipped, Moving, Exists, HandlerRow, Status, Undecided, Approved, Contract, Closed
  <2>2. req'[r].pc = "history" /\ req'[r].app = a
    BY <1>3, <1>4 DEF Keeps
  <2> QED
    BY <1>2, <2>1, <2>2 DEF TInv, Trail
<1> QED
  BY <1>11, <1>12, <1>13

\* What RecordOpening, RecordTransition and Condemn have in common: the entry
\* they add continues the trail of one application and names its status.
LEMMA TrailRecorded ==
  ASSUME IsFiniteSet(Req), MaxInFlight <= 1, TInv, NEW r \in Req, Continue(r),
         NEW a \in App, NEW e \in HistoryRow,
         history' = [history EXCEPT ![a] = Append(@, e)],
         Len(history[a]) > 0 => e.from \in {history[a][Len(history[a])].to, None},
         app'[a].status = e.to, Exists(a),
         \A b \in App \ {a} : app'[b].status = app[b].status,
         req[r].pc \in Telling => req[r].app = a,
         req'[r].pc \notin Telling
  PROVE  (\A q \in Req : Owes(q)') /\ (\A b \in App : Trail(b)')
<1>1. \A q \in Req : Owes(q)'
  BY OwesNothing
<1>2. \A q \in InFlight : q = r
  BY Alone DEF TInv, SInv
<1>3. history \in [App -> Seq(HistoryRow)]
  BY DEF TInv, SInv, IInv, TypeOK
<1>4. /\ history'[a] = Append(history[a], e)
      /\ \A b \in App \ {a} : history'[b] = history[b]
  BY <1>3
<1>5. /\ Unbroken(history'[a]) /\ Len(history'[a]) > 0
      /\ history'[a][Len(history'[a])].to = e.to
  BY <1>3, <1>4, Recorded DEF TInv, Trail
<1>6. e.to # "absent"
  BY DEF HistoryRow, Status, Undecided, Approved, Contract, Closed
<1>7. Trail(a)'
  BY <1>5, <1>6 DEF Trail, Told, Exists
<1>8. ASSUME NEW b \in App, b # a PROVE Trail(b)'
  <2>1. \A q \in Req : req[q].pc \in Telling => req[q].app = a
    BY <1>2 DEF InFlight
  <2> QED
    BY <1>4, <1>8, <2>1 DEF TInv, Trail, Told, Exists
<1> QED
  BY <1>1, <1>7, <1>8

LEMMA TrailWritten ==
  ASSUME IsFiniteSet(Req), MaxInFlight <= 1, TInv, NEW r \in Req, Continue(r),
         RecordOpening(r) \/ RecordTransition(r) \/ Condemn(r)
  PROVE  (\A q \in Req : Owes(q)') /\ (\A b \in App : Trail(b)')
<1>0. /\ req \in [Req -> HandlerRow] /\ req[r] \in HandlerRow /\ app \in [App -> AppRow]
      /\ req[r].back \in {"done", "stage", "complete", "level"}
      /\ Equipped(r) /\ Owes(r) /\ IInv
  BY AtWork DEF TInv, SInv, IInv, TypeOK
<1>1. req[r].pc \in {"opened", "history", "condemn"}
  BY DEF RecordOpening, RecordTransition, Condemn, At
<1>2. PICK a \in App : a = req[r].app
  BY <1>0, <1>1 DEF Equipped, Nowhere, HandlerRow
<1>3. Exists(a)
  BY <1>0, <1>1, <1>2 DEF Equipped, Nowhere
<1>4. CASE RecordOpening(r)
  <2> DEFINE e == [from |-> None, to |-> "new_lead"]
  <2>1. e \in HistoryRow /\ e.to = "new_lead" /\ e.from = None
    BY DEF HistoryRow, Status, Undecided
  <2>2. history' = [history EXCEPT ![a] = Append(@, e)] /\ UNCHANGED app /\ Goto(r, "done")
    BY <1>2, <1>4 DEF RecordOpening
  <2>3. app[a].status = "new_lead" /\ req'[r].pc = "done"
    BY <1>0, <1>2, <1>4, <2>2, GotoPlace DEF RecordOpening, At, Owes
  <2> HIDE DEF e
  <2> QED
    BY <1>2, <1>3, <2>1, <2>2, <2>3, TrailRecorded
<1>5. CASE RecordTransition(r)
  <2> DEFINE e == [from |-> req[r].seen, to |-> req[r].target]
  <2>1. req[r].seen \in Status /\ req[r].target \in Status
    BY <1>0, <1>5
    DEF RecordTransition, At, Equipped, Allowed, STATUS_TRANSITIONS, HandlerRow,
        Status, Undecided, Approved, Contract, Closed
  <2>2. e \in HistoryRow /\ e.to = req[r].target /\ e.from = req[r].seen
    BY <2>1 DEF HistoryRow
  <2>3. PICK pc \in {"tier", req[r].back} : Goto(r, pc)
    BY <1>5 DEF RecordTransition
  <2>4. history' = [history EXCEPT ![a] = Append(@, e)] /\ UNCHANGED app
    BY <1>2, <1>5 DEF RecordTransition
  <2>5. req'[r].pc = pc /\ pc \notin Telling
    BY <1>0, <2>3, GotoPlace
  <2>6. app[a].status = e.to /\ e.from = history[a][Len(history[a])].to
    BY <1>0, <1>2, <1>5, <2>2 DEF RecordTransition, At, Owes
  <2> HIDE DEF e
  <2> QED
    BY <1>2, <1>3, <2>2, <2>4, <2>5, <2>6, TrailRecorded
<1>6. CASE Condemn(r)
  <2> DEFINE e == [from |-> None, to |-> "fraud_flagged"]
  <2>1. e \in HistoryRow /\ e.to = "fraud_flagged" /\ e.from = None
    BY DEF HistoryRow, Status, Undecided
  <2>2. history' = [history EXCEPT ![a] = Append(@, e)] /\ Goto(r, "done")
    BY <1>2, <1>6 DEF Condemn, AppOf
  <2>3. app' = [app EXCEPT ![a] = [app[a] EXCEPT !.status = "fraud_flagged"]]
    BY <1>0, <1>2, <1>6 DEF Condemn, AppOf
  <2>4. app'[a].status = "fraud_flagged" /\ \A b \in App \ {a} : app'[b].status = app[b].status
    BY <1>0, <2>3 DEF AppRow
  <2>5. req'[r].pc = "done"
    BY <1>0, <2>2, GotoPlace
  <2> HIDE DEF e
  <2> QED
    BY <1>2, <1>3, <2>1, <2>2, <2>4, <2>5, TrailRecorded
<1> QED
  BY <1>4, <1>5, <1>6

\* Only the statements after these two are the ones that write history.
LEMMA TellingSteps ==
  ASSUME NEW r \in Req, Continue(r), req[r].pc \in Telling
  PROVE  RecordOpening(r) \/ RecordTransition(r)
<1>1. CASE AppContinue(r)
  BY <1>1 DEF AppContinue, At, LookForRequest, InsertApplication, CheckTransition,
              UpdateStatus, SetTier, ReadMembership, RaiseMembership
<1>2. CASE Snapshot(r) \/ NextNumber(r) \/ InsertRun(r) \/ Supersede(r) \/ SetCurrentRun(r)
             \/ Gate(r) \/ AssessRisk(r) \/ CapitalPasses(r) \/ CapitalExceeded(r) \/ Threshold(r)
             \/ AskReviewers(r)
  BY <1>2 DEF At, AtStage, Snapshot, NextNumber, InsertRun, Supersede, SetCurrentRun,
              Gate, AssessRisk, CapitalPasses, CapitalExceeded, Threshold, AskReviewers
<1>3. CASE GenerateDecision(r) \/ WaitingList(r) \/ InsertDecision(r) \/ ExecuteDecision(r)
             \/ SetLevel(r) \/ CompleteRun(r) \/ StoreTrace(r) \/ CancelRun(r)
  BY <1>3 DEF At, AtStage, GenerateDecision, WaitingList, InsertDecision, ExecuteDecision,
              SetLevel, CompleteRun, StoreTrace, CancelRun
<1>4. CASE CheckVote(r) \/ CastVote(r) \/ Tally(r) \/ CountApprovers(r)
             \/ MarkPartial(r) \/ MarkDecided(r) \/ Condemn(r) \/ InsertAppeal(r)
  BY <1>4 DEF At, CheckVote, CastVote, Tally, CountApprovers, MarkPartial, MarkDecided, Condemn,
              InsertAppeal
<1> QED
  BY <1>1, <1>2, <1>3, <1>4 DEF Continue

\* Any other step neither opens, moves nor records.
LEMMA TrailKept ==
  ASSUME IsFiniteSet(Req), MaxInFlight <= 1, ~MayFail, TInv,
         NEW r \in Req, Start(r) \/ Continue(r) \/ Break(r),
         ~(Continue(r) /\ InsertApplication(r)), ~(Continue(r) /\ UpdateStatus(r)),
         ~(Continue(r) /\ (RecordOpening(r) \/ RecordTransition(r) \/ Condemn(r)))
  PROVE  (\A q \in Req : Owes(q)') /\ (\A b \in App : Trail(b)')
<1>1. SInv /\ (Start(r) \/ Continue(r)) /\ ~Break(r)
  BY DEF TInv, Break, Throw, Die
<1>2. Start(r) => req[r].pc = "idle"
  BY StartsAlone
<1>3. req[r].pc \notin Telling
  BY <1>1, <1>2, TellingSteps
<1>4. ~InsertApplication(r) /\ ~UpdateStatus(r) /\ ~Condemn(r)
  BY <1>1, <1>2 DEF InsertApplication, UpdateStatus, Condemn, At
<1>5. req'[r].pc \notin Telling
  BY <1>1, <1>4, SteadyStep
<1>6. \A a \in App : app'[a].status = app[a].status
  BY <1>1, <1>4, StatusWrites
<1>7. UNCHANGED history
  BY <1>1, <1>4, StartWrites, AppContinueWrites, ContinueWrites DEF Continue
<1>8. \A q \in Req : Owes(q)'
  BY <1>5, OwesNothing
<1>9. \A b \in App : Trail(b)'
  BY <1>3, <1>5, <1>6, <1>7, Told_Stays
<1> QED
  BY <1>8, <1>9

LEMMA NextTInv ==
  ASSUME IsFiniteSet(Req), MaxInFlight <= 1, ~MayFail, TInv, [Next]_vars
  PROVE  TInv'
<1>1. SInv'
  BY NextSInv DEF TInv
<1>2. CASE UNCHANGED vars
  BY <1>1, <1>2 DEF TInv, Owes, Trail, Told, Exists, vars, appVars
<1>3. ASSUME NEW r \in Req, Start(r) \/ Continue(r) \/ Break(r) PROVE TInv'
  <2>1. (\A q \in Req : Owes(q)') /\ (\A a \in App : Trail(a)')
    BY <1>3, TrailOpened, TrailMoved, TrailWritten, TrailKept
  <2> QED
    BY <1>1, <2>1 DEF TInv
<1> QED
  BY <1>2, <1>3 DEF Next

LEMMA TrailFollows == TInv => HistoryIsTrail
<1> SUFFICES ASSUME TInv, Quiet, NEW a \in App, Exists(a)
             PROVE  /\ Last(history[a]).to = app[a].status
                    /\ \A k \in 2..Len(history[a]) :
                         history[a][k].from \in {history[a][k - 1].to, None}
  BY DEF HistoryIsTrail
<1>1. \A r \in Req : req[r].pc \notin Telling
  BY DEF Quiet, InFlight
<1>2. Told(a) /\ Unbroken(history[a])
  BY <1>1 DEF TInv, Trail
<1> QED
  BY <1>2 DEF Told, Unbroken, Last

\* Requests served one after the other, none of which fails, leave a history
\* that is an unbroken trail to the status an application has.
THEOREM TrailIsKept ==
  ASSUME IsFiniteSet(Req), MaxInFlight <= 1, ~MayFail
  PROVE  Spec => []HistoryIsTrail
<1>1. Init => TInv
  BY InitTInv
<1>2. TInv /\ [Next]_vars => TInv'
  BY NextTInv
<1>3. TInv => HistoryIsTrail
  BY TrailFollows
<1> QED
  BY <1>1, <1>2, <1>3, PTL DEF Spec
===============================================================================
