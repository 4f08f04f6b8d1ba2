-------------------------------- MODULE Score ---------------------------------
(***************************************************************************)
(* score.service.ts: the append-only log of score events, the running       *)
(* balance per dimension, the aggregate with its ceiling, corrections and   *)
(* reconciliation.  Points are whole numbers; the log is read at the age it *)
(* is written (at age zero the decay factors are 1).                        *)
(*                                                                          *)
(* node-postgres returns NUMERIC as a string, and no parser is installed:   *)
(* a stored balance is therefore not added to but appended to.  "500.00"    *)
(* and 20 give "500.0020", a hundredth at most away from 500; "500.00" and  *)
(* -10 give "500.00-10", which is NaN, and stays so.                        *)
(***************************************************************************)
EXTENDS Handlers, SequencesExt

CONSTANTS
  Student,
  Dimension,   \* ScoreDimension
  Weight,      \* score.dimension.weights, in percent
  Kind,        \* the events recorded: [code, points]
  Ceiling,     \* score.ceiling.<code>
  NaN          \* the number that is none

SCORE_MIN == 300
SCORE_MAX == 1000
SCORE_DEFAULT_FIRST_TIME == 500

ASSUME ScoreAssumption == /\ IsFiniteSet(Dimension) /\ Weight \in [Dimension -> Nat]
                          /\ Kind \subseteq [code : {"REGULAR", "FRAUD", "BREACH"}, points : Int]
                          /\ Ceiling \in SCORE_MIN..SCORE_MAX
                          /\ NaN \notin Int /\ None \notin Int

VARIABLES
  events,      \* table score_events, in the order of insertion
  corrective,  \* table corrective_score_events: the original each row corrects
  balance,     \* table score_running_balances
  forsa,       \* table forsa_scores
  integrity    \* students with a row in data_integrity_events

scores == <<events, corrective, balance, forsa, integrity>>

NoScore == [score |-> None, ceiling |-> FALSE]

ScoreCall(op, pc, s, d, k) ==
  [op |-> op, pc |-> pc, catch |-> "failed", back |-> "done", student |-> s,
   dim |-> d, kind |-> k, event |-> 0, new |-> 0, sums |-> <<>>, capped |-> FALSE]

ScoreInit ==
  /\ events = <<>>
  /\ corrective = [r \in Req |-> 0]
  /\ balance = [s \in Student |-> [d \in Dimension |-> None]]
  /\ forsa = [s \in Student |-> NoScore]
  /\ integrity = {}

Clamp_Top(n) == IF n > SCORE_MAX THEN SCORE_MAX ELSE n
Clamp(n) == IF n < SCORE_MIN THEN SCORE_MIN ELSE IF n > SCORE_MAX THEN SCORE_MAX ELSE n

\* previousBalance + pointValue, with what the driver returned on the left.
NewBalance(stored, points) ==
  IF stored = None THEN Clamp(SCORE_DEFAULT_FIRST_TIME + points)
  ELSE IF stored = NaN \/ points < 0 THEN NaN
  ELSE stored

\* computeDimensionBalancesFromEvents, for one dimension: the rows that count, in
\* the order of insertion, clamped at each.
ActiveOf(s, d) == {i \in DOMAIN events : /\ events[i].student = s /\ events[i].dim = d
                                        /\ events[i].active}
Computed(s, d) ==
  MapThenFoldSet(LAMBDA i, b : Clamp(b + events[i].points), SCORE_DEFAULT_FIRST_TIME,
                 LAMBDA i : i, LAMBDA later : Max(later), ActiveOf(s, d))

\* The rounded weighted sum of the dimension balances.
Aggregate(sums) ==
  Clamp((FoldFunction(+, 0, [d \in Dimension |-> sums[d] * Weight[d]]) + 50) \div 100)

Capped(score) == IF score > Ceiling THEN Ceiling ELSE score

\* student AND active AND code LIKE 'FRAUD%' OR code = 'CONTRACT_BREACH_SEVERE'
CeilingEvent(s) ==
  \E i \in DOMAIN events :
    \/ events[i].student = s /\ events[i].active /\ events[i].code = "FRAUD"
    \/ events[i].code = "BREACH"

StillSerious(s) ==
  \E i \in DOMAIN events : /\ events[i].student = s /\ events[i].active
                           /\ events[i].code \in {"FRAUD", "BREACH"}

(***************************************************************************)
(* recordEvent, by staff or on behalf of another service; a subroutine of   *)
(* the correction.                                                          *)
(***************************************************************************)
RecordEvent(r) ==
  /\ CanStart(r, "recordEvent")
  /\ \E s \in Student, d \in Dimension, k \in Kind :
        Begin(r, ScoreCall("recordEvent", "balance", s, d, k))
  /\ UNCHANGED scores

ReadBalance(r) ==
  /\ At(r, "balance")
  /\ req' = [req EXCEPT ![r].new = NewBalance(balance[req[r].student][req[r].dim],
                                              req[r].kind.points),
                        ![r].pc = "insert"]
  /\ UNCHANGED <<desk, holding, scores>>

InsertEvent(r) ==
  /\ At(r, "insert")
  /\ events' = Append(events, [student |-> req[r].student, dim |-> req[r].dim,
                               code |-> req[r].kind.code, points |-> req[r].kind.points,
                               active |-> TRUE, reference |-> req[r].event])
  /\ Goto(r, "running")
  /\ UNCHANGED <<corrective, balance, forsa, integrity>>

WriteBalance(r) ==
  /\ At(r, "running")
  /\ balance' = [balance EXCEPT ![req[r].student][req[r].dim] = req[r].new]
  /\ Goto(r, "sum")
  /\ UNCHANGED <<events, corrective, forsa, integrity>>

\* One SELECT per dimension.
SumDimension(r) ==
  /\ At(r, "sum")
  /\ LET todo == Dimension \ DOMAIN req[r].sums
         d == CHOOSE d \in todo : TRUE
     IN /\ todo # {}
        /\ req' = [req EXCEPT ![r].sums = [c \in DOMAIN @ \cup {d} |->
                     IF c = d THEN Computed(req[r].student, d) ELSE @[c]]]
  /\ UNCHANGED <<desk, holding, scores>>

Summed(r) == At(r, "sum") /\ DOMAIN req[r].sums = Dimension

ReadCeiling(r) ==
  /\ Summed(r)
  /\ req[r].op # "reconcile"
  /\ req' = [req EXCEPT ![r].capped = CeilingEvent(req[r].student), ![r].pc = "score"]
  /\ UNCHANGED <<desk, holding, scores>>

WriteScore(r) ==
  /\ At(r, "score")
  /\ LET score == Aggregate(req[r].sums) IN
       forsa' = [forsa EXCEPT ![req[r].student] =
         [score   |-> IF req[r].capped THEN Capped(score) ELSE score,
          ceiling |-> req[r].capped]]
  /\ Return(r)
  /\ UNCHANGED <<events, corrective, balance, integrity>>

(***************************************************************************)
(* createCorrectiveEvent: the original is superseded, the correction is     *)
(* recorded (original_event_id is UNIQUE), and its points are an event.     *)
(* Dimension and points are what the request says, not those superseded.    *)
(***************************************************************************)
FindOriginal(r) ==
  /\ CanStart(r, "correct")
  /\ \E i \in DOMAIN events, d \in Dimension, k \in Kind :
        /\ events[i].active
        /\ Begin(r, [ScoreCall("correct", "unique", events[i].student, d,
                       [code |-> "CORRECTION", points |-> 0 - k.points])
                     EXCEPT !.event = i, !.back = "lift"])
  /\ UNCHANGED scores

Corrected(i) == \E q \in Req : corrective[q] = i

CheckCorrective(r) ==
  /\ At(r, "unique")
  /\ IF Corrected(req[r].event) THEN Raise(r) ELSE Goto(r, "supersede")
  /\ UNCHANGED scores

Supersede(r) ==
  /\ At(r, "supersede")
  /\ events' = [events EXCEPT ![req[r].event].active = FALSE]
  /\ Goto(r, "corrective")
  /\ UNCHANGED <<corrective, balance, forsa, integrity>>

Unique(i) == ~Corrected(i)

InsertCorrective_Only(r) ==
  /\ At(r, "corrective")
  /\ Unique(req[r].event)
  /\ corrective' = [corrective EXCEPT ![r] = req[r].event]
  /\ Goto(r, "lift")
  /\ UNCHANGED <<events, balance, forsa, integrity>>
InsertCorrective(r) ==
  /\ At(r, "corrective")
  /\ Unique(req[r].event)
  /\ corrective' = [corrective EXCEPT ![r] = req[r].event]
  /\ Goto(r, "balance")
  /\ UNCHANGED <<events, balance, forsa, integrity>>

DuplicateCorrective(r) ==
  /\ At(r, "corrective")
  /\ ~Unique(req[r].event)
  /\ Raise(r)
  /\ UNCHANGED scores

CheckCeiling_FraudOnly(r) ==
  /\ At(r, "lift")
  /\ Goto(r, IF \E i \in DOMAIN events : /\ events[i].student = req[r].student
                                        /\ events[i].active
                                        /\ events[i].code = "FRAUD"
             THEN "done" ELSE "unlift")
  /\ UNCHANGED scores
CheckCeiling(r) ==
  /\ At(r, "lift")
  /\ Goto(r, IF StillSerious(req[r].student) THEN "done" ELSE "unlift")
  /\ UNCHANGED scores

LiftCeiling(r) ==
  /\ At(r, "unlift")
  /\ forsa' = [forsa EXCEPT ![req[r].student].ceiling = FALSE]
  /\ Goto(r, "done")
  /\ UNCHANGED <<events, corrective, balance, integrity>>

(***************************************************************************)
(* getScore: the first reader of a student's score creates it.              *)
(***************************************************************************)
GetScore(r) ==
  /\ CanStart(r, "getScore")
  /\ \E s \in Student :
        /\ forsa[s] = NoScore
        /\ Begin(r, ScoreCall("getScore", "start", s, None, None))
  /\ UNCHANGED scores

InsertScore(r) ==
  /\ At(r, "start")
  /\ IF forsa[req[r].student] = NoScore
     THEN /\ forsa' = [forsa EXCEPT ![req[r].student] =
                         [score |-> SCORE_DEFAULT_FIRST_TIME, ceiling |-> FALSE]]
          /\ Goto(r, "initialize")
     ELSE Raise(r) /\ forsa' = forsa      \* UNIQUE(student_id)
  /\ UNCHANGED <<events, corrective, balance, integrity>>

InitializeBalance(r) ==    \* ON CONFLICT DO NOTHING
  /\ At(r, "initialize")
  /\ LET todo == Dimension \ DOMAIN req[r].sums
         d == CHOOSE d \in todo : TRUE
     IN IF todo = {} THEN Goto(r, "done") /\ balance' = balance
        ELSE /\ balance' = [balance EXCEPT ![req[r].student][d] =
                              IF @ = None THEN SCORE_DEFAULT_FIRST_TIME ELSE @]
             /\ req' = [req EXCEPT ![r].sums = [c \in DOMAIN @ \cup {d} |-> 0]]
             /\ UNCHANGED <<desk, holding>>
  /\ UNCHANGED <<events, corrective, forsa, integrity>>

(***************************************************************************)
(* reconcileStudentScore: compares, reports, corrects nothing.              *)
(***************************************************************************)
Reconcile(r) ==
  /\ CanStart(r, "reconcile")
  /\ \E s \in Student : Begin(r, ScoreCall("reconcile", "sum", s, None, None))
  /\ UNCHANGED scores

\* parseFloat(stored) || 500: NaN and a missing row count as 500.
Stored(s, d) == IF balance[s][d] \in {None, NaN} THEN SCORE_DEFAULT_FIRST_TIME ELSE balance[s][d]
Discrepant(s, sums) == \E d \in Dimension : Stored(s, d) - sums[d] \notin {-1, 0, 1}

Compare(r) ==
  /\ Summed(r)
  /\ req[r].op = "reconcile"
  /\ Goto(r, IF Discrepant(req[r].student, req[r].sums) THEN "report" ELSE "done")
  /\ UNCHANGED scores

Report(r) ==
  /\ At(r, "report")
  /\ integrity' = integrity \cup {req[r].student}
  /\ Goto(r, "done")
  /\ UNCHANGED <<events, corrective, balance, forsa>>

ScoreStep(r) ==
  \/ RecordEvent(r) \/ FindOriginal(r) \/ GetScore(r) \/ Reconcile(r)
  \/ ReadBalance(r) \/ InsertEvent(r) \/ WriteBalance(r) \/ SumDimension(r)
  \/ ReadCeiling(r) \/ WriteScore(r)
  \/ CheckCorrective(r) \/ Supersede(r) \/ InsertCorrective(r) \/ DuplicateCorrective(r)
  \/ CheckCeiling(r) \/ LiftCeiling(r)
  \/ InsertScore(r) \/ InitializeBalance(r) \/ Compare(r) \/ Report(r)

-------------------------------------------------------------------------------
ScoreRange == SCORE_MIN..SCORE_MAX

ScoreTypeOK ==
  /\ \A i \in DOMAIN events : events[i].student \in Student /\ events[i].dim \in Dimension
  /\ corrective \in [Req -> Nat]
  /\ balance \in [Student -> [Dimension -> ScoreRange \cup {None, NaN}]]
  /\ forsa \in [Student -> [score : ScoreRange \cup {None}, ceiling : BOOLEAN]]
  /\ integrity \subseteq Student

\* Once the requests have been served the score of a student is the weighted
\* sum of the events that count, whatever was recorded, superseded and
\* compensated on the way (as long as nobody has a breach, which the ceiling
\* query attributes to everybody; one request at a time).
ScoreFollowsLog ==
  AllServed /\ (\A i \in DOMAIN events : events[i].code # "BREACH") =>
    \A s \in Student : forsa[s] # NoScore =>
      LET score == Aggregate([d \in Dimension |-> Computed(s, d)]) IN
        forsa[s].score = IF CeilingEvent(s) THEN Capped(score) ELSE score

\* A student with a fraud or breach that has not been superseded stays under
\* the ceiling, and is shown to: no later event and no correction of another
\* event lifts it (one request at a time).
SeriousIsCapped ==
  AllServed => \A s \in Student : StillSerious(s) =>
    forsa[s].ceiling /\ forsa[s].score <= Ceiling
===============================================================================
