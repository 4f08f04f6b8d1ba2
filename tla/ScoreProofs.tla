----------------------------- MODULE ScoreProofs -----------------------------
(***************************************************************************)
(* The score of a student follows the log of its events and keeps under the *)
(* ceiling, one request at a time; and, with it, the types of all desks.    *)
(***************************************************************************)
EXTENDS SerialProofs

-------------------------------------------------------------------------------
(***************************************************************************)
(* The balance of a dimension, clamped at each event from the first row to  *)
(* the last: its recursion over sets of rows has a solution, and only one.  *)
(***************************************************************************)
\* f is the table of the balances of the sets of rows of S, whose events are es.
Runs(f, S, es) ==
  f = [s \in SUBSET S |-> IF s = {} THEN SCORE_DEFAULT_FIRST_TIME
                          ELSE Clamp(f[s \ {Max(s)}] + es[Max(s)].points)]

Rows(S) == IsFiniteSet(S) /\ S \subseteq Int

LEMMA RowsHaveLast ==
  ASSUME NEW S, Rows(S), NEW s \in SUBSET S
  PROVE  /\ Rows(s)
         /\ s # {} => Max(s) \in s
<1>1. IsFiniteSet(s) /\ s \subseteq Int
  BY FS_Subset DEF Rows
<1> QED
  BY <1>1, MaxIsIn DEF Rows

LEMMA RunsStep ==
  ASSUME NEW S, NEW es, NEW f, Runs(f, S, es), NEW s \in SUBSET S
  PROVE  f[s] = IF s = {} THEN SCORE_DEFAULT_FIRST_TIME
                ELSE Clamp(f[s \ {Max(s)}] + es[Max(s)].points)
BY DEF Runs

\* Tables of events that agree agree themselves.
LEMMA RunsAgree ==
  ASSUME NEW S, Rows(S), NEW T, NEW es, NEW fs, NEW f, NEW g, Runs(f, S, es), Runs(g, T, fs),
         NEW u \in SUBSET S, u \in SUBSET T, \A i \in u : es[i].points = fs[i].points
  PROVE  f[u] = g[u]
<1> DEFINE bad == {s \in SUBSET u : f[s] # g[s]}
<1> SUFFICES ASSUME bad # {} PROVE FALSE
  OBVIOUS
<1>1. PICK s \in bad : \A t \in bad : ~(t \subseteq s /\ t # s)
  <2>1. bad \in SUBSET (SUBSET u) /\ bad # {}
    OBVIOUS
  <2>2. IsFiniteSet(u)
    BY RowsHaveLast DEF Rows
  <2> HIDE DEF bad
  <2> QED
    BY <2>1, <2>2, Smallest
<1>2. PICK m : m = Max(s)
  OBVIOUS
<1>3. s \in SUBSET S /\ s \in SUBSET T
  OBVIOUS
<1>4. /\ f[s] = IF s = {} THEN SCORE_DEFAULT_FIRST_TIME ELSE Clamp(f[s \ {m}] + es[m].points)
      /\ g[s] = IF s = {} THEN SCORE_DEFAULT_FIRST_TIME ELSE Clamp(g[s \ {m}] + fs[m].points)
  <2>1. f[s] = IF s = {} THEN SCORE_DEFAULT_FIRST_TIME ELSE Clamp(f[s \ {Max(s)}] + es[Max(s)].points)
    BY ONLY <1>3, Runs(f, S, es), RunsStep
  <2>2. g[s] = IF s = {} THEN SCORE_DEFAULT_FIRST_TIME ELSE Clamp(g[s \ {Max(s)}] + fs[Max(s)].points)
    BY <1>3, RunsStep
  <2> QED
    BY <1>2, <2>1, <2>2
<1>5. s # {} /\ f[s] # g[s]
  BY <1>4
<1>6. m \in s
  BY <1>2, <1>3, <1>5, RowsHaveLast
<1>7. s \ {m} \notin bad
  BY <1>1, <1>6
<1>8. f[s \ {m}] = g[s \ {m}] /\ es[m].points = fs[m].points
  BY <1>6, <1>7
<1> QED
  BY <1>4, <1>5, <1>8

LEMMA RunsExist ==
  ASSUME NEW S, Rows(S), NEW es
  PROVE  \E f : Runs(f, S, es)
<1> DEFINE bad == {s \in SUBSET S : ~ \E f : Runs(f, s, es)}
<1> SUFFICES ASSUME bad # {} PROVE FALSE
  OBVIOUS
<1>1. PICK T \in bad : \A t \in bad : ~(t \subseteq T /\ t # T)
  <2>1. bad \in SUBSET (SUBSET S) /\ bad # {} /\ IsFiniteSet(S)
    BY DEF Rows
  <2> HIDE DEF bad
  <2> QED
    BY <2>1, Smallest
<1>2. \A t \in SUBSET T : t # T => \E f : Runs(f, t, es)
  BY <1>1
<1> DEFINE table(t) == CHOOSE f : Runs(f, t, es)
<1>3. \A t \in SUBSET T : t # T => Runs(table(t), t, es)
  BY <1>2
<1> HIDE DEF table
<1> DEFINE rest(s) == s \ {Max(s)}
           f == [s \in SUBSET T |-> IF s = {} THEN SCORE_DEFAULT_FIRST_TIME
                                    ELSE Clamp(table(rest(s))[rest(s)] + es[Max(s)].points)]
<1>4. \A s \in SUBSET T : s # {} => rest(s) \in SUBSET T /\ rest(s) # T
  BY RowsHaveLast
<1> HIDE DEF rest
<1>5. ASSUME NEW s \in SUBSET T, s # T
      PROVE  f[s] = table(s)[s]
  <2>1. table(s)[s] = IF s = {} THEN SCORE_DEFAULT_FIRST_TIME
                      ELSE Clamp(table(s)[s \ {Max(s)}] + es[Max(s)].points)
    BY <1>3, <1>5, RunsStep
  <2>2. CASE s = {}
    BY <2>1, <2>2
  <2>3. CASE s # {}
    <3>1. rest(s) \in SUBSET T /\ rest(s) # T /\ rest(s) \in SUBSET s
      BY <1>4, <2>3 DEF rest
    <3>2. Runs(table(s), s, es) /\ Runs(table(rest(s)), rest(s), es)
      BY <1>3, <1>5, <3>1
    <3>3. Rows(s)
      BY RowsHaveLast
    <3>4. table(s)[rest(s)] = table(rest(s))[rest(s)]
      BY <3>1, <3>2, <3>3, RunsAgree
    <3> QED
      BY <2>1, <2>3, <3>4 DEF rest
  <2> QED
    BY <2>2, <2>3
<1>6. f = [s \in SUBSET T |-> IF s = {} THEN SCORE_DEFAULT_FIRST_TIME
                              ELSE Clamp(f[s \ {Max(s)}] + es[Max(s)].points)]
  <2> SUFFICES ASSUME NEW s \in SUBSET T, s # {}
               PROVE  table(rest(s))[rest(s)] = f[s \ {Max(s)}]
    OBVIOUS
  <2> QED
    BY <1>4, <1>5 DEF rest
<1> HIDE DEF f
<1>7. Runs(f, T, es)
  BY <1>6 DEF Runs
<1> QED
  BY <1>1, <1>7

\* The balance the rows of S leave.
Run(S, es) == (CHOOSE f : Runs(f, S, es))[S]

LEMMA RunIsUnique ==
  ASSUME NEW S, Rows(S), NEW es, NEW T \in SUBSET S, NEW f, Runs(f, S, es)
  PROVE  f[T] = Run(T, es)
<1>1. Rows(T)
  BY RowsHaveLast
<1>2. Runs(CHOOSE g : Runs(g, T, es), T, es)
  BY <1>1, RunsExist
<1> QED
  BY <1>2, RunsAgree DEF Run

LEMMA RunStep ==
  ASSUME NEW S, Rows(S), NEW es
  PROVE  Run(S, es) = IF S = {} THEN SCORE_DEFAULT_FIRST_TIME
                      ELSE Clamp(Run(S \ {Max(S)}, es) + es[Max(S)].points)
<1>1. PICK f : Runs(f, S, es)
  BY RunsExist
<1>2. f[S] = Run(S, es) /\ f[S \ {Max(S)}] = Run(S \ {Max(S)}, es)
  BY <1>1, RunIsUnique
<1> QED
  BY <1>1, <1>2, RunsStep

LEMMA RunIsInRange ==
  ASSUME NEW S, Rows(S), NEW es, \A i \in S : es[i].points \in Int
  PROVE  Run(S, es) \in ScoreRange
<1> DEFINE bad == {s \in SUBSET S : Run(s, es) \notin ScoreRange}
<1> SUFFICES ASSUME bad # {} PROVE FALSE
  OBVIOUS
<1>1. PICK s \in bad : \A t \in bad : ~(t \subseteq s /\ t # s)
  <2>1. bad \in SUBSET (SUBSET S) /\ bad # {} /\ IsFiniteSet(S)
    BY DEF Rows
  <2> HIDE DEF bad
  <2> QED
    BY <2>1, Smallest
<1>2. PICK m : m = Max(s)
  OBVIOUS
<1>3. Rows(s) /\ (s # {} => m \in s)
  BY <1>2, RowsHaveLast
<1>4. Run(s, es) = IF s = {} THEN SCORE_DEFAULT_FIRST_TIME
                   ELSE Clamp(Run(s \ {m}, es) + es[m].points)
  BY <1>2, <1>3, RunStep
<1>5. SCORE_DEFAULT_FIRST_TIME \in ScoreRange
  BY DEF ScoreRange, SCORE_MIN, SCORE_MAX, SCORE_DEFAULT_FIRST_TIME
<1>6. s # {}
  BY <1>4, <1>5
<1>7. s \ {m} \notin bad
  BY <1>1, <1>3, <1>6
<1>8. Run(s \ {m}, es) \in ScoreRange /\ es[m].points \in Int
  BY <1>3, <1>6, <1>7
<1>9. PICK n : n = Run(s \ {m}, es) + es[m].points
  OBVIOUS
<1>10. n \in Int
  BY <1>8, <1>9 DEF ScoreRange, SCORE_MIN, SCORE_MAX
<1>11. Clamp(n) \in ScoreRange
  BY <1>10 DEF Clamp, ScoreRange, SCORE_MIN, SCORE_MAX
<1> QED
  BY <1>4, <1>6, <1>9, <1>11

LEMMA RunIsTheSame ==
  ASSUME NEW S, Rows(S), NEW es, NEW fs, \A i \in S : es[i].points = fs[i].points
  PROVE  Run(S, es) = Run(S, fs)
<1>1. Runs(CHOOSE f : Runs(f, S, es), S, es) /\ Runs(CHOOSE f : Runs(f, S, fs), S, fs)
  BY RunsExist
<1> QED
  BY <1>1, RunsAgree DEF Run

LEMMA ComputedIsRun ==
  ASSUME NEW s, NEW d, Rows(ActiveOf(s, d))
  PROVE  Computed(s, d) = Run(ActiveOf(s, d), events)
<1> DEFINE A == ActiveOf(s, d)
           f == CHOOSE iter : iter = [t \in SUBSET A |->
                  IF t = {} THEN SCORE_DEFAULT_FIRST_TIME
                  ELSE Clamp(iter[t \ {Max(t)}] + events[Max(t)].points)]
<1>1. Computed(s, d) = f[A]
  BY DEF Computed, MapThenFoldSet
<1>2. PICK g : g = [t \in SUBSET A |->
                  IF t = {} THEN SCORE_DEFAULT_FIRST_TIME
                  ELSE Clamp(g[t \ {Max(t)}] + events[Max(t)].points)]
  <2>1. PICK g : Runs(g, A, events)
    BY RunsExist
  <2> QED
    BY <2>1 DEF Runs
<1>3. Runs(f, A, events)
  BY <1>2 DEF Runs
<1> QED
  BY <1>1, <1>3, RunIsUnique

\* The weighted sum.
LEMMA AggregateIsTotal ==
  ASSUME NEW sums
  PROVE  Aggregate(sums) =
           Clamp((Total(Dimension, [d \in Dimension |-> sums[d] * Weight[d]]) + 50) \div 100)
<1> DEFINE m == [d \in Dimension |-> sums[d] * Weight[d]]
           f == CHOOSE iter : iter = [s \in SUBSET (DOMAIN m) |->
                  IF s = {} THEN 0 ELSE m[CHOOSE x \in s : TRUE] + iter[s \ {CHOOSE x \in s : TRUE}]]
<1>1. FoldFunction(+, 0, m) = f[DOMAIN m]
  BY DEF FoldFunction, FoldFunctionOnSet, MapThenFoldSet
<1>2. IsFiniteSet(Dimension) /\ DOMAIN m = Dimension
  BY ScoreAssumption
<1> HIDE DEF m
<1>3. PICK g : Sums(g, DOMAIN m, m)
  BY <1>2, SumsExist
<1>4. g = [s \in SUBSET (DOMAIN m) |->
             IF s = {} THEN 0 ELSE m[CHOOSE x \in s : TRUE] + g[s \ {CHOOSE x \in s : TRUE}]]
  BY <1>3 DEF Sums, First
<1>5. Sums(f, DOMAIN m, m)
  BY <1>4 DEF Sums, First
<1>6. f[DOMAIN m] = Total(Dimension, m)
  BY <1>2, <1>5, SumIsTotal
<1> QED
  BY <1>1, <1>6 DEF Aggregate, m

-------------------------------------------------------------------------------
(***************************************************************************)
(* The score.                                                               *)
(***************************************************************************)
Code    == {"REGULAR", "FRAUD", "BREACH", "CORRECTION"}
Event   == [student : Student, dim : Dimension, code : Code, points : Int,
            active : BOOLEAN, reference : Nat]
Balance == ScoreRange \cup {NaN}
Partial == UNION {[D -> {0} \cup ScoreRange] : D \in SUBSET Dimension}

ScoreRow ==
  [op : ScoreOps, pc : ScorePc \cup Ended, catch : {"failed"}, back : {"done", "lift"},
   student : Student, dim : Dimension \cup {None},
   kind : [code : Code, points : Int] \cup {None},
   event : Nat, new : {0} \cup Balance, sums : Partial, capped : BOOLEAN]

\* Where a handler of the score may be, and what it has when it is there.
Fits(h) ==
  /\ h.op = "recordEvent" => h.pc \in {"balance", "insert", "running", "sum", "score"} \cup Ended
  /\ h.op = "correct" => h.pc \in {"unique", "supersede", "corrective", "balance", "insert",
                                   "running", "sum", "score", "lift", "unlift"} \cup Ended
  /\ h.op = "getScore" => h.pc \in {"start", "initialize"} \cup Ended
  /\ h.op = "reconcile" => h.pc \in {"sum", "report"} \cup Ended
  /\ h.back = "lift" => h.op = "correct"
  /\ h.pc \in {"unique", "supersede", "corrective", "balance", "insert", "running"} =>
       h.dim \in Dimension /\ h.kind \in [code : Code, points : Int]
  /\ h.pc \in {"insert", "running"} => h.new \in Balance
  /\ h.op # "getScore" => \A d \in DOMAIN h.sums : h.sums[d] \in ScoreRange
  /\ h.pc = "score" => DOMAIN h.sums = Dimension

ScoreHandler(r) == req[r].op \in ScoreOps =>
  /\ req[r] \in ScoreRow /\ Fits(req[r])
  /\ req[r].op = "correct" => req[r].event \in DOMAIN events

ScoreInv ==
  /\ events \in Seq(Event)
  /\ corrective \in [Req -> Nat]
  /\ balance \in [Student -> [Dimension -> ScoreRange \cup {None, NaN}]]
  /\ forsa \in [Student -> [score : ScoreRange \cup {None}, ceiling : BOOLEAN]]
  /\ \A s \in Student : forsa[s].score = None => ~forsa[s].ceiling
  /\ integrity \subseteq Student
  /\ \A r \in Req : ScoreHandler(r)

LEMMA ScoreBegins == Init => ScoreInv
BY DEF Init, ServerInit, ScoreInit, NoScore, ScoreInv, ScoreHandler, ScoreOps

LEMMA ScoreTyped == ScoreInv => ScoreTypeOK
<1> SUFFICES ASSUME ScoreInv PROVE ScoreTypeOK
  OBVIOUS
<1>1. ASSUME NEW i \in DOMAIN events
      PROVE  events[i] \in Event
  <2>1. PICK R : R = Event
    OBVIOUS
  <2>2. events \in Seq(R)
    BY <2>1 DEF ScoreInv
  <2>3. i \in 1..Len(events)
    BY <2>2
  <2> QED
    BY <2>1, <2>2, <2>3
<1>2. \A i \in DOMAIN events : events[i].student \in Student /\ events[i].dim \in Dimension
  BY <1>1 DEF Event
<1> QED
  BY <1>2 DEF ScoreInv, ScoreTypeOK

\* A step of the other services of the core is none of the score's.
LEMMA AtScore ==
  ASSUME Tabled, EngineInv, NEW r \in Req, Handles(r, CoreOps), CoreStep(r), ~ScoreStep(r)
  PROVE  UNCHANGED scores /\ req[r].op \notin ScoreOps /\ req'[r].op \notin ScoreOps
<1>1. UNCHANGED scores
  BY DEF CoreStep
<1>2. CASE req[r].pc = "idle"
  <2>1. req[r].op \notin ScoreOps
    BY <1>2, IdleHasNone DEF ScoreOps
  <2>2. req'[r].op \notin ScoreOps
    <3>1. \A op, pc, c, d, p, res :
            /\ ContractCall(op, pc, c, d, p).op = op
            /\ [ContractCall(op, pc, c, d, p) EXCEPT !.result = res].op = op
      BY DEF ContractCall
    <3>2. CASE GenerateRead(r) \/ Send(r) \/ SignRead(r)
      <4>1. \E op \in {"generate", "send", "sign"} : \E pc, c, d, p :
               Begin(r, ContractCall(op, pc, c, d, p))
        BY <3>2 DEF GenerateRead, Send, SignRead
      <4>2. \E op \in {"generate", "send", "sign"} : \E pc, c, d, p :
               req'[r] = ContractCall(op, pc, c, d, p)
        BY <4>1 DEF Begin, Tabled
      <4> QED
        BY <3>1, <4>2 DEF ScoreOps
    <3>3. CASE Lookup(r)
      <4>1. PICK c, d : Begin(r, ContractCall("execute", "ledger", c, d, None))
        BY <3>3 DEF Lookup
      <4>2. req'[r] = ContractCall("execute", "ledger", c, d, None)
        BY <4>1 DEF Begin, Tabled
      <4> QED
        BY <3>1, <4>2 DEF ScoreOps
    <3>4. CASE Replay(r)
      <4>1. PICK res :
              req' = [req EXCEPT ![r] = [ContractCall("execute", "done", None, None, None)
                                           EXCEPT !.result = res]]
        BY <3>4 DEF Replay
      <4>2. req'[r] = [ContractCall("execute", "done", None, None, None) EXCEPT !.result = res]
        BY <4>1 DEF Tabled
      <4> QED
        BY <3>1, <4>2 DEF ScoreOps
    <3> QED
      BY <1>2, <3>2, <3>3, <3>4 DEF CoreStep, ContractsStep, ExecutionStep, ReadVersion, PutTerms,
         InsertContract, FindDraft, NoDraft, MarkSent, InsertSignature, CountSignatures, MarkSigned,
         InsertLedger, MarkExecuting, BeginTransaction, UnknownAction, Disburse, QueueEvent,
         EndTransaction, Commit, MarkFailed, ReadOutbox, HandleEvent, EventFails, RetryEvent, Drained,
         At
  <2> QED
    BY <1>1, <2>1, <2>2
<1>3. CASE req[r].pc # "idle"
  <2>1. req[r].pc \in EnginePc
    BY <1>3 DEF CoreStep, ContractsStep, ExecutionStep, GenerateRead, Send, SignRead, ReadVersion,
       PutTerms, Lookup, Replay, CanStart,
       InsertContract, FindDraft, NoDraft, MarkSent, InsertSignature, CountSignatures, MarkSigned,
       InsertLedger, MarkExecuting, BeginTransaction, UnknownAction, Disburse, QueueEvent,
       EndTransaction, Commit, MarkFailed, ReadOutbox, HandleEvent, EventFails, RetryEvent, Drained,
       At, EnginePc, GeneratePc, SendPc, SignPc, DisbursePc, ExecutePc
  <2>2. req[r].op \in EngineOps /\ req[r] \in EngineRow
    BY <2>1, EngineAtWork
  <2>3. CASE (\E pc : Goto(r, pc)) \/ Raise(r)
    <3>1. \/ \E pc : req'[r] = [req[r] EXCEPT !.pc = pc]
          \/ req'[r] = [req[r] EXCEPT !.pc = req[r].catch, !.catch = "failed"]
      BY <2>3 DEF Goto, Raise, Tabled
    <3>2. req'[r].op = req[r].op
      BY <2>2, <3>1 DEF EngineRow
    <3> QED
      BY <1>1, <2>2, <3>2 DEF EngineOps, ScoreOps
  <2>4. CASE ~((\E pc : Goto(r, pc)) \/ Raise(r))
    <3>1. \/ ReadVersion(r) \/ InsertContract(r) \/ MarkSent(r) \/ CountSignatures(r)
          \/ MarkExecuting(r) \/ BeginTransaction(r) \/ QueueEvent(r) \/ EndTransaction(r)
          \/ ReadOutbox(r) \/ HandleEvent(r) \/ EventFails(r) \/ RetryEvent(r)
      BY <1>3, <2>4 DEF CoreStep, ContractsStep, ExecutionStep, GenerateRead, Send, SignRead, CanStart,
         Lookup, Replay, PutTerms, FindDraft, NoDraft, InsertSignature, MarkSigned, InsertLedger,
         UnknownAction, Disburse, Commit, MarkFailed, Drained, Return
    <3>2. CASE ReadVersion(r) \/ InsertContract(r) \/ MarkSent(r) \/ CountSignatures(r)
      <4>1. \/ \E v, pc : req'[r] = [req[r] EXCEPT !.version = v, !.pc = pc]
            \/ \E v, pc : req'[r] = [req[r] EXCEPT !.result = v, !.pc = pc]
            \/ \E v, pc : req'[r] = [req[r] EXCEPT !.count = v, !.pc = pc]
        <5>1. CASE ReadVersion(r)
          BY <5>1 DEF ReadVersion, Tabled
        <5>2. CASE InsertContract(r)
          BY <5>2 DEF InsertContract, Tabled
        <5>3. CASE MarkSent(r)
          BY <5>3 DEF MarkSent, Tabled
        <5>4. CASE CountSignatures(r)
          BY <5>4 DEF CountSignatures, Tabled
        <5> QED
          BY <3>2, <5>1, <5>2, <5>3, <5>4
      <4> QED
        BY <1>1, <2>2, <4>1 DEF EngineRow, EngineOps, ScoreOps
    <3>3. CASE ~(ReadVersion(r) \/ InsertContract(r) \/ MarkSent(r) \/ CountSignatures(r))
      <4>1. req'[r].op = req[r].op
        BY <2>2, <3>1, <3>3 DEF MarkExecuting, BeginTransaction, QueueEvent, EndTransaction,
           ReadOutbox, HandleEvent, EventFails, RetryEvent, Tabled, EngineRow, server
      <4> QED
        BY <1>1, <2>2, <4>1 DEF EngineOps, ScoreOps
    <3> QED
      BY <3>2, <3>3
  <2> QED
    BY <2>3, <2>4
<1> QED
  BY <1>2, <1>3

LEMMA ScoreAtWork ==
  ASSUME Tabled, EngineInv, ScoreInv, NEW r \in Req, Handles(r, CoreOps), req[r].pc \in ScorePc
  PROVE  /\ req[r].op \in ScoreOps /\ req[r] \in ScoreRow /\ Fits(req[r])
         /\ req[r].op = "correct" => req[r].event \in DOMAIN events
<1>1. req[r].op # "none"
  BY DEF Tabled, ScorePc
<1>2. req[r].op \notin EngineOps
  BY DEF EngineInv, EnginePlaced, EngineRow, GeneratePc, SendPc, SignPc, DisbursePc, ExecutePc,
         ScorePc, Ended
<1>3. req[r].op \in ScoreOps
  BY <1>1, <1>2 DEF Handles, CoreOps, EngineOps, ScoreOps
<1> QED
  BY <1>3 DEF ScoreInv, ScoreHandler

\* The events a step leaves or adds to, the other tables, and its own handler.
LEMMA ScoreGoesOn ==
  ASSUME ScoreInv, NEW r \in Req, \A q \in Req : q # r => req'[q] = req[q],
         events' \in Seq(Event), DOMAIN events \subseteq DOMAIN events',
         corrective' \in [Req -> Nat],
         balance' \in [Student -> [Dimension -> ScoreRange \cup {None, NaN}]],
         forsa' \in [Student -> [score : ScoreRange \cup {None}, ceiling : BOOLEAN]],
         \A s \in Student : forsa'[s].score = None => ~forsa'[s].ceiling,
         integrity' \subseteq Student, ScoreHandler(r)'
  PROVE  ScoreInv'
<1>1. ASSUME NEW q \in Req, q # r
      PROVE  ScoreHandler(q)'
  BY <1>1 DEF ScoreInv, ScoreHandler
<1> QED
  BY <1>1 DEF ScoreInv

LEMMA ScoreStays ==
  ASSUME ScoreInv, NEW r \in Req, \A q \in Req : q # r => req'[q] = req[q], UNCHANGED scores,
         ScoreHandler(r)'
  PROVE  ScoreInv'
<1>1. /\ events' = events /\ corrective' = corrective /\ balance' = balance
      /\ forsa' = forsa /\ integrity' = integrity
  BY DEF scores
<1> QED
  BY <1>1, ScoreGoesOn DEF ScoreInv

LEMMA RowMoves ==
  ASSUME NEW h \in ScoreRow, NEW pc \in ScorePc \cup Ended, NEW g, g = [h EXCEPT !.pc = pc]
  PROVE  /\ g \in ScoreRow /\ g.pc = pc /\ g.op = h.op /\ g.back = h.back /\ g.student = h.student
         /\ g.dim = h.dim /\ g.kind = h.kind /\ g.event = h.event /\ g.new = h.new
         /\ g.sums = h.sums /\ g.capped = h.capped
BY DEF ScoreRow

LEMMA EmptyIsAFunction ==
  ASSUME NEW V
  PROVE  <<>> \in [{} -> V] /\ DOMAIN <<>> = {}
<1>1. <<>> \in Seq(V)
  OBVIOUS
<1>2. <<>> \in [1..Len(<<>>) -> V]
  BY ONLY <1>1
<1>3. <<>> \in [{} -> V]
  BY ONLY <1>2
<1> QED
  BY <1>3

LEMMA EmptyIsPartial == <<>> \in Partial /\ DOMAIN <<>> = {}
<1>1. {} \in SUBSET Dimension
  OBVIOUS
<1> QED
  BY <1>1, EmptyIsAFunction DEF Partial

LEMMA ScoreCallFits ==
  ASSUME NEW s \in Student, NEW h,
         \/ \E d \in Dimension, k \in [code : Code, points : Int] :
              h = ScoreCall("recordEvent", "balance", s, d, k)
         \/ h = ScoreCall("getScore", "start", s, None, None)
         \/ h = ScoreCall("reconcile", "sum", s, None, None)
         \/ \E d \in Dimension, k \in [code : Code, points : Int], i \in Nat :
              h = [ScoreCall("correct", "unique", s, d, k) EXCEPT !.event = i, !.back = "lift"]
  PROVE  h \in ScoreRow /\ Fits(h) /\ DOMAIN h.sums = {}
<1>1. <<>> \in Partial /\ DOMAIN <<>> = {}
  BY EmptyIsPartial
<1>2. CASE \E d \in Dimension, k \in [code : Code, points : Int] :
             h = ScoreCall("recordEvent", "balance", s, d, k)
  <2>1. PICK d \in Dimension, k \in [code : Code, points : Int] :
          h = ScoreCall("recordEvent", "balance", s, d, k)
    BY <1>2
  <2>2. h \in ScoreRow
    BY <1>1, <2>1 DEF ScoreCall, ScoreRow, ScoreOps, ScorePc
  <2>3. /\ h.op = "recordEvent" /\ h.pc = "balance" /\ h.back = "done" /\ h.dim = d /\ h.kind = k
        /\ h.sums = <<>>
    BY <2>1 DEF ScoreCall
  <2> QED
    BY <1>1, <2>2, <2>3 DEF Fits
<1>3. CASE h = ScoreCall("getScore", "start", s, None, None)
  <2>1. h \in ScoreRow
    BY <1>1, <1>3 DEF ScoreCall, ScoreRow, ScoreOps, ScorePc
  <2>2. h.op = "getScore" /\ h.pc = "start" /\ h.back = "done" /\ h.sums = <<>>
    BY <1>3 DEF ScoreCall
  <2> QED
    BY <1>1, <2>1, <2>2 DEF Fits
<1>4. CASE h = ScoreCall("reconcile", "sum", s, None, None)
  <2>1. h \in ScoreRow
    BY <1>1, <1>4 DEF ScoreCall, ScoreRow, ScoreOps, ScorePc
  <2>2. h.op = "reconcile" /\ h.pc = "sum" /\ h.back = "done" /\ h.sums = <<>>
    BY <1>4 DEF ScoreCall
  <2> QED
    BY <1>1, <2>1, <2>2 DEF Fits
<1>5. CASE \E d \in Dimension, k \in [code : Code, points : Int], i \in Nat :
             h = [ScoreCall("correct", "unique", s, d, k) EXCEPT !.event = i, !.back = "lift"]
  <2>1. PICK d \in Dimension, k \in [code : Code, points : Int], i \in Nat :
          h = [ScoreCall("correct", "unique", s, d, k) EXCEPT !.event = i, !.back = "lift"]
    BY <1>5
  <2>2. h \in ScoreRow
    BY <1>1, <2>1 DEF ScoreCall, ScoreRow, ScoreOps, ScorePc
  <2>3. /\ h.op = "correct" /\ h.pc = "unique" /\ h.back = "lift" /\ h.dim = d /\ h.kind = k
        /\ h.sums = <<>>
    BY <2>1 DEF ScoreCall
  <2> QED
    BY <1>1, <2>2, <2>3 DEF Fits
<1> QED
  BY <1>2, <1>3, <1>4, <1>5

\* What an element of a sequence of events is.
LEMMA EventsAre ==
  ASSUME ScoreInv
  PROVE  /\ DOMAIN events = 1..Len(events) /\ Len(events) \in Nat
         /\ \A i \in DOMAIN events : events[i] \in Event
<1>1. PICK R : R = Event
  OBVIOUS
<1>2. events \in Seq(R)
  BY <1>1 DEF ScoreInv
<1> QED
  BY <1>1, <1>2

LEMMA ScoreArrives ==
  ASSUME Tabled, ScoreInv, NEW r \in Req,
         RecordEvent(r) \/ FindOriginal(r) \/ GetScore(r) \/ Reconcile(r)
  PROVE  /\ ScoreInv' /\ req[r].pc = "idle" /\ UNCHANGED scores
         /\ \A q \in Req : q # r => req'[q] = req[q]
         /\ req'[r].op \in ScoreOps /\ req'[r].pc \in {"balance", "unique", "start", "sum"}
         /\ req'[r].pc = "sum" <=> req'[r].op = "reconcile"
         /\ req'[r].pc = "start" <=> req'[r].op = "getScore"
         /\ DOMAIN req'[r].sums = {}
         /\ req'[r].op = "correct" =>
              events[req'[r].event].student = req'[r].student
<1>1. req[r].pc = "idle" /\ UNCHANGED scores /\ events' = events
  BY DEF RecordEvent, FindOriginal, GetScore, Reconcile, CanStart, scores
<1>2. CASE RecordEvent(r)
  <2>1. PICK s \in Student, d \in Dimension, k \in Kind :
          Begin(r, ScoreCall("recordEvent", "balance", s, d, k))
    BY <1>2 DEF RecordEvent
  <2>2. k \in [code : Code, points : Int]
    BY ScoreAssumption DEF Code
  <2>3. /\ req'[r] = ScoreCall("recordEvent", "balance", s, d, k)
        /\ \A q \in Req : q # r => req'[q] = req[q]
    BY <2>1 DEF Begin, Tabled
  <2>4. req'[r] \in ScoreRow /\ Fits(req'[r]) /\ DOMAIN req'[r].sums = {}
    BY <2>2, <2>3, ScoreCallFits
  <2>5. req'[r].op = "recordEvent" /\ req'[r].pc = "balance"
    BY <2>3 DEF ScoreCall
  <2>6. ScoreHandler(r)'
    BY <2>4, <2>5 DEF ScoreHandler, Fits
  <2> QED
    BY <1>1, <2>3, <2>4, <2>5, <2>6, ScoreStays DEF ScoreOps
<1>3. CASE FindOriginal(r)
  <2>1. PICK i \in DOMAIN events, d \in Dimension, asked \in Kind :
          Begin(r, [ScoreCall("correct", "unique", events[i].student, d,
                      [code |-> "CORRECTION", points |-> 0 - asked.points])
                    EXCEPT !.event = i, !.back = "lift"])
    BY <1>3 DEF FindOriginal
  <2>2. PICK k, s : k = [code |-> "CORRECTION", points |-> 0 - asked.points]
                    /\ s = events[i].student
    OBVIOUS
  <2>3. k \in [code : Code, points : Int] /\ s \in Student /\ i \in Nat
    BY <2>2, EventsAre, ScoreAssumption DEF Code, Event
  <2>4. /\ req'[r] = [ScoreCall("correct", "unique", s, d, k) EXCEPT !.event = i, !.back = "lift"]
        /\ \A q \in Req : q # r => req'[q] = req[q]
    BY <2>1, <2>2 DEF Begin, Tabled
  <2>5. req'[r] \in ScoreRow /\ Fits(req'[r]) /\ DOMAIN req'[r].sums = {}
    <3>1. PICK h : h = req'[r]
      OBVIOUS
    <3>2. \E e \in Dimension, l \in [code : Code, points : Int], j \in Nat :
            h = [ScoreCall("correct", "unique", s, e, l) EXCEPT !.event = j, !.back = "lift"]
      <4>1. h = [ScoreCall("correct", "unique", s, d, k) EXCEPT !.event = i, !.back = "lift"]
        BY <2>4, <3>1
      <4> QED
        BY ONLY <2>3, <4>1, d \in Dimension
    <3>3. h \in ScoreRow /\ Fits(h) /\ DOMAIN h.sums = {}
      BY ONLY <2>3, <3>2, ScoreCallFits
    <3> QED
      BY <3>1, <3>3
  <2>6. /\ req'[r].op = "correct" /\ req'[r].pc = "unique" /\ req'[r].event = i
        /\ req'[r].student = s
    BY <2>4 DEF ScoreCall
  <2>7. ScoreHandler(r)'
    BY <1>1, <2>5, <2>6 DEF ScoreHandler, Fits
  <2> QED
    BY <1>1, <2>2, <2>4, <2>5, <2>6, <2>7, ScoreStays DEF ScoreOps
<1>4. CASE GetScore(r)
  <2>1. PICK s \in Student : Begin(r, ScoreCall("getScore", "start", s, None, None))
    BY <1>4 DEF GetScore
  <2>2. /\ req'[r] = ScoreCall("getScore", "start", s, None, None)
        /\ \A q \in Req : q # r => req'[q] = req[q]
    BY <2>1 DEF Begin, Tabled
  <2>3. req'[r] \in ScoreRow /\ Fits(req'[r]) /\ DOMAIN req'[r].sums = {}
    BY <2>2, ScoreCallFits
  <2>4. req'[r].op = "getScore" /\ req'[r].pc = "start"
    BY <2>2 DEF ScoreCall
  <2>5. ScoreHandler(r)'
    BY <2>3, <2>4 DEF ScoreHandler, Fits
  <2> QED
    BY <1>1, <2>2, <2>3, <2>4, <2>5, ScoreStays DEF ScoreOps
<1>5. CASE Reconcile(r)
  <2>1. PICK s \in Student : Begin(r, ScoreCall("reconcile", "sum", s, None, None))
    BY <1>5 DEF Reconcile
  <2>2. /\ req'[r] = ScoreCall("reconcile", "sum", s, None, None)
        /\ \A q \in Req : q # r => req'[q] = req[q]
    BY <2>1 DEF Begin, Tabled
  <2>3. req'[r] \in ScoreRow /\ Fits(req'[r]) /\ DOMAIN req'[r].sums = {}
    BY <2>2, ScoreCallFits
  <2>4. req'[r].op = "reconcile" /\ req'[r].pc = "sum"
    BY <2>2 DEF ScoreCall
  <2>5. ScoreHandler(r)'
    BY <2>3, <2>4 DEF ScoreHandler, Fits
  <2> QED
    BY <1>1, <2>2, <2>3, <2>4, <2>5, ScoreStays DEF ScoreOps
<1> QED
  BY <1>2, <1>3, <1>4, <1>5

\* The balances and their weighted sum are scores.
LEMMA ActiveRows ==
  ASSUME ScoreInv, NEW s, NEW d
  PROVE  Rows(ActiveOf(s, d)) /\ ActiveOf(s, d) \subseteq DOMAIN events
<1>1. PICK n \in Nat : DOMAIN events = 1..n
  BY EventsAre
<1>2. IsFiniteSet(1..n)
  <2>1. n \in Int /\ 1 \in Int
    BY <1>1
  <2> QED
    BY ONLY <2>1, FS_Interval
<1>3. ActiveOf(s, d) \subseteq 1..n
  BY <1>1 DEF ActiveOf
<1>4. IsFiniteSet(ActiveOf(s, d))
  BY ONLY <1>2, <1>3, FS_Subset
<1> QED
  BY <1>1, <1>3, <1>4 DEF Rows

LEMMA ComputedInRange ==
  ASSUME ScoreInv, NEW s, NEW d
  PROVE  Computed(s, d) \in ScoreRange
<1>1. Rows(ActiveOf(s, d)) /\ ActiveOf(s, d) \subseteq DOMAIN events
  BY ActiveRows
<1>2. \A i \in ActiveOf(s, d) : events[i].points \in Int
  BY <1>1, EventsAre DEF Event
<1> QED
  BY <1>1, <1>2, ComputedIsRun, RunIsInRange

LEMMA AggregateInRange ==
  ASSUME NEW sums, \A d \in Dimension : sums[d] \in ScoreRange
  PROVE  Aggregate(sums) \in ScoreRange
<1> DEFINE m == [d \in Dimension |-> sums[d] * Weight[d]]
<1>1. \A d \in Dimension : m[d] \in Nat
  BY ScoreAssumption DEF ScoreRange, SCORE_MIN, SCORE_MAX
<1> HIDE DEF m
<1>2. Total(Dimension, m) \in Nat
  BY <1>1, TotalIsNat, ScoreAssumption
<1>3. PICK n \in Int : n = (Total(Dimension, m) + 50) \div 100
  BY <1>2
<1>4. Clamp(n) \in ScoreRange
  BY DEF Clamp, ScoreRange, SCORE_MIN, SCORE_MAX
<1> QED
  BY <1>3, <1>4, AggregateIsTotal DEF m

LEMMA EventsSuperseded ==
  ASSUME ScoreInv, NEW i \in DOMAIN events, events' = [events EXCEPT ![i].active = FALSE]
  PROVE  /\ events' \in Seq(Event) /\ DOMAIN events' = DOMAIN events
         /\ \A j \in DOMAIN events : events'[j] = [events[j] EXCEPT !.active = (j # i) /\ @]
<1>1. PICK R, e : R = Event /\ e = [events[i] EXCEPT !.active = FALSE]
  OBVIOUS
<1>2. events \in Seq(R) /\ e \in R /\ i \in 1..Len(events) /\ events' = [events EXCEPT ![i] = e]
  BY <1>1, EventsAre DEF ScoreInv, Event
<1>3. events' \in Seq(R) /\ DOMAIN events' = DOMAIN events
  BY ONLY <1>2
<1>4. ASSUME NEW j \in DOMAIN events
      PROVE  events'[j] = [events[j] EXCEPT !.active = (j # i) /\ @]
  <2>1. events[j] \in Event
    BY EventsAre
  <2>2. events'[j] = IF j = i THEN e ELSE events[j]
    BY <1>2
  <2> QED
    BY <1>1, <2>1, <2>2 DEF Event
<1> QED
  BY <1>1, <1>3, <1>4

LEMMA ScoreStatement ==
  ASSUME Tabled, EngineInv, ScoreInv, NEW r \in Req, Handles(r, CoreOps), ScoreStep(r),
         ~(RecordEvent(r) \/ FindOriginal(r) \/ GetScore(r) \/ Reconcile(r))
  PROVE  /\ req[r].pc \in ScorePc /\ req[r].op \in ScoreOps /\ req[r] \in ScoreRow /\ Fits(req[r])
         /\ req[r].op = "correct" => req[r].event \in DOMAIN events
         /\ \A q \in Req : q # r => req'[q] = req[q]
<1>1. req[r].pc \in ScorePc
  BY DEF ScoreStep, ReadBalance, InsertEvent, WriteBalance, SumDimension, ReadCeiling,
         WriteScore, CheckCorrective, Supersede, InsertCorrective, DuplicateCorrective,
         CheckCeiling, LiftCeiling, InsertScore, InitializeBalance, Compare, Report, Summed,
         At, ScorePc
<1> QED
  BY <1>1, ScoreAtWork, ScoreKeeps DEF Keeps

\* Where a statement of the score goes on to, and what it leaves.
LEMMA ScoreGoto ==
  ASSUME Tabled, EngineInv, ScoreInv, NEW r \in Req, Handles(r, CoreOps), ScoreStep(r),
         req[r].pc \in ScorePc, NEW pc \in ScorePc \cup Ended, Goto(r, pc)
  PROVE  /\ req'[r] \in ScoreRow /\ req'[r].pc = pc /\ req'[r].op = req[r].op
         /\ req'[r].back = req[r].back /\ req'[r].student = req[r].student
         /\ req'[r].dim = req[r].dim /\ req'[r].kind = req[r].kind /\ req'[r].event = req[r].event
         /\ req'[r].new = req[r].new /\ req'[r].sums = req[r].sums /\ req'[r].capped = req[r].capped
<1>1. PICK h, g : h = req[r] /\ g = req'[r]
  OBVIOUS
<1>2. h \in ScoreRow
  BY <1>1, ScoreAtWork
<1>3. g = [h EXCEPT !.pc = pc]
  BY <1>1 DEF Goto, Tabled
<1>4. /\ g \in ScoreRow /\ g.pc = pc /\ g.op = h.op /\ g.back = h.back /\ g.student = h.student
      /\ g.dim = h.dim /\ g.kind = h.kind /\ g.event = h.event /\ g.new = h.new
      /\ g.sums = h.sums /\ g.capped = h.capped
  BY ONLY <1>2, <1>3, RowMoves
<1> QED
  BY <1>1, <1>4

LEMMA ScoreRaise ==
  ASSUME Tabled, EngineInv, ScoreInv, NEW r \in Req, Handles(r, CoreOps), req[r].pc \in ScorePc,
         Raise(r)
  PROVE  /\ req'[r] \in ScoreRow /\ req'[r].pc = "failed" /\ req'[r].op = req[r].op
         /\ req'[r].back = req[r].back /\ req'[r].event = req[r].event
         /\ req'[r].sums = req[r].sums
<1>1. req[r] \in ScoreRow
  BY ScoreAtWork
<1>2. req'[r] = [req[r] EXCEPT !.pc = "failed", !.catch = "failed"]
  BY <1>1 DEF Raise, Tabled, ScoreRow
<1> QED
  BY <1>1, <1>2 DEF ScoreRow, Ended

\* A handler that goes on leaves what Fits asks of it, but where it comes to
\* has needs of its own.
LEMMA GoesFit ==
  ASSUME NEW h \in ScoreRow, NEW g \in ScoreRow, Fits(h), g.op = h.op, g.back = h.back,
         g.sums = h.sums, g.dim = h.dim, g.kind = h.kind, g.new = h.new,
         \/ g.pc \in Ended
         \/ /\ h.pc = "insert" /\ g.pc = "running"
         \/ /\ h.pc = "running" /\ g.pc = "sum"
         \/ /\ h.pc = "score" /\ g.pc = h.back
         \/ /\ h.pc = "unique" /\ g.pc = "supersede"
         \/ /\ h.pc = "supersede" /\ g.pc = "corrective"
         \/ /\ h.pc = "corrective" /\ g.pc = "balance"
         \/ /\ h.pc = "lift" /\ g.pc = "unlift"
         \/ /\ h.pc = "start" /\ g.pc = "initialize"
         \/ /\ h.pc = "sum" /\ g.pc = "report" /\ h.op = "reconcile"
  PROVE  Fits(g)
<1>1. h.op \in ScoreOps /\ h.back \in {"done", "lift"}
  BY DEF ScoreRow
<1> QED
  BY <1>1 DEF Fits, Ended, ScoreOps

LEMMA ClampInRange ==
  ASSUME NEW n \in Int
  PROVE  Clamp(n) \in ScoreRange
BY DEF Clamp, ScoreRange, SCORE_MIN, SCORE_MAX

LEMMA ScoreStepKeeps ==
  ASSUME Tabled, EngineInv, ScoreInv, NEW r \in Req, Handles(r, CoreOps), ScoreStep(r)
  PROVE  ScoreInv'
<1>0. CASE RecordEvent(r) \/ FindOriginal(r) \/ GetScore(r) \/ Reconcile(r)
  BY <1>0, ScoreArrives
<1> SUFFICES ASSUME ~(RecordEvent(r) \/ FindOriginal(r) \/ GetScore(r) \/ Reconcile(r))
             PROVE  ScoreInv'
  BY <1>0
<1>1. /\ req[r].pc \in ScorePc /\ req[r].op \in ScoreOps /\ req[r] \in ScoreRow /\ Fits(req[r])
      /\ req[r].op = "correct" => req[r].event \in DOMAIN events
      /\ \A q \in Req : q # r => req'[q] = req[q]
  BY ScoreStatement
<1>2. /\ req[r].student \in Student /\ req[r].back \in {"done", "lift"} /\ req[r].event \in Nat
      /\ req[r].capped \in BOOLEAN /\ req[r].sums \in Partial
  BY <1>1 DEF ScoreRow
<1>3. CASE ReadBalance(r)
  <2>1. req[r].pc = "balance" /\ UNCHANGED scores
    BY <1>3 DEF ReadBalance, At
  <2>2. req[r].dim \in Dimension /\ req[r].kind.points \in Int
    BY <1>1, <2>1 DEF Fits
  <2>3. PICK stored, new : /\ stored = balance[req[r].student][req[r].dim]
                           /\ new = NewBalance(stored, req[r].kind.points)
    OBVIOUS
  <2>4. stored \in ScoreRange \cup {None, NaN}
    BY <1>2, <2>2, <2>3 DEF ScoreInv
  <2>5. new \in Balance
    <3>1. SCORE_DEFAULT_FIRST_TIME + req[r].kind.points \in Int
      BY <2>2 DEF SCORE_DEFAULT_FIRST_TIME
    <3>2. Clamp(SCORE_DEFAULT_FIRST_TIME + req[r].kind.points) \in ScoreRange
      BY <3>1, ClampInRange
    <3> QED
      BY <2>3, <2>4, <3>2 DEF NewBalance, Balance
  <2>6. req'[r] = [req[r] EXCEPT !.new = new, !.pc = "insert"]
    BY <1>3, <2>3 DEF ReadBalance, Tabled
  <2>7. /\ req'[r] \in ScoreRow /\ req'[r].pc = "insert" /\ req'[r].op = req[r].op
        /\ req'[r].back = req[r].back /\ req'[r].dim = req[r].dim /\ req'[r].kind = req[r].kind
        /\ req'[r].new = new /\ req'[r].sums = req[r].sums /\ req'[r].event = req[r].event
    BY <1>1, <2>5, <2>6 DEF ScoreRow, ScorePc
  <2>8. Fits(req'[r])
    BY <1>1, <2>1, <2>5, <2>7 DEF Fits, Ended, ScoreOps
  <2>9. ScoreHandler(r)'
    BY <1>1, <2>1, <2>7, <2>8 DEF ScoreHandler, Fits, scores
  <2> QED
    BY <1>1, <2>1, <2>9, ScoreStays
<1>4. CASE InsertEvent(r)
  <2>1. req[r].pc = "insert" /\ Goto(r, "running") /\ UNCHANGED <<corrective, balance, forsa, integrity>>
    BY <1>4 DEF InsertEvent, At
  <2>2. PICK e : e = [student |-> req[r].student, dim |-> req[r].dim,
                      code |-> req[r].kind.code, points |-> req[r].kind.points,
                      active |-> TRUE, reference |-> req[r].event]
    OBVIOUS
  <2>3. events' = Append(events, e)
    BY <1>4, <2>2 DEF InsertEvent
  <2>4. e \in Event
    BY <1>1, <1>2, <2>1, <2>2 DEF Fits, Event
  <2>5. events' \in Seq(Event) /\ DOMAIN events \subseteq DOMAIN events'
    <3>1. PICK R : R = Event
      OBVIOUS
    <3>2. events \in Seq(R) /\ e \in R
      BY <2>4, <3>1 DEF ScoreInv
    <3>3. events' \in Seq(R) /\ DOMAIN events \subseteq DOMAIN events'
      BY ONLY <2>3, <3>2
    <3> QED
      BY <3>1, <3>3
  <2>6. /\ req'[r] \in ScoreRow /\ req'[r].pc = "running" /\ req'[r].op = req[r].op
        /\ req'[r].back = req[r].back /\ req'[r].dim = req[r].dim /\ req'[r].kind = req[r].kind
        /\ req'[r].new = req[r].new /\ req'[r].sums = req[r].sums /\ req'[r].event = req[r].event
    BY <1>1, <2>1, ScoreGoto DEF ScorePc
  <2>7. Fits(req'[r])
    BY <1>1, <2>1, <2>6, GoesFit
  <2>8. ScoreHandler(r)'
    BY <1>1, <2>5, <2>6, <2>7 DEF ScoreHandler, Fits
  <2> QED
    BY <1>1, <2>1, <2>5, <2>8, ScoreGoesOn DEF ScoreInv
<1>5. CASE WriteBalance(r)
  <2>1. req[r].pc = "running" /\ Goto(r, "sum") /\ UNCHANGED <<events, corrective, forsa, integrity>>
    BY <1>5 DEF WriteBalance, At
  <2>2. req[r].dim \in Dimension /\ req[r].new \in Balance
    BY <1>1, <2>1 DEF Fits
  <2>3. balance' \in [Student -> [Dimension -> ScoreRange \cup {None, NaN}]]
    BY <1>2, <1>5, <2>2 DEF WriteBalance, ScoreInv, Balance
  <2>4. /\ req'[r] \in ScoreRow /\ req'[r].pc = "sum" /\ req'[r].op = req[r].op
        /\ req'[r].back = req[r].back /\ req'[r].dim = req[r].dim /\ req'[r].kind = req[r].kind
        /\ req'[r].new = req[r].new /\ req'[r].sums = req[r].sums /\ req'[r].event = req[r].event
    BY <1>1, <2>1, ScoreGoto DEF ScorePc
  <2>5. Fits(req'[r])
    BY <1>1, <2>1, <2>4, GoesFit
  <2>6. ScoreHandler(r)'
    BY <1>1, <2>1, <2>4, <2>5 DEF ScoreHandler, Fits
  <2> QED
    BY <1>1, <2>1, <2>3, <2>6, ScoreGoesOn DEF ScoreInv
<1>6. CASE SumDimension(r)
  <2>1. /\ req[r].pc = "sum" /\ UNCHANGED scores /\ Dimension \ DOMAIN req[r].sums # {}
    BY <1>6 DEF SumDimension, At
  <2>2. PICK d, n, sums :
          /\ d = CHOOSE x \in Dimension \ DOMAIN req[r].sums : TRUE
          /\ n = Computed(req[r].student, d)
          /\ sums = [c \in DOMAIN req[r].sums \cup {d} |-> IF c = d THEN n ELSE req[r].sums[c]]
    OBVIOUS
  <2>3. req'[r] = [req[r] EXCEPT !.sums = sums]
    BY <1>6, <2>2 DEF SumDimension, Tabled
  <2>4. d \in Dimension /\ n \in ScoreRange
    BY <2>1, <2>2, ComputedInRange
  <2>5. sums \in Partial /\ DOMAIN sums = DOMAIN req[r].sums \cup {d}
    <3>1. PICK D \in SUBSET Dimension : req[r].sums \in [D -> {0} \cup ScoreRange]
      BY <1>2 DEF Partial
    <3>2. sums \in [D \cup {d} -> {0} \cup ScoreRange] /\ D \cup {d} \in SUBSET Dimension
      BY <2>2, <2>4, <3>1
    <3> QED
      BY <2>2, <3>2 DEF Partial
  <2>6. req[r].op # "getScore" /\ \A c \in DOMAIN req[r].sums : req[r].sums[c] \in ScoreRange
    BY <1>1, <2>1 DEF Fits, Ended
  <2>7. \A c \in DOMAIN sums : sums[c] \in ScoreRange
    BY <2>2, <2>4, <2>6
  <2>8. /\ req'[r] \in ScoreRow /\ req'[r].pc = "sum" /\ req'[r].op = req[r].op
        /\ req'[r].back = req[r].back /\ req'[r].sums = sums /\ req'[r].event = req[r].event
    BY <1>1, <2>1, <2>3, <2>5 DEF ScoreRow
  <2>9. Fits(req'[r])
    BY <1>1, <2>1, <2>7, <2>8 DEF Fits, Ended
  <2>10. ScoreHandler(r)'
    BY <1>1, <2>1, <2>8, <2>9 DEF ScoreHandler, Fits, scores
  <2> QED
    BY <1>1, <2>1, <2>10, ScoreStays
<1>7. CASE ReadCeiling(r)
  <2>1. /\ req[r].pc = "sum" /\ UNCHANGED scores /\ DOMAIN req[r].sums = Dimension
        /\ req[r].op # "reconcile"
    BY <1>7 DEF ReadCeiling, Summed, At
  <2>2. PICK c \in BOOLEAN : c = CeilingEvent(req[r].student)
    BY DEF CeilingEvent
  <2>3. req'[r] = [req[r] EXCEPT !.capped = c, !.pc = "score"]
    BY <1>7, <2>2 DEF ReadCeiling, Tabled
  <2>4. /\ req'[r] \in ScoreRow /\ req'[r].pc = "score" /\ req'[r].op = req[r].op
        /\ req'[r].back = req[r].back /\ req'[r].sums = req[r].sums /\ req'[r].event = req[r].event
    BY <1>1, <2>3 DEF ScoreRow, ScorePc
  <2>5. Fits(req'[r])
    BY <1>1, <2>1, <2>4 DEF Fits, Ended, ScoreOps
  <2>6. ScoreHandler(r)'
    BY <1>1, <2>1, <2>4, <2>5 DEF ScoreHandler, Fits, scores
  <2> QED
    BY <1>1, <2>1, <2>6, ScoreStays
<1>8. CASE WriteScore(r)
  <2>1. req[r].pc = "score" /\ Goto(r, req[r].back) /\ UNCHANGED <<events, corrective, balance, integrity>>
    BY <1>8 DEF WriteScore, At, Return
  <2>2. PICK n, score : /\ n = Aggregate(req[r].sums)
                        /\ score = IF req[r].capped THEN Capped(n) ELSE n
    OBVIOUS
  <2>3. n \in ScoreRange
    <3>1. DOMAIN req[r].sums = Dimension /\ \A d \in Dimension : req[r].sums[d] \in ScoreRange
      BY <1>1, <2>1 DEF Fits, Ended
    <3> QED
      BY <2>2, <3>1, AggregateInRange
  <2>4. score \in ScoreRange
    BY <2>2, <2>3, ScoreAssumption DEF Capped, ScoreRange
  <2>5. forsa' = [forsa EXCEPT ![req[r].student] = [score |-> score, ceiling |-> req[r].capped]]
    BY <1>8, <2>2 DEF WriteScore
  <2>6. /\ forsa' \in [Student -> [score : ScoreRange \cup {None}, ceiling : BOOLEAN]]
        /\ \A s \in Student : forsa'[s].score = None => ~forsa'[s].ceiling
    <3>1. score # None
      BY <2>4, ScoreAssumption DEF ScoreRange, SCORE_MIN, SCORE_MAX
    <3> QED
      BY <1>2, <2>4, <2>5, <3>1 DEF ScoreInv
  <2>7. /\ req'[r] \in ScoreRow /\ req'[r].pc = req[r].back /\ req'[r].op = req[r].op
        /\ req'[r].back = req[r].back /\ req'[r].dim = req[r].dim /\ req'[r].kind = req[r].kind
        /\ req'[r].new = req[r].new /\ req'[r].sums = req[r].sums /\ req'[r].event = req[r].event
    BY <1>1, <1>2, <2>1, ScoreGoto DEF ScorePc, Ended
  <2>8. Fits(req'[r])
    BY <1>1, <2>1, <2>7, GoesFit
  <2>9. ScoreHandler(r)'
    BY <1>1, <2>1, <2>7, <2>8 DEF ScoreHandler, Fits
  <2> QED
    BY <1>1, <2>1, <2>6, <2>9, ScoreGoesOn DEF ScoreInv
<1>9. CASE CheckCorrective(r) \/ DuplicateCorrective(r)
  <2>1. /\ req[r].pc \in {"unique", "corrective"} /\ UNCHANGED scores
        /\ \/ Goto(r, "supersede") /\ req[r].pc = "unique"
           \/ Raise(r)
    BY <1>9 DEF CheckCorrective, DuplicateCorrective, At
  <2>2. CASE Goto(r, "supersede") /\ req[r].pc = "unique"
    <3>1. /\ req'[r] \in ScoreRow /\ req'[r].pc = "supersede" /\ req'[r].op = req[r].op
          /\ req'[r].back = req[r].back /\ req'[r].dim = req[r].dim /\ req'[r].kind = req[r].kind
          /\ req'[r].new = req[r].new /\ req'[r].sums = req[r].sums /\ req'[r].event = req[r].event
      BY <1>1, <2>2, ScoreGoto DEF ScorePc
    <3>2. Fits(req'[r])
      BY <1>1, <2>2, <3>1, GoesFit
    <3>3. ScoreHandler(r)'
      BY <1>1, <2>1, <3>1, <3>2 DEF ScoreHandler, Fits, scores
    <3> QED
      BY <1>1, <2>1, <3>3, ScoreStays
  <2>3. CASE Raise(r)
    <3>1. /\ req'[r] \in ScoreRow /\ req'[r].pc = "failed" /\ req'[r].op = req[r].op
          /\ req'[r].back = req[r].back /\ req'[r].event = req[r].event
          /\ req'[r].sums = req[r].sums
      BY <1>1, <2>3, ScoreRaise
    <3>2. ScoreHandler(r)'
      BY <1>1, <2>1, <3>1 DEF ScoreHandler, Fits, scores, Ended
    <3> QED
      BY <1>1, <2>1, <3>2, ScoreStays
  <2> QED
    BY <2>1, <2>2, <2>3
<1>10. CASE Supersede(r)
  <2>1. /\ req[r].pc = "supersede" /\ Goto(r, "corrective")
        /\ UNCHANGED <<corrective, balance, forsa, integrity>>
        /\ events' = [events EXCEPT ![req[r].event].active = FALSE]
    BY <1>10 DEF Supersede, At
  <2>2. req[r].op = "correct" /\ req[r].event \in DOMAIN events
    BY <1>1, <2>1 DEF Fits, Ended, ScoreOps
  <2>3. events' \in Seq(Event) /\ DOMAIN events' = DOMAIN events
    BY <2>1, <2>2, EventsSuperseded
  <2>4. /\ req'[r] \in ScoreRow /\ req'[r].pc = "corrective" /\ req'[r].op = req[r].op
        /\ req'[r].back = req[r].back /\ req'[r].dim = req[r].dim /\ req'[r].kind = req[r].kind
        /\ req'[r].new = req[r].new /\ req'[r].sums = req[r].sums /\ req'[r].event = req[r].event
    BY <1>1, <2>1, ScoreGoto DEF ScorePc
  <2>5. Fits(req'[r])
    BY <1>1, <2>1, <2>4, GoesFit
  <2>6. ScoreHandler(r)'
    BY <1>1, <2>3, <2>4, <2>5 DEF ScoreHandler, Fits
  <2> QED
    BY <1>1, <2>1, <2>3, <2>6, ScoreGoesOn DEF ScoreInv
<1>11. CASE InsertCorrective(r)
  <2>1. /\ req[r].pc = "corrective" /\ Goto(r, "balance")
        /\ UNCHANGED <<events, balance, forsa, integrity>>
        /\ corrective' = [corrective EXCEPT ![r] = req[r].event]
    BY <1>11 DEF InsertCorrective, At
  <2>2. corrective' \in [Req -> Nat]
    BY <1>2, <2>1 DEF ScoreInv
  <2>3. /\ req'[r] \in ScoreRow /\ req'[r].pc = "balance" /\ req'[r].op = req[r].op
        /\ req'[r].back = req[r].back /\ req'[r].dim = req[r].dim /\ req'[r].kind = req[r].kind
        /\ req'[r].new = req[r].new /\ req'[r].sums = req[r].sums /\ req'[r].event = req[r].event
    BY <1>1, <2>1, ScoreGoto DEF ScorePc
  <2>4. Fits(req'[r])
    BY <1>1, <2>1, <2>3, GoesFit
  <2>5. ScoreHandler(r)'
    BY <1>1, <2>1, <2>3, <2>4 DEF ScoreHandler, Fits
  <2> QED
    BY <1>1, <2>1, <2>2, <2>5, ScoreGoesOn DEF ScoreInv
<1>12. CASE CheckCeiling(r) \/ Compare(r)
  <2>1. /\ UNCHANGED scores
        /\ \/ Goto(r, "done")
           \/ Goto(r, "unlift") /\ req[r].pc = "lift"
           \/ Goto(r, "report") /\ req[r].pc = "sum" /\ req[r].op = "reconcile"
    BY <1>12 DEF CheckCeiling, Compare, At, Summed
  <2>2. PICK pc \in {"done", "unlift", "report"} :
          /\ Goto(r, pc)
          /\ pc = "unlift" => req[r].pc = "lift"
          /\ pc = "report" => req[r].pc = "sum" /\ req[r].op = "reconcile"
    BY <2>1
  <2>3. /\ req'[r] \in ScoreRow /\ req'[r].pc = pc /\ req'[r].op = req[r].op
        /\ req'[r].back = req[r].back /\ req'[r].dim = req[r].dim /\ req'[r].kind = req[r].kind
        /\ req'[r].new = req[r].new /\ req'[r].sums = req[r].sums /\ req'[r].event = req[r].event
    BY <1>1, <2>2, ScoreGoto DEF ScorePc, Ended
  <2>4. Fits(req'[r])
    BY <1>1, <2>2, <2>3, GoesFit DEF Ended
  <2>5. ScoreHandler(r)'
    BY <1>1, <2>1, <2>3, <2>4 DEF ScoreHandler, Fits, scores
  <2> QED
    BY <1>1, <2>1, <2>5, ScoreStays
<1>13. CASE LiftCeiling(r)
  <2>1. /\ req[r].pc = "unlift" /\ Goto(r, "done") /\ UNCHANGED <<events, corrective, balance, integrity>>
        /\ forsa' = [forsa EXCEPT ![req[r].student].ceiling = FALSE]
    BY <1>13 DEF LiftCeiling, At
  <2>2. /\ forsa' \in [Student -> [score : ScoreRange \cup {None}, ceiling : BOOLEAN]]
        /\ \A s \in Student : forsa'[s].score = None => ~forsa'[s].ceiling
    BY <1>2, <2>1 DEF ScoreInv
  <2>3. /\ req'[r] \in ScoreRow /\ req'[r].pc = "done" /\ req'[r].op = req[r].op
        /\ req'[r].back = req[r].back /\ req'[r].dim = req[r].dim /\ req'[r].kind = req[r].kind
        /\ req'[r].new = req[r].new /\ req'[r].sums = req[r].sums /\ req'[r].event = req[r].event
    BY <1>1, <2>1, ScoreGoto DEF Ended
  <2>4. Fits(req'[r])
    BY <1>1, <2>3, GoesFit DEF Ended
  <2>5. ScoreHandler(r)'
    BY <1>1, <2>1, <2>3, <2>4 DEF ScoreHandler, Fits
  <2> QED
    BY <1>1, <2>1, <2>2, <2>5, ScoreGoesOn DEF ScoreInv
<1>14. CASE InsertScore(r)
  <2>1. req[r].pc = "start" /\ UNCHANGED <<events, corrective, balance, integrity>>
    BY <1>14 DEF InsertScore, At
  <2>2. CASE forsa[req[r].student] = NoScore
    <3>1. /\ Goto(r, "initialize")
          /\ forsa' = [forsa EXCEPT ![req[r].student] =
                         [score |-> SCORE_DEFAULT_FIRST_TIME, ceiling |-> FALSE]]
      BY <1>14, <2>2 DEF InsertScore
    <3>2. /\ forsa' \in [Student -> [score : ScoreRange \cup {None}, ceiling : BOOLEAN]]
          /\ \A s \in Student : forsa'[s].score = None => ~forsa'[s].ceiling
      BY <1>2, <3>1 DEF ScoreInv, ScoreRange, SCORE_MIN, SCORE_MAX, SCORE_DEFAULT_FIRST_TIME
    <3>3. /\ req'[r] \in ScoreRow /\ req'[r].pc = "initialize" /\ req'[r].op = req[r].op
          /\ req'[r].back = req[r].back /\ req'[r].dim = req[r].dim /\ req'[r].kind = req[r].kind
          /\ req'[r].new = req[r].new /\ req'[r].sums = req[r].sums /\ req'[r].event = req[r].event
      BY <1>1, <3>1, ScoreGoto DEF ScorePc
    <3>4. Fits(req'[r])
      BY <1>1, <2>1, <3>3, GoesFit
    <3>5. ScoreHandler(r)'
      BY <1>1, <2>1, <3>3, <3>4 DEF ScoreHandler, Fits
    <3> QED
      BY <1>1, <2>1, <3>2, <3>5, ScoreGoesOn DEF ScoreInv
  <2>3. CASE forsa[req[r].student] # NoScore
    <3>1. Raise(r) /\ forsa' = forsa
      BY <1>14, <2>3 DEF InsertScore
    <3>2. /\ req'[r] \in ScoreRow /\ req'[r].pc = "failed" /\ req'[r].op = req[r].op
          /\ req'[r].back = req[r].back /\ req'[r].event = req[r].event
          /\ req'[r].sums = req[r].sums
      BY <1>1, <3>1, ScoreRaise
    <3>3. ScoreHandler(r)'
      BY <1>1, <2>1, <3>2 DEF ScoreHandler, Fits, Ended
    <3> QED
      BY <1>1, <2>1, <3>1, <3>3, ScoreStays DEF scores
  <2> QED
    BY <2>2, <2>3
<1>15. CASE InitializeBalance(r)
  <2>1. req[r].pc = "initialize" /\ UNCHANGED <<events, corrective, forsa, integrity>>
    BY <1>15 DEF InitializeBalance, At
  <2>2. req[r].op = "getScore"
    BY <1>1, <2>1 DEF Fits, Ended, ScoreOps
  <2>3. CASE Dimension \ DOMAIN req[r].sums = {}
    <3>1. Goto(r, "done") /\ balance' = balance
      BY <1>15, <2>3 DEF InitializeBalance
    <3>2. /\ req'[r] \in ScoreRow /\ req'[r].pc = "done" /\ req'[r].op = req[r].op
          /\ req'[r].back = req[r].back /\ req'[r].dim = req[r].dim /\ req'[r].kind = req[r].kind
          /\ req'[r].new = req[r].new /\ req'[r].sums = req[r].sums /\ req'[r].event = req[r].event
      BY <1>1, <3>1, ScoreGoto DEF Ended
    <3>3. Fits(req'[r])
      BY <1>1, <3>2, GoesFit DEF Ended
    <3>4. ScoreHandler(r)'
      BY <1>1, <2>1, <3>2, <3>3 DEF ScoreHandler, Fits
    <3> QED
      BY <1>1, <2>1, <3>1, <3>4, ScoreStays DEF scores
  <2>4. CASE Dimension \ DOMAIN req[r].sums # {}
    <3>1. PICK d, sums : /\ d = CHOOSE x \in Dimension \ DOMAIN req[r].sums : TRUE
                         /\ sums = [c \in DOMAIN req[r].sums \cup {d} |-> 0]
      OBVIOUS
    <3>2. d \in Dimension
      BY <2>4, <3>1
    <3>3. /\ req'[r] = [req[r] EXCEPT !.sums = sums]
          /\ balance' = [balance EXCEPT ![req[r].student][d] =
                           IF @ = None THEN SCORE_DEFAULT_FIRST_TIME ELSE @]
      BY <1>15, <2>4, <3>1 DEF InitializeBalance, Tabled
    <3>4. balance' \in [Student -> [Dimension -> ScoreRange \cup {None, NaN}]]
      <4>1. PICK V : V = ScoreRange \cup {None, NaN}
        OBVIOUS
      <4>2. balance \in [Student -> [Dimension -> V]] /\ SCORE_DEFAULT_FIRST_TIME \in V
        <5>1. balance \in [Student -> [Dimension -> V]]
          BY <4>1 DEF ScoreInv
        <5>2. SCORE_DEFAULT_FIRST_TIME \in ScoreRange
          BY DEF ScoreRange, SCORE_MIN, SCORE_MAX, SCORE_DEFAULT_FIRST_TIME
        <5> QED
          BY <4>1, <5>1, <5>2
      <4>3. PICK v \in V : v = IF balance[req[r].student][d] = None THEN SCORE_DEFAULT_FIRST_TIME
                              ELSE balance[req[r].student][d]
        BY <1>2, <3>2, <4>2
      <4>4. balance' = [balance EXCEPT ![req[r].student] = [balance[req[r].student] EXCEPT ![d] = v]]
        BY <1>2, <3>2, <3>3, <4>2, <4>3
      <4>5. balance' \in [Student -> [Dimension -> V]]
        BY <1>2, <3>2, <4>2, <4>4
      <4> QED
        BY <4>1, <4>5
    <3>5. sums \in Partial
      <4>1. DOMAIN req[r].sums \in SUBSET Dimension
        BY <1>2 DEF Partial
      <4>2. sums \in [DOMAIN req[r].sums \cup {d} -> {0} \cup ScoreRange]
        BY <3>1
      <4> QED
        BY <3>2, <4>1, <4>2 DEF Partial
    <3>6. /\ req'[r] \in ScoreRow /\ req'[r].pc = "initialize" /\ req'[r].op = "getScore"
          /\ req'[r].back = req[r].back
      BY <1>1, <2>1, <2>2, <3>3, <3>5 DEF ScoreRow
    <3>7. Fits(req'[r])
      BY <1>1, <2>2, <3>6 DEF Fits, Ended
    <3>8. ScoreHandler(r)'
      BY <3>6, <3>7 DEF ScoreHandler, Fits
    <3> QED
      BY <1>1, <2>1, <3>4, <3>8, ScoreGoesOn DEF ScoreInv
  <2> QED
    BY <2>3, <2>4
<1>16. CASE Report(r)
  <2>1. /\ req[r].pc = "report" /\ Goto(r, "done") /\ UNCHANGED <<events, corrective, balance, forsa>>
        /\ integrity' = integrity \cup {req[r].student}
    BY <1>16 DEF Report, At
  <2>2. integrity' \subseteq Student
    BY <1>2, <2>1 DEF ScoreInv
  <2>3. /\ req'[r] \in ScoreRow /\ req'[r].pc = "done" /\ req'[r].op = req[r].op
        /\ req'[r].back = req[r].back /\ req'[r].dim = req[r].dim /\ req'[r].kind = req[r].kind
        /\ req'[r].new = req[r].new /\ req'[r].sums = req[r].sums /\ req'[r].event = req[r].event
    BY <1>1, <2>1, ScoreGoto DEF Ended
  <2>4. Fits(req'[r])
    BY <1>1, <2>3, GoesFit DEF Ended
  <2>5. ScoreHandler(r)'
    BY <1>1, <2>1, <2>3, <2>4 DEF ScoreHandler, Fits
  <2> QED
    BY <1>1, <2>1, <2>2, <2>5, ScoreGoesOn DEF ScoreInv
<1> QED
  BY <1>3, <1>4, <1>5, <1>6, <1>7, <1>8, <1>9, <1>10, <1>11, <1>12, <1>13, <1>14, <1>15, <1>16
     DEF ScoreStep

\* What a step of another service leaves of the score, and what a failure does.
LEMMA ScoreElsewhere ==
  ASSUME ScoreInv, NEW r \in Req, \A q \in Req : q # r => req'[q] = req[q], UNCHANGED scores,
         req'[r].op \notin ScoreOps
  PROVE  ScoreInv'
<1>1. ScoreHandler(r)'
  BY DEF ScoreHandler
<1> QED
  BY <1>1, ScoreStays

LEMMA ScoreBreaks ==
  ASSUME Tabled, ScoreInv, NEW r \in Req, Break(r)
  PROVE  /\ ScoreInv' /\ UNCHANGED scores /\ \A q \in Req : q # r => req'[q] = req[q]
         /\ req'[r].op = req[r].op
         /\ req[r].op \in ScoreOps =>
              /\ req'[r].pc = "died" \/ (req'[r].pc = "failed" /\ req[r].op \in MayThrow)
              /\ req'[r].student = req[r].student /\ req'[r].event = req[r].event
<1>1. /\ UNCHANGED core /\ \A q \in Req : q # r => req'[q] = req[q]
      /\ req'[r].op = req[r].op
      /\ \/ req[r].catch # None
            /\ req'[r] = [req[r] EXCEPT !.pc = req[r].catch, !.catch = "failed"]
         \/ req'[r] = [req[r] EXCEPT !.pc = "died"]
  BY BreakEnds
<1>2. UNCHANGED scores
  BY <1>1 DEF core
<1>3. CASE req[r].op \notin ScoreOps
  BY <1>1, <1>2, <1>3, ScoreElsewhere
<1>4. CASE req[r].op \in ScoreOps
  <2>1. /\ req[r] \in ScoreRow
        /\ req[r].op = "correct" => req[r].event \in DOMAIN events
        /\ Fits(req[r])
    BY <1>4 DEF ScoreInv, ScoreHandler
  <2>2. req'[r] \in {[req[r] EXCEPT !.pc = "failed", !.catch = "failed"], [req[r] EXCEPT !.pc = "died"]}
    BY <1>1, <2>1 DEF ScoreRow
  <2>3. /\ req'[r] \in ScoreRow /\ req'[r].pc \in {"failed", "died"} /\ req'[r].op = req[r].op
        /\ req'[r].back = req[r].back /\ req'[r].event = req[r].event
        /\ req'[r].sums = req[r].sums /\ req'[r].student = req[r].student
    BY <2>1, <2>2 DEF ScoreRow, Ended
  <2>4. ScoreHandler(r)'
    BY <1>2, <2>1, <2>3 DEF ScoreHandler, Fits, scores, Ended
  <2>5. ScoreInv'
    BY <1>1, <1>2, <2>4, ScoreStays
  <2>6. req'[r].pc = "died" \/ (req'[r].pc = "failed" /\ req[r].op \in MayThrow)
    BY <2>1, <2>3 DEF Break, Throw, Crash, Raise, Tabled, ScoreRow
  <2> QED
    BY <1>1, <1>2, <2>3, <2>5, <2>6
<1> QED
  BY <1>3, <1>4

\* What a step may be to the score: one of the score's own, or one that leaves it alone.
LEMMA ScoreOrElse ==
  ASSUME Tabled, EngineInv, NEW r \in Req, Step(r)
  PROVE  \/ ScoreStep(r) /\ Handles(r, CoreOps)
         \/ UNCHANGED scores /\ req[r].op \notin ScoreOps /\ req'[r].op \notin ScoreOps
<1>1. CASE CoreStep(r) /\ Handles(r, CoreOps)
  BY <1>1, AtScore
<1>2. CASE UNCHANGED core /\ Away(r, CoreOps)
  BY <1>2 DEF core, Away, CoreOps, ScoreOps
<1> QED
  BY <1>1, <1>2, AtCore

LEMMA AlwaysScore == Spec => []ScoreInv
<1>1. Tabled /\ EngineInv /\ ScoreInv /\ [Next]_vars => ScoreInv'
  <2> SUFFICES ASSUME Tabled, EngineInv, ScoreInv, [Next]_vars PROVE ScoreInv'
    OBVIOUS
  <2>1. CASE UNCHANGED vars
    <3>1. /\ events' = events /\ corrective' = corrective /\ balance' = balance
          /\ forsa' = forsa /\ integrity' = integrity /\ req' = req
      BY <2>1 DEF vars, server, core, scores
    <3> QED
      BY <3>1 DEF ScoreInv, ScoreHandler
  <2>2. ASSUME NEW r \in Req, Step(r)
        PROVE  ScoreInv'
    <3>1. \A q \in Req : q # r => req'[q] = req[q]
      BY <2>2, StepKeeps DEF Keeps
    <3> QED
      BY <2>2, <3>1, ScoreOrElse, ScoreStepKeeps, ScoreElsewhere
  <2>3. ASSUME NEW r \in Req, Break(r)
        PROVE  ScoreInv'
    BY <2>3, ScoreBreaks
  <2> QED
    BY <2>1, <2>2, <2>3 DEF Next
<1> QED
  BY <1>1, ScoreBegins, AlwaysTabled, EngineInvariant, PTL DEF Spec

-------------------------------------------------------------------------------
(***************************************************************************)
(* The ceiling.  A fraud or breach that counts is shown, or the handler     *)
(* that will show it is on its way (or was cut off by the end of the        *)
(* process).                                                                *)
(***************************************************************************)
Rater(r)  == req[r].op \in {"recordEvent", "correct"}
ScoreCut  == \E r \in Req : Rater(r) /\ req[r].pc = "died"
Rating(r) == Rater(r) /\ req[r].pc \in {"running", "sum", "score"}
Under(s)  == forsa[s].ceiling /\ forsa[s].score # None /\ forsa[s].score <= Ceiling

\* What the handler of a student read of the ceiling is still so.
Informed(r) ==
  /\ Rater(r) /\ req[r].pc = "score" /\ StillSerious(req[r].student) => req[r].capped
  /\ Rater(r) /\ req[r].pc = "unlift" => ~StillSerious(req[r].student)

CapInv ==
  /\ \A s \in Student : StillSerious(s) =>
       Under(s) \/ \E r \in Req : Rating(r) /\ req[r].student = s
  /\ \A r \in Req : Informed(r)

LEMMA CapGoesOn ==
  ASSUME CapInv, NEW r \in Req, Turn(r), \A q \in Req : q # r => req'[q] = req[q],
         ASSUME NEW s \in Student, StillSerious(s)'
         PROVE  Under(s)' \/ (Rating(r)' /\ req'[r].student = s),
         Informed(r)'
  PROVE  CapInv'
<1>1. ASSUME NEW s \in Student, StillSerious(s)'
      PROVE  (Under(s) \/ \E q \in Req : Rating(q) /\ req[q].student = s)'
  BY <1>1
<1>2. ASSUME NEW q \in Req, q # r
      PROVE  Informed(q)'
  <2>1. req'[q] = req[q] /\ req[q].pc \in Ended \cup {"idle"}
    BY <1>2, ServerAssumption DEF Turn, Req
  <2> QED
    BY <2>1 DEF Informed, Ended
<1> QED
  BY <1>1, <1>2 DEF CapInv

\* The students with a fraud or breach, when no handler but r rates anybody.
LEMMA CappedBut ==
  ASSUME CapInv, NEW r \in Req, Turn(r), NEW s \in Student, StillSerious(s)
  PROVE  Under(s) \/ (Rating(r) /\ req[r].student = s)
<1>1. ASSUME NEW q \in Req, q # r
      PROVE  ~Rating(q)
  <2>1. req[q].pc \in Ended \cup {"idle"}
    BY <1>1, ServerAssumption DEF Turn, Req
  <2> QED
    BY <2>1 DEF Rating, Ended
<1> QED
  BY <1>1 DEF CapInv

\* A step that changes neither the events nor the score.
LEMMA CapRests ==
  ASSUME CapInv, NEW r \in Req, Turn(r), \A q \in Req : q # r => req'[q] = req[q],
         UNCHANGED <<events, forsa>>,
         Rating(r) => Rating(r)' /\ req'[r].student = req[r].student,
         Informed(r)'
  PROVE  CapInv'
<1>1. ASSUME NEW s \in Student, StillSerious(s)'
      PROVE  Under(s)' \/ (Rating(r)' /\ req'[r].student = s)
  <2>1. StillSerious(s)
    BY <1>1 DEF StillSerious
  <2>2. Under(s) \/ (Rating(r) /\ req[r].student = s)
    BY <2>1, CappedBut
  <2> QED
    BY <2>2 DEF Under
<1> QED
  BY <1>1, CapGoesOn

LEMMA SeriousIsSeen ==
  ASSUME NEW s, StillSerious(s)
  PROVE  CeilingEvent(s)
BY DEF StillSerious, CeilingEvent

LEMMA CapStep ==
  ASSUME Tabled, EngineInv, ScoreInv, CapInv, NEW r \in Req, Turn(r), Handles(r, CoreOps),
         ScoreStep(r)
  PROVE  CapInv'
<1>0. CASE RecordEvent(r) \/ FindOriginal(r) \/ GetScore(r) \/ Reconcile(r)
  <2>1. /\ req[r].pc = "idle" /\ UNCHANGED scores
        /\ \A q \in Req : q # r => req'[q] = req[q]
        /\ req'[r].pc \in {"balance", "unique", "start", "sum"}
    BY <1>0, ScoreArrives
  <2>2. ~Rating(r) /\ Informed(r)' /\ UNCHANGED <<events, forsa>>
    BY <2>1 DEF Rating, Informed, scores
  <2> QED
    BY <2>1, <2>2, CapRests
<1> SUFFICES ASSUME ~(RecordEvent(r) \/ FindOriginal(r) \/ GetScore(r) \/ Reconcile(r))
             PROVE  CapInv'
  BY <1>0
<1>1. /\ req[r].pc \in ScorePc /\ req[r].op \in ScoreOps /\ req[r] \in ScoreRow /\ Fits(req[r])
      /\ \A q \in Req : q # r => req'[q] = req[q]
  BY ScoreStatement
<1>2. PICK s0 \in Student : s0 = req[r].student
  BY <1>1 DEF ScoreRow
<1>3. CASE ReadBalance(r) \/ InsertCorrective(r) \/ CheckCorrective(r) \/ DuplicateCorrective(r)
           \/ InitializeBalance(r) \/ Report(r) \/ Compare(r)
  <2>1. /\ req[r].pc \in {"balance", "corrective", "unique", "initialize", "report", "sum"}
        /\ req[r].pc = "sum" => req[r].op = "reconcile"
        /\ UNCHANGED <<events, forsa>>
    BY <1>3 DEF ReadBalance, InsertCorrective, CheckCorrective, DuplicateCorrective,
       InitializeBalance, Report, Compare, Summed, At, scores
  <2>2. ~Rating(r)
    BY <2>1 DEF Rating, Rater
  <2>3. req'[r].pc \notin {"score", "unlift"}
    <3>1. CASE ReadBalance(r)
      BY <1>1, <3>1 DEF ReadBalance, Tabled, ScoreRow
    <3>2. CASE InitializeBalance(r) /\ Dimension \ DOMAIN req[r].sums # {}
      <4>1. \E sums : req'[r] = [req[r] EXCEPT !.sums = sums]
        BY <3>2 DEF InitializeBalance, Tabled
      <4> QED
        BY <1>1, <2>1, <4>1 DEF ScoreRow
    <3>3. CASE ~(ReadBalance(r) \/ (InitializeBalance(r) /\ Dimension \ DOMAIN req[r].sums # {}))
      <4>1. Raise(r) \/ \E pc \in {"balance", "supersede", "done", "report"} : Goto(r, pc)
        BY <1>3, <3>3 DEF InsertCorrective, CheckCorrective, DuplicateCorrective,
           InitializeBalance, Report, Compare
      <4> QED
        BY <1>1, <4>1, ScoreRaise DEF Goto, Tabled, ScoreRow
    <3> QED
      BY <3>1, <3>2, <3>3
  <2> QED
    BY <1>1, <2>1, <2>2, <2>3, CapRests DEF Informed
<1>4. CASE InsertEvent(r)
  <2>1. req[r].pc = "insert" /\ Goto(r, "running") /\ forsa' = forsa
    BY <1>4 DEF InsertEvent, At
  <2>2. PICK e : e = [student |-> req[r].student, dim |-> req[r].dim,
                      code |-> req[r].kind.code, points |-> req[r].kind.points,
                      active |-> TRUE, reference |-> req[r].event]
    OBVIOUS
  <2>3. events' = Append(events, e) /\ e.student = s0
    BY <1>2, <1>4, <2>2 DEF InsertEvent
  <2>4. /\ req'[r].pc = "running" /\ req'[r].op = req[r].op /\ req'[r].student = s0
    BY <1>1, <1>2, <2>1, ScoreGoto DEF ScorePc
  <2>5. req[r].op \in {"recordEvent", "correct"} /\ ~Rating(r)
    BY <1>1, <2>1 DEF Fits, Ended, ScoreOps, Rating
  <2>6. ASSUME NEW s \in Student, StillSerious(s)'
        PROVE  Under(s)' \/ (Rating(r)' /\ req'[r].student = s)
    <3>1. CASE s = s0
      BY <2>4, <2>5, <3>1 DEF Rating, Rater
    <3>2. CASE s # s0
      <4>1. PICK i \in DOMAIN events' : /\ events'[i].student = s /\ events'[i].active
                                        /\ events'[i].code \in {"FRAUD", "BREACH"}
        BY <2>6 DEF StillSerious
      <4>2. DOMAIN events = 1..Len(events) /\ Len(events) \in Nat /\ events \in Seq(Event)
        BY EventsAre DEF ScoreInv
      <4>3. i \in 1..(Len(events) + 1) /\ events'[i] = IF i = Len(events) + 1 THEN e ELSE events[i]
        <5>1. PICK R : events \in Seq(R)
          BY <4>2
        <5> QED
          BY ONLY <2>3, <4>1, <5>1
      <4>4. i \in DOMAIN events /\ events'[i] = events[i]
        BY <2>3, <3>2, <4>1, <4>2, <4>3
      <4>5. StillSerious(s)
        BY <4>1, <4>4 DEF StillSerious
      <4> QED
        BY <2>1, <2>5, <4>5, CappedBut DEF Under
    <3> QED
      BY <3>1, <3>2
  <2>7. Informed(r)'
    BY <2>4 DEF Informed
  <2> QED
    BY <1>1, <2>6, <2>7, CapGoesOn
<1>5. CASE WriteBalance(r)
  <2>1. req[r].pc = "running" /\ Goto(r, "sum") /\ UNCHANGED <<events, forsa>>
    BY <1>5 DEF WriteBalance, At
  <2>2. req'[r].pc = "sum" /\ req'[r].op = req[r].op /\ req'[r].student = req[r].student
    BY <1>1, <2>1, ScoreGoto DEF ScorePc
  <2>3. (Rating(r) => Rating(r)') /\ Informed(r)'
    BY <2>2 DEF Rating, Rater, Informed
  <2> QED
    BY <1>1, <2>1, <2>2, <2>3, CapRests
<1>6. CASE SumDimension(r)
  <2>1. req[r].pc = "sum" /\ UNCHANGED <<events, forsa>>
    BY <1>6 DEF SumDimension, At, scores
  <2>2. \E sums : req'[r] = [req[r] EXCEPT !.sums = sums]
    BY <1>6 DEF SumDimension, Tabled
  <2>3. req'[r].pc = "sum" /\ req'[r].op = req[r].op /\ req'[r].student = req[r].student
    BY <1>1, <2>1, <2>2 DEF ScoreRow
  <2>4. (Rating(r) => Rating(r)') /\ Informed(r)'
    BY <2>3 DEF Rating, Rater, Informed
  <2> QED
    BY <1>1, <2>1, <2>3, <2>4, CapRests
<1>7. CASE ReadCeiling(r)
  <2>1. req[r].pc = "sum" /\ UNCHANGED <<events, forsa>>
    BY <1>7 DEF ReadCeiling, Summed, At, scores
  <2>2. PICK c \in BOOLEAN : c = CeilingEvent(s0)
    BY DEF CeilingEvent
  <2>3. req'[r] = [req[r] EXCEPT !.capped = c, !.pc = "score"]
    BY <1>2, <1>7, <2>2 DEF ReadCeiling, Tabled
  <2>4. /\ req'[r].pc = "score" /\ req'[r].op = req[r].op /\ req'[r].student = s0
        /\ req'[r].capped = c
    BY <1>1, <1>2, <2>3 DEF ScoreRow
  <2>5. StillSerious(s0)' => c
    <3>1. StillSerious(s0)' => StillSerious(s0)
      BY <2>1 DEF StillSerious
    <3> QED
      BY <2>2, <3>1, SeriousIsSeen
  <2>6. Rating(r) => Rating(r)'
    BY <2>4 DEF Rating, Rater
  <2>7. Informed(r)'
    BY <2>4, <2>5 DEF Informed
  <2> QED
    BY <1>1, <1>2, <2>1, <2>4, <2>6, <2>7, CapRests
<1>8. CASE WriteScore(r)
  <2>1. /\ req[r].pc = "score" /\ Goto(r, req[r].back) /\ events' = events
        /\ req[r].op \in {"recordEvent", "correct"} /\ req[r].back \in {"done", "lift"}
    BY <1>1, <1>8 DEF WriteScore, At, Return, ScoreRow, Fits, Ended, ScoreOps
  <2>2. PICK n, score : /\ n = Aggregate(req[r].sums)
                        /\ score = IF req[r].capped THEN Capped(n) ELSE n
    OBVIOUS
  <2>3. n \in Int /\ Ceiling \in Int
    <3>1. DOMAIN req[r].sums = Dimension /\ \A d \in Dimension : req[r].sums[d] \in ScoreRange
      BY <1>1, <2>1 DEF Fits, Ended
    <3>2. n \in ScoreRange
      BY <2>2, <3>1, AggregateInRange
    <3> QED
      BY <3>2, ScoreAssumption DEF ScoreRange, SCORE_MIN, SCORE_MAX
  <2>4. forsa' = [forsa EXCEPT ![s0] = [score |-> score, ceiling |-> req[r].capped]]
    BY <1>2, <1>8, <2>2 DEF WriteScore
  <2>5. /\ forsa'[s0] = [score |-> score, ceiling |-> req[r].capped]
        /\ \A s \in Student \ {s0} : forsa'[s] = forsa[s]
    BY <1>2, <2>4 DEF ScoreInv
  <2>6. req'[r].pc = req[r].back /\ req'[r].op = req[r].op
    BY <1>1, <2>1, ScoreGoto DEF ScorePc, Ended
  <2>7. ASSUME NEW s \in Student, StillSerious(s)'
        PROVE  Under(s)' \/ (Rating(r)' /\ req'[r].student = s)
    <3>1. StillSerious(s)
      BY <2>1, <2>7 DEF StillSerious
    <3>2. CASE s = s0
      <4>1. req[r].capped
        BY <1>2, <2>1, <3>1, <3>2 DEF CapInv, Informed, Rater
      <4>2. score <= Ceiling /\ score # None
        BY <2>2, <2>3, <4>1, ScoreAssumption DEF Capped
      <4> QED
        BY <2>5, <3>2, <4>1, <4>2 DEF Under
    <3>3. CASE s # s0
      <4>1. Under(s)
        BY <1>2, <3>1, <3>3, CappedBut
      <4> QED
        BY <2>5, <3>3, <4>1 DEF Under
    <3> QED
      BY <3>2, <3>3
  <2>8. Informed(r)'
    BY <2>1, <2>6 DEF Informed
  <2> QED
    BY <1>1, <2>7, <2>8, CapGoesOn
<1>9. CASE Supersede(r)
  <2>1. /\ req[r].pc = "supersede" /\ Goto(r, "corrective") /\ forsa' = forsa
        /\ events' = [events EXCEPT ![req[r].event].active = FALSE]
    BY <1>9 DEF Supersede, At
  <2>2. req[r].event \in DOMAIN events
    BY <1>1, <2>1, ScoreAtWork DEF Fits, Ended, ScoreOps
  <2>3. PICK i \in DOMAIN events : i = req[r].event
    BY <2>2
  <2>4. /\ DOMAIN events' = DOMAIN events
        /\ \A j \in DOMAIN events : events'[j] = [events[j] EXCEPT !.active = (j # i) /\ @]
    BY <2>1, <2>3, EventsSuperseded
  <2>5. req'[r].pc = "corrective" /\ ~Rating(r)
    BY <1>1, <2>1, ScoreGoto DEF ScorePc, Rating
  <2>6. ASSUME NEW s \in Student, StillSerious(s)'
        PROVE  Under(s)' \/ (Rating(r)' /\ req'[r].student = s)
    <3>1. PICK j \in DOMAIN events' : /\ events'[j].student = s /\ events'[j].active
                                      /\ events'[j].code \in {"FRAUD", "BREACH"}
      BY <2>6 DEF StillSerious
    <3>2. /\ j \in DOMAIN events /\ events[j] \in Event
          /\ events'[j] = [events[j] EXCEPT !.active = (j # i) /\ @]
      BY <2>4, <3>1, EventsAre
    <3>3. /\ events[j].student = s /\ events[j].active
          /\ events[j].code \in {"FRAUD", "BREACH"}
      BY <3>1, <3>2 DEF Event
    <3>4. StillSerious(s)
      BY <3>2, <3>3 DEF StillSerious
    <3> QED
      BY <2>1, <2>5, <3>4, CappedBut DEF Under
  <2>7. Informed(r)'
    BY <2>5 DEF Informed
  <2> QED
    BY <1>1, <2>6, <2>7, CapGoesOn
<1>10. CASE CheckCeiling(r)
  <2>1. /\ req[r].pc = "lift" /\ UNCHANGED <<events, forsa>>
        /\ Goto(r, IF StillSerious(s0) THEN "done" ELSE "unlift")
    BY <1>2, <1>10 DEF CheckCeiling, At, scores
  <2>2. PICK pc \in {"done", "unlift"} : Goto(r, pc) /\ (pc = "unlift" => ~StillSerious(s0))
    BY <2>1
  <2>3. req'[r].pc = pc /\ req'[r].student = s0
    BY <1>1, <1>2, <2>2, ScoreGoto DEF ScorePc, Ended
  <2>4. StillSerious(s0)' => StillSerious(s0)
    BY <2>1 DEF StillSerious
  <2>5. ~Rating(r) /\ Informed(r)'
    BY <2>1, <2>2, <2>3, <2>4 DEF Rating, Informed
  <2> QED
    BY <1>1, <2>1, <2>5, CapRests
<1>11. CASE LiftCeiling(r)
  <2>1. /\ req[r].pc = "unlift" /\ Goto(r, "done") /\ events' = events
        /\ forsa' = [forsa EXCEPT ![s0].ceiling = FALSE]
    BY <1>2, <1>11 DEF LiftCeiling, At
  <2>2. req'[r].pc = "done" /\ ~Rating(r) /\ ~StillSerious(s0)
    <3>1. req[r].op = "correct"
      BY <1>1, <2>1 DEF Fits, Ended, ScoreOps
    <3> QED
      BY <1>1, <1>2, <2>1, <3>1, ScoreGoto DEF Ended, Rating, Rater, CapInv, Informed
  <2>3. ASSUME NEW s \in Student, StillSerious(s)'
        PROVE  Under(s)' \/ (Rating(r)' /\ req'[r].student = s)
    <3>1. StillSerious(s)
      BY <2>1, <2>3 DEF StillSerious
    <3>2. s # s0 /\ Under(s)
      BY <2>2, <3>1, CappedBut
    <3>3. forsa'[s] = forsa[s]
      BY <2>1, <3>2 DEF ScoreInv
    <3> QED
      BY <3>2, <3>3 DEF Under
  <2>4. Informed(r)'
    BY <2>2 DEF Informed
  <2> QED
    BY <1>1, <2>3, <2>4, CapGoesOn
<1>12. CASE InsertScore(r)
  <2>1. req[r].pc = "start" /\ events' = events /\ ~Rating(r)
    BY <1>12 DEF InsertScore, At, Rating
  <2>2. CASE forsa[s0] = NoScore
    <3>1. /\ Goto(r, "initialize")
          /\ forsa' = [forsa EXCEPT ![s0] = [score |-> SCORE_DEFAULT_FIRST_TIME, ceiling |-> FALSE]]
      BY <1>2, <1>12, <2>2 DEF InsertScore
    <3>2. req'[r].pc = "initialize"
      BY <1>1, <3>1, ScoreGoto DEF ScorePc
    <3>3. ASSUME NEW s \in Student, StillSerious(s)'
          PROVE  Under(s)' \/ (Rating(r)' /\ req'[r].student = s)
      <4>1. StillSerious(s)
        BY <2>1, <3>3 DEF StillSerious
      <4>2. Under(s)
        BY <2>1, <4>1, CappedBut
      <4>3. s # s0
        BY <2>2, <4>2 DEF Under, NoScore
      <4>4. forsa'[s] = forsa[s]
        BY <3>1, <4>3 DEF ScoreInv
      <4> QED
        BY <4>2, <4>4 DEF Under
    <3>4. Informed(r)'
      BY <3>2 DEF Informed
    <3> QED
      BY <1>1, <3>3, <3>4, CapGoesOn
  <2>3. CASE forsa[s0] # NoScore
    <3>1. Raise(r) /\ forsa' = forsa
      BY <1>2, <1>12, <2>3 DEF InsertScore
    <3>2. req'[r].pc = "failed"
      BY <1>1, <3>1, ScoreRaise
    <3>3. Informed(r)'
      BY <3>2 DEF Informed
    <3> QED
      BY <1>1, <2>1, <3>1, <3>3, CapRests
  <2> QED
    BY <2>2, <2>3
<1> QED
  BY <1>3, <1>4, <1>5, <1>6, <1>7, <1>8, <1>9, <1>10, <1>11, <1>12 DEF ScoreStep

\* A student with a fraud or breach that has not been superseded stays under the
\* ceiling, and is shown to (recordEvent, createCorrectiveEvent), whatever order
\* events and corrections come in: one request at a time, none of them failing
\* between its statements (nothing repairs the score of one that did).
THEOREM SeriousStaysCapped ==
  ASSUME MaxInFlight <= 1, MayThrow \cap {"recordEvent", "correct"} = {}
  PROVE  Spec => []SeriousIsCapped
<1> DEFINE Inv == ScoreCut \/ CapInv
<1>1. Init => Inv
  BY DEF Init, ServerInit, ScoreInit, CapInv, StillSerious, Informed
<1>2. Tabled /\ InTurn /\ EngineInv /\ ScoreInv /\ Inv /\ [Next]_vars => Inv'
  <2> SUFFICES ASSUME Tabled, InTurn, EngineInv, ScoreInv, Inv, [Next]_vars PROVE Inv'
    OBVIOUS
  <2>1. CASE UNCHANGED vars
    <3>1. req' = req /\ events' = events /\ forsa' = forsa
      BY <2>1 DEF vars, server, core, scores
    <3> QED
      BY <3>1 DEF ScoreCut, CapInv, Rater, Rating, Under, Informed, StillSerious
  <2>2. ASSUME NEW r \in Req, Step(r) \/ Break(r)
        PROVE  Inv'
    <3>1. Turn(r) /\ (req[r].pc = "idle" \/ r \in InFlight)
      BY <2>2, TurnOfStep
    <3>2. \A q \in Req : q # r => req'[q] = req[q]
      BY <2>2, StepKeeps, BreakKeeps DEF Keeps
    <3>3. CASE ScoreCut
      <4>1. PICK q \in Req : Rater(q) /\ req[q].pc = "died"
        BY <3>3 DEF ScoreCut
      <4>2. q # r
        BY <3>1, <4>1 DEF InFlight, Ended
      <4> QED
        BY <3>2, <4>1, <4>2 DEF ScoreCut, Rater
    <3>4. CASE CapInv /\ Step(r)
      <4>1. CASE ScoreStep(r) /\ Handles(r, CoreOps)
        BY <3>1, <3>4, <4>1, CapStep
      <4>2. CASE UNCHANGED scores /\ req[r].op \notin ScoreOps /\ req'[r].op \notin ScoreOps
        <5>1. ~Rating(r) /\ Informed(r)' /\ UNCHANGED <<events, forsa>>
          BY <4>2 DEF Rating, Rater, Informed, scores, ScoreOps
        <5> QED
          BY <3>1, <3>2, <3>4, <5>1, CapRests
      <4> QED
        BY <3>4, <4>1, <4>2, ScoreOrElse
    <3>5. CASE CapInv /\ Break(r)
      <4>1. /\ UNCHANGED scores /\ req'[r].op = req[r].op
            /\ req[r].op \in ScoreOps =>
                 req'[r].pc = "died" \/ (req'[r].pc = "failed" /\ req[r].op \in MayThrow)
        BY <3>5, ScoreBreaks
      <4>2. CASE Rater(r)
        <5>1. req'[r].pc = "died"
          BY <4>1, <4>2 DEF Rater, ScoreOps
        <5> QED
          BY <4>1, <4>2, <5>1 DEF ScoreCut, Rater
      <4>3. CASE ~Rater(r)
        <5>1. ~Rating(r) /\ Informed(r)' /\ UNCHANGED <<events, forsa>>
          BY <4>1, <4>3 DEF Rating, Rater, Informed, scores
        <5> QED
          BY <3>1, <3>2, <3>5, <5>1, CapRests
      <4> QED
        BY <4>2, <4>3
    <3> QED
      BY <2>2, <3>3, <3>4, <3>5
  <2> QED
    BY <2>1, <2>2 DEF Next
<1>3. Inv => SeriousIsCapped
  BY DEF SeriousIsCapped, AllServed, ScoreCut, CapInv, Rating, Under
<1> QED
  BY <1>1, <1>2, <1>3, AlwaysTabled, AlwaysScore, AlwaysInTurn, EngineInvariant, PTL DEF Spec

-------------------------------------------------------------------------------
(***************************************************************************)
(* The score and the log.  The score of a student is the one the events     *)
(* that count give, or the handler that will bring it up to date is on its  *)
(* way (or was cut off by the end of the process).                          *)
(***************************************************************************)
LEMMA TotalOfDefaults ==
  ASSUME NEW S, IsFiniteSet(S), NEW m, NEW n, \A x \in S : m[x] \in Nat /\ n[x] = 500 * m[x]
  PROVE  Total(S, n) = 500 * Total(S, m)
<1> DEFINE bad == {s \in SUBSET S : Total(s, n) # 500 * Total(s, m)}
<1> SUFFICES ASSUME bad # {} PROVE FALSE
  OBVIOUS
<1>1. PICK s \in bad : \A t \in bad : ~(t \subseteq s /\ t # s)
  <2>1. bad \in SUBSET (SUBSET S) /\ bad # {}
    OBVIOUS
  <2> HIDE DEF bad
  <2> QED
    BY <2>1, Smallest
<1>2. /\ Total(s, m) = IF s = {} THEN 0 ELSE m[First(s)] + Total(s \ {First(s)}, m)
      /\ Total(s, n) = IF s = {} THEN 0 ELSE n[First(s)] + Total(s \ {First(s)}, n)
  <2>1. IsFiniteSet(s)
    BY FS_Subset
  <2> QED
    BY ONLY <2>1, TotalStep
<1>3. s # {}
  BY <1>2
<1>4. First(s) \in s /\ s \ {First(s)} \notin bad
  BY <1>1, <1>3, FirstIsIn
<1>5. PICK x, t : x = First(s) /\ t = s \ {First(s)}
  OBVIOUS
<1>6. x \in S /\ t \in SUBSET S /\ Total(t, n) = 500 * Total(t, m) /\ n[x] = 500 * m[x] /\ m[x] \in Nat
  BY <1>4, <1>5
<1>7. Total(t, m) \in Nat
  BY <1>6, TotalIsNat, FS_Subset
<1>8. Total(s, m) = m[x] + Total(t, m) /\ Total(s, n) = n[x] + Total(t, n)
  BY <1>2, <1>3, <1>5
<1>9. Total(s, n) = 500 * Total(s, m)
  BY ONLY <1>6, <1>7, <1>8
<1> QED
  BY <1>9

NoBreach  == \A i \in DOMAIN events : events[i].code # "BREACH"
Behind(r) == Rater(r) /\ req[r].pc \in {"corrective", "balance", "insert", "running", "sum", "score"}

Wanted(s) == LET score == Aggregate([d \in Dimension |-> Computed(s, d)]) IN
               IF CeilingEvent(s) THEN Capped(score) ELSE score

Current(s) == IF forsa[s].score = None
              THEN \A i \in DOMAIN events : events[i].student # s
              ELSE NoBreach => forsa[s].score = Wanted(s)

\* What the handler of an event knows of the student it is for is still so.
Tracks(r) == Rater(r) => \A s \in Student : req[r].student = s =>
  /\ req[r].pc \in {"unique", "supersede", "corrective", "balance", "insert", "running"} =>
       DOMAIN req[r].sums = {}
  /\ req[r].pc \in {"sum", "score"} => \A d \in DOMAIN req[r].sums : req[r].sums[d] = Computed(s, d)
  /\ req[r].pc = "score" => req[r].capped = CeilingEvent(s)
  /\ req[r].pc \in {"unique", "supersede"} => events[req[r].event].student = s
  /\ req[r].pc \in {"supersede", "corrective"} => \A q \in Req : corrective[q] # req[r].event

FollowInv ==
  /\ \A s \in Student : Current(s) \/ \E r \in Req : Behind(r) /\ req[r].student = s
  /\ \A r \in Req : Tracks(r)

\* The balance of a dimension after a step.
LEMMA NextIsRun ==
  ASSUME NEW s, NEW d, Rows(ActiveOf(s, d)')
  PROVE  Computed(s, d)' = Run(ActiveOf(s, d)', events')
<1> DEFINE A == ActiveOf(s, d)'
           f == CHOOSE iter : iter = [t \in SUBSET A |->
                  IF t = {} THEN SCORE_DEFAULT_FIRST_TIME
                  ELSE Clamp(iter[t \ {Max(t)}] + events'[Max(t)].points)]
<1>1. Computed(s, d)' = f[A]
  BY DEF Computed, MapThenFoldSet
<1>2. PICK g : g = [t \in SUBSET A |->
                  IF t = {} THEN SCORE_DEFAULT_FIRST_TIME
                  ELSE Clamp(g[t \ {Max(t)}] + events'[Max(t)].points)]
  <2>1. PICK g : Runs(g, A, events')
    BY RunsExist
  <2> QED
    BY <2>1 DEF Runs
<1>3. Runs(f, A, events')
  BY <1>2 DEF Runs
<1> QED
  BY <1>1, <1>3, RunIsUnique

LEMMA ComputedKept ==
  ASSUME ScoreInv, NEW s, NEW d, ActiveOf(s, d)' = ActiveOf(s, d),
         \A i \in ActiveOf(s, d) : events'[i] = events[i]
  PROVE  Computed(s, d)' = Computed(s, d)
<1>1. Rows(ActiveOf(s, d))
  BY ActiveRows
<1>2. Computed(s, d) = Run(ActiveOf(s, d), events)
  BY <1>1, ComputedIsRun
<1>3. Computed(s, d)' = Run(ActiveOf(s, d), events')
  BY <1>1, NextIsRun
<1> QED
  BY <1>1, <1>2, <1>3, RunIsTheSame

LEMMA WantedKept ==
  ASSUME NEW s, \A d \in Dimension : Computed(s, d)' = Computed(s, d),
         CeilingEvent(s)' <=> CeilingEvent(s)
  PROVE  Wanted(s)' = Wanted(s)
<1>1. [d \in Dimension |-> Computed(s, d)'] = [d \in Dimension |-> Computed(s, d)]
  OBVIOUS
<1> QED
  BY <1>1 DEF Wanted

\* A step that changes events of other students only.
LEMMA CurrentKept ==
  ASSUME ScoreInv, NEW s \in Student, Current(s), forsa'[s].score = forsa[s].score,
         DOMAIN events \subseteq DOMAIN events',
         \A i \in DOMAIN events : /\ events'[i].student = events[i].student
                                  /\ events'[i].code = events[i].code,
         \A i \in DOMAIN events' : \/ events'[i].student # s
                                   \/ i \in DOMAIN events /\ events'[i] = events[i]
  PROVE  Current(s)'
<1>1. CASE forsa[s].score = None
  BY <1>1 DEF Current
<1>2. CASE forsa[s].score # None
  <2> SUFFICES ASSUME NoBreach' PROVE forsa'[s].score = Wanted(s)'
    BY <1>2 DEF Current
  <2>1. NoBreach
    BY DEF NoBreach
  <2>2. ASSUME NEW d \in Dimension
        PROVE  Computed(s, d)' = Computed(s, d)
    <3>1. ActiveOf(s, d)' = ActiveOf(s, d)
      BY DEF ActiveOf
    <3>2. \A i \in ActiveOf(s, d) : events'[i] = events[i]
      BY DEF ActiveOf
    <3> QED
      BY <3>1, <3>2, ComputedKept
  <2>3. CeilingEvent(s)' <=> CeilingEvent(s)
    BY <2>1 DEF CeilingEvent, NoBreach
  <2> QED
    BY <1>2, <2>1, <2>2, <2>3, WantedKept DEF Current
<1> QED
  BY <1>1, <1>2

LEMMA CurrentStays ==
  ASSUME ScoreInv, NEW s \in Student, Current(s), forsa'[s].score = forsa[s].score, events' = events
  PROVE  Current(s)'
BY CurrentKept

\* The score a student without events starts from.
LEMMA NobodyIsDefault ==
  ASSUME ScoreInv, Total(Dimension, Weight) = 100, NEW s \in Student,
         \A i \in DOMAIN events : events[i].student # s
  PROVE  NoBreach => Wanted(s) = SCORE_DEFAULT_FIRST_TIME
<1>1. ASSUME NEW d \in Dimension
      PROVE  Computed(s, d) = SCORE_DEFAULT_FIRST_TIME
  <2>1. ActiveOf(s, d) = {}
    BY DEF ActiveOf
  <2>2. Rows(ActiveOf(s, d))
    BY ActiveRows
  <2>3. Run(ActiveOf(s, d), events) = SCORE_DEFAULT_FIRST_TIME
    BY <2>1, <2>2, RunStep
  <2> QED
    BY <2>2, <2>3, ComputedIsRun
<1>2. PICK sums : sums = [d \in Dimension |-> Computed(s, d)]
  OBVIOUS
<1>3. PICK n : n = [d \in Dimension |-> sums[d] * Weight[d]]
  OBVIOUS
<1>4. Total(Dimension, n) = 500 * 100
  <2>1. \A d \in Dimension : Weight[d] \in Nat /\ n[d] = 500 * Weight[d]
    BY <1>1, <1>2, <1>3, ScoreAssumption DEF SCORE_DEFAULT_FIRST_TIME
  <2> QED
    BY <2>1, TotalOfDefaults, ScoreAssumption
<1>5. Aggregate(sums) = Clamp((Total(Dimension, n) + 50) \div 100)
  BY <1>3, AggregateIsTotal
<1>6. Aggregate(sums) = SCORE_DEFAULT_FIRST_TIME
  <2>1. (Total(Dimension, n) + 50) \div 100 = 500
    BY <1>4
  <2> QED
    BY <1>5, <2>1 DEF Clamp, SCORE_MIN, SCORE_MAX, SCORE_DEFAULT_FIRST_TIME
<1>7. NoBreach => ~CeilingEvent(s)
  BY DEF NoBreach, CeilingEvent
<1> QED
  BY <1>2, <1>6, <1>7 DEF Wanted

LEMMA FollowGoesOn ==
  ASSUME FollowInv, NEW r \in Req, Turn(r), \A q \in Req : q # r => req'[q] = req[q],
         ASSUME NEW s \in Student
         PROVE  Current(s)' \/ (Behind(r)' /\ req'[r].student = s),
         Tracks(r)'
  PROVE  FollowInv'
<1>1. ASSUME NEW s \in Student
      PROVE  (Current(s) \/ \E q \in Req : Behind(q) /\ req[q].student = s)'
  BY <1>1
<1>2. ASSUME NEW q \in Req, q # r
      PROVE  Tracks(q)'
  <2>1. req'[q] = req[q] /\ req[q].pc \in Ended \cup {"idle"}
    BY <1>2, ServerAssumption DEF Turn, Req
  <2> QED
    BY <2>1 DEF Tracks, Ended
<1> QED
  BY <1>1, <1>2 DEF FollowInv

LEMMA CurrentBut ==
  ASSUME FollowInv, NEW r \in Req, Turn(r), NEW s \in Student
  PROVE  Current(s) \/ (Behind(r) /\ req[r].student = s)
<1>1. ASSUME NEW q \in Req, q # r
      PROVE  ~Behind(q)
  <2>1. req[q].pc \in Ended \cup {"idle"}
    BY <1>1, ServerAssumption DEF Turn, Req
  <2> QED
    BY <2>1 DEF Behind, Ended
<1> QED
  BY <1>1 DEF FollowInv

\* A step that changes neither an event nor a score.
LEMMA FollowRests ==
  ASSUME ScoreInv, FollowInv, NEW r \in Req, Turn(r), \A q \in Req : q # r => req'[q] = req[q],
         events' = events, \A s \in Student : forsa'[s].score = forsa[s].score,
         Behind(r) => Behind(r)' /\ req'[r].student = req[r].student,
         Tracks(r)'
  PROVE  FollowInv'
<1>1. ASSUME NEW s \in Student
      PROVE  Current(s)' \/ (Behind(r)' /\ req'[r].student = s)
  BY CurrentBut, CurrentStays
<1> QED
  BY <1>1, FollowGoesOn

LEMMA FollowStep ==
  ASSUME Tabled, EngineInv, ScoreInv, FollowInv, Total(Dimension, Weight) = 100,
         NEW r \in Req, Turn(r), Handles(r, CoreOps), ScoreStep(r)
  PROVE  FollowInv'
<1>0. CASE RecordEvent(r) \/ FindOriginal(r) \/ GetScore(r) \/ Reconcile(r)
  <2>1. /\ req[r].pc = "idle" /\ UNCHANGED scores
        /\ \A q \in Req : q # r => req'[q] = req[q]
        /\ req'[r].pc \in {"balance", "unique", "start", "sum"}
        /\ req'[r].pc = "sum" => req'[r].op = "reconcile"
        /\ DOMAIN req'[r].sums = {}
        /\ req'[r].op = "correct" => events[req'[r].event].student = req'[r].student
        /\ req'[r].op \in ScoreOps
    BY <1>0, ScoreArrives
  <2>2. req'[r].pc = "unique" => req'[r].op = "correct"
    <3>1. ScoreHandler(r)'
      BY <1>0, ScoreArrives DEF ScoreInv
    <3> QED
      BY <2>1, <3>1 DEF ScoreHandler, Fits, Ended, ScoreOps
  <2>3. events' = events /\ forsa' = forsa
    BY <2>1 DEF scores
  <2>4. ~Behind(r)
    BY <2>1 DEF Behind
  <2>5. Tracks(r)'
    BY <2>1, <2>2, <2>3 DEF Tracks, Rater
  <2> QED
    BY <2>1, <2>3, <2>4, <2>5, FollowRests
<1> SUFFICES ASSUME ~(RecordEvent(r) \/ FindOriginal(r) \/ GetScore(r) \/ Reconcile(r))
             PROVE  FollowInv'
  BY <1>0
<1>1. /\ req[r].pc \in ScorePc /\ req[r].op \in ScoreOps /\ req[r] \in ScoreRow /\ Fits(req[r])
      /\ \A q \in Req : q # r => req'[q] = req[q]
  BY ScoreStatement
<1>2. PICK s0 \in Student : s0 = req[r].student
  BY <1>1 DEF ScoreRow
<1>3. /\ Tracks(r)
      /\ req[r].op = "correct" => req[r].event \in DOMAIN events
  BY <1>1, ScoreAtWork DEF FollowInv
<1>4. CASE ReadBalance(r)
  <2>1. req[r].pc = "balance" /\ UNCHANGED scores
    BY <1>4 DEF ReadBalance, At
  <2>2. \E new : req'[r] = [req[r] EXCEPT !.new = new, !.pc = "insert"]
    BY <1>4 DEF ReadBalance, Tabled
  <2>3. /\ req'[r].pc = "insert" /\ req'[r].op = req[r].op /\ req'[r].student = s0
        /\ req'[r].sums = req[r].sums
    BY <1>1, <1>2, <2>2 DEF ScoreRow
  <2>4. Tracks(r)' /\ (Behind(r) => Behind(r)')
    BY <1>2, <1>3, <2>1, <2>3 DEF Tracks, Rater, Behind
  <2> QED
    BY <1>1, <1>2, <2>1, <2>3, <2>4, FollowRests DEF scores
<1>5. CASE InsertEvent(r)
  <2>1. req[r].pc = "insert" /\ Goto(r, "running") /\ forsa' = forsa
    BY <1>5 DEF InsertEvent, At
  <2>2. PICK e : e = [student |-> req[r].student, dim |-> req[r].dim,
                      code |-> req[r].kind.code, points |-> req[r].kind.points,
                      active |-> TRUE, reference |-> req[r].event]
    OBVIOUS
  <2>3. events' = Append(events, e) /\ e.student = s0
    BY <1>2, <1>5, <2>2 DEF InsertEvent
  <2>4. /\ req'[r].pc = "running" /\ req'[r].op = req[r].op /\ req'[r].student = s0
        /\ req'[r].sums = req[r].sums
    BY <1>1, <1>2, <2>1, ScoreGoto DEF ScorePc
  <2>5. /\ DOMAIN events \subseteq DOMAIN events'
        /\ \A i \in DOMAIN events : events'[i] = events[i]
        /\ \A i \in DOMAIN events' : i \in DOMAIN events \/ events'[i] = e
    <3>1. events \in Seq(Event)
      BY DEF ScoreInv
    <3>2. PICK R : events \in Seq(R)
      BY <3>1
    <3> QED
      BY ONLY <2>3, <3>2
  <2>6. Rater(r)' /\ Behind(r)'
    BY <1>1, <2>1, <2>4 DEF Fits, Ended, ScoreOps, Rater, Behind
  <2>7. ASSUME NEW s \in Student
        PROVE  Current(s)' \/ (Behind(r)' /\ req'[r].student = s)
    <3>1. CASE s = s0
      BY <2>4, <2>6, <3>1
    <3>2. CASE s # s0
      <4>1. Current(s)
        BY <1>2, <3>2, CurrentBut
      <4>2. \A i \in DOMAIN events' : events'[i].student # s \/ (i \in DOMAIN events /\ events'[i] = events[i])
        BY <2>3, <2>5, <3>2
      <4> QED
        BY <2>1, <2>5, <4>1, <4>2, CurrentKept
    <3> QED
      BY <3>1, <3>2
  <2>8. Tracks(r)'
    BY <1>2, <1>3, <2>1, <2>4 DEF Tracks, Rater
  <2> QED
    BY <1>1, <2>7, <2>8, FollowGoesOn
<1>6. CASE WriteBalance(r)
  <2>1. req[r].pc = "running" /\ Goto(r, "sum") /\ UNCHANGED <<events, forsa>>
    BY <1>6 DEF WriteBalance, At
  <2>2. /\ req'[r].pc = "sum" /\ req'[r].op = req[r].op /\ req'[r].student = s0
        /\ req'[r].sums = req[r].sums
    BY <1>1, <1>2, <2>1, ScoreGoto DEF ScorePc
  <2>3. Behind(r) => Behind(r)'
    BY <2>2 DEF Behind, Rater
  <2>4. Tracks(r)'
    BY <1>2, <1>3, <2>1, <2>2 DEF Tracks, Rater
  <2> QED
    BY <1>1, <1>2, <2>1, <2>2, <2>3, <2>4, FollowRests
<1>7. CASE SumDimension(r)
  <2>1. /\ req[r].pc = "sum" /\ UNCHANGED <<events, forsa>> /\ Dimension \ DOMAIN req[r].sums # {}
    BY <1>7 DEF SumDimension, At, scores
  <2>2. PICK d, n, sums :
          /\ d = CHOOSE x \in Dimension \ DOMAIN req[r].sums : TRUE
          /\ n = Computed(s0, d)
          /\ sums = [c \in DOMAIN req[r].sums \cup {d} |-> IF c = d THEN n ELSE req[r].sums[c]]
    OBVIOUS
  <2>3. req'[r] = [req[r] EXCEPT !.sums = sums]
    BY <1>2, <1>7, <2>2 DEF SumDimension, Tabled
  <2>4. /\ req'[r].pc = "sum" /\ req'[r].op = req[r].op /\ req'[r].student = s0
        /\ req'[r].sums = sums
    BY <1>1, <1>2, <2>1, <2>3 DEF ScoreRow
  <2>5. ASSUME Rater(r), NEW c \in DOMAIN sums
        PROVE  sums[c] = Computed(s0, c)'
    <3>1. sums[c] = Computed(s0, c)
      BY <1>2, <1>3, <2>1, <2>2, <2>5 DEF Tracks
    <3>2. ActiveOf(s0, c)' = ActiveOf(s0, c)
      BY <2>1 DEF ActiveOf
    <3> QED
      BY <2>1, <3>1, <3>2, ComputedKept
  <2>6. Behind(r) => Behind(r)'
    BY <2>4 DEF Behind, Rater
  <2>7. Tracks(r)'
    BY <2>4, <2>5 DEF Tracks, Rater
  <2> QED
    BY <1>1, <1>2, <2>1, <2>4, <2>6, <2>7, FollowRests
<1>8. CASE ReadCeiling(r)
  <2>1. req[r].pc = "sum" /\ UNCHANGED <<events, forsa>>
    BY <1>8 DEF ReadCeiling, Summed, At, scores
  <2>2. PICK c \in BOOLEAN : c = CeilingEvent(s0)
    BY DEF CeilingEvent
  <2>3. req'[r] = [req[r] EXCEPT !.capped = c, !.pc = "score"]
    BY <1>2, <1>8, <2>2 DEF ReadCeiling, Tabled
  <2>4. /\ req'[r].pc = "score" /\ req'[r].op = req[r].op /\ req'[r].student = s0
        /\ req'[r].capped = c /\ req'[r].sums = req[r].sums
    BY <1>1, <1>2, <2>3 DEF ScoreRow
  <2>5. c = CeilingEvent(s0)'
    BY <2>1, <2>2 DEF CeilingEvent
  <2>6. ASSUME Rater(r), NEW d \in DOMAIN req[r].sums
        PROVE  req[r].sums[d] = Computed(s0, d)'
    <3>1. req[r].sums[d] = Computed(s0, d)
      BY <1>2, <1>3, <2>1, <2>6 DEF Tracks
    <3>2. ActiveOf(s0, d)' = ActiveOf(s0, d)
      BY <2>1 DEF ActiveOf
    <3> QED
      BY <2>1, <3>1, <3>2, ComputedKept
  <2>7. Behind(r) => Behind(r)'
    BY <2>4 DEF Behind, Rater
  <2>8. Tracks(r)'
    BY <2>4, <2>5, <2>6 DEF Tracks, Rater
  <2> QED
    BY <1>1, <1>2, <2>1, <2>4, <2>7, <2>8, FollowRests
<1>9. CASE WriteScore(r)
  <2>1. /\ req[r].pc = "score" /\ Goto(r, req[r].back) /\ events' = events
        /\ req[r].op \in {"recordEvent", "correct"} /\ req[r].back \in {"done", "lift"}
    BY <1>1, <1>9 DEF WriteScore, At, Return, ScoreRow, Fits, Ended, ScoreOps
  <2>2. PICK n, score : /\ n = Aggregate(req[r].sums)
                        /\ score = IF req[r].capped THEN Capped(n) ELSE n
    OBVIOUS
  <2>3. DOMAIN req[r].sums = Dimension /\ \A d \in Dimension : req[r].sums[d] \in ScoreRange
    BY <1>1, <2>1 DEF Fits, Ended
  <2>4. n \in ScoreRange
    BY <2>2, <2>3, AggregateInRange
  <2>5. score # None
    <3>1. score \in ScoreRange
      BY <2>2, <2>4, ScoreAssumption DEF Capped, ScoreRange
    <3> QED
      BY <3>1, ScoreAssumption DEF ScoreRange, SCORE_MIN, SCORE_MAX
  <2>6. score = Wanted(s0)
    <3>1. /\ \A d \in Dimension : req[r].sums[d] = Computed(s0, d)
          /\ req[r].capped = CeilingEvent(s0)
      BY <1>2, <1>3, <2>1, <2>3 DEF Tracks, Rater
    <3>2. req[r].sums = [d \in Dimension |-> Computed(s0, d)]
      <4>1. req[r].sums = [d \in Dimension |-> req[r].sums[d]]
        BY <1>1, <2>3 DEF ScoreRow, Partial
      <4> QED
        BY <3>1, <4>1
    <3> QED
      BY <2>2, <3>1, <3>2 DEF Wanted
  <2>7. forsa' = [forsa EXCEPT ![s0] = [score |-> score, ceiling |-> req[r].capped]]
    BY <1>2, <1>9, <2>2 DEF WriteScore
  <2>8. /\ forsa'[s0].score = score
        /\ \A s \in Student \ {s0} : forsa'[s] = forsa[s]
    BY <1>2, <2>7 DEF ScoreInv
  <2>9. req'[r].pc = req[r].back
    BY <1>1, <2>1, ScoreGoto DEF ScorePc, Ended
  <2>10. ASSUME NEW s \in Student
         PROVE  Current(s)' \/ (Behind(r)' /\ req'[r].student = s)
    <3>1. CASE s = s0
      <4>1. Wanted(s0)' = Wanted(s0)
        <5>1. CeilingEvent(s0)' <=> CeilingEvent(s0)
          BY <2>1 DEF CeilingEvent
        <5>2. ASSUME NEW d \in Dimension
              PROVE  Computed(s0, d)' = Computed(s0, d)
          <6>1. ActiveOf(s0, d)' = ActiveOf(s0, d)
            BY <2>1 DEF ActiveOf
          <6> QED
            BY <2>1, <6>1, ComputedKept
        <5> QED
          BY <5>1, <5>2, WantedKept
      <4> QED
        BY <2>5, <2>6, <2>8, <3>1, <4>1 DEF Current
    <3>2. CASE s # s0
      BY <1>2, <2>1, <2>8, <3>2, CurrentBut, CurrentStays
    <3> QED
      BY <3>1, <3>2
  <2>11. Tracks(r)'
    BY <2>1, <2>9 DEF Tracks
  <2> QED
    BY <1>1, <2>10, <2>11, FollowGoesOn
<1>10. CASE CheckCorrective(r)
  <2>1. req[r].pc = "unique" /\ UNCHANGED scores
    BY <1>10 DEF CheckCorrective, At
  <2>2. ~Behind(r)
    BY <2>1 DEF Behind
  <2>3. CASE Corrected(req[r].event)
    <3>1. req'[r].pc = "failed"
      BY <1>1, <1>10, <2>3, ScoreRaise DEF CheckCorrective
    <3>2. Tracks(r)'
      BY <3>1 DEF Tracks
    <3> QED
      BY <1>1, <2>1, <2>2, <3>2, FollowRests DEF scores
  <2>4. CASE ~Corrected(req[r].event)
    <3>1. Goto(r, "supersede")
      BY <1>10, <2>4 DEF CheckCorrective
    <3>2. /\ req'[r].pc = "supersede" /\ req'[r].op = req[r].op /\ req'[r].student = s0
          /\ req'[r].sums = req[r].sums /\ req'[r].event = req[r].event
      BY <1>1, <1>2, <3>1, ScoreGoto DEF ScorePc
    <3>3. \A q \in Req : corrective[q] # req[r].event
      BY <2>4 DEF Corrected
    <3>4. events' = events /\ corrective' = corrective /\ forsa' = forsa
      BY <2>1 DEF scores
    <3>5. Tracks(r)'
      BY <1>2, <1>3, <2>1, <3>2, <3>3, <3>4 DEF Tracks, Rater
    <3> QED
      BY <1>1, <2>2, <3>4, <3>5, FollowRests
  <2> QED
    BY <2>3, <2>4
<1>11. CASE DuplicateCorrective(r)
  <2>1. req[r].pc = "corrective" /\ Corrected(req[r].event)
    BY <1>11 DEF DuplicateCorrective, At, Unique
  <2>2. req[r].op = "correct"
    BY <1>1, <2>1 DEF Fits, Ended, ScoreOps
  <2> QED
    BY <1>2, <1>3, <2>1, <2>2 DEF Tracks, Rater, Corrected
<1>12. CASE Supersede(r)
  <2>1. /\ req[r].pc = "supersede" /\ Goto(r, "corrective") /\ forsa' = forsa
        /\ corrective' = corrective
        /\ events' = [events EXCEPT ![req[r].event].active = FALSE]
    BY <1>12 DEF Supersede, At
  <2>2. req[r].op = "correct"
    BY <1>1, <2>1 DEF Fits, Ended, ScoreOps
  <2>3. PICK i \in DOMAIN events : i = req[r].event
    BY <1>3, <2>2
  <2>4. events[i].student = s0
    BY <1>2, <1>3, <2>1, <2>2, <2>3 DEF Tracks, Rater
  <2>5. /\ DOMAIN events' = DOMAIN events
        /\ \A j \in DOMAIN events : events'[j] = [events[j] EXCEPT !.active = (j # i) /\ @]
    BY <2>1, <2>3, EventsSuperseded
  <2>6. \A j \in DOMAIN events : /\ events'[j].student = events[j].student
                                 /\ events'[j].code = events[j].code
                                 /\ j # i => events'[j] = events[j]
    <3> SUFFICES ASSUME NEW j \in DOMAIN events
                 PROVE  /\ events'[j].student = events[j].student
                        /\ events'[j].code = events[j].code
                        /\ j # i => events'[j] = events[j]
      OBVIOUS
    <3>1. events[j] \in Event
      BY EventsAre
    <3> QED
      BY <2>5, <3>1 DEF Event
  <2>7. /\ req'[r].pc = "corrective" /\ req'[r].op = req[r].op /\ req'[r].student = s0
        /\ req'[r].sums = req[r].sums /\ req'[r].event = req[r].event
    BY <1>1, <1>2, <2>1, ScoreGoto DEF ScorePc
  <2>8. Behind(r)'
    BY <2>2, <2>7 DEF Behind, Rater
  <2>9. ASSUME NEW s \in Student
        PROVE  Current(s)' \/ (Behind(r)' /\ req'[r].student = s)
    <3>1. CASE s = s0
      BY <2>7, <2>8, <3>1
    <3>2. CASE s # s0
      <4>1. Current(s)
        BY <1>2, <3>2, CurrentBut
      <4>2. \A j \in DOMAIN events' : events'[j].student # s \/ (j \in DOMAIN events /\ events'[j] = events[j])
        BY <2>4, <2>5, <2>6, <3>2
      <4> QED
        BY <2>1, <2>5, <2>6, <4>1, <4>2, CurrentKept
    <3> QED
      BY <3>1, <3>2
  <2>10. Tracks(r)'
    BY <1>2, <1>3, <2>1, <2>7 DEF Tracks, Rater
  <2> QED
    BY <1>1, <2>9, <2>10, FollowGoesOn
<1>13. CASE InsertCorrective(r)
  <2>1. req[r].pc = "corrective" /\ Goto(r, "balance") /\ UNCHANGED <<events, forsa>>
    BY <1>13 DEF InsertCorrective, At
  <2>2. /\ req'[r].pc = "balance" /\ req'[r].op = req[r].op /\ req'[r].student = s0
        /\ req'[r].sums = req[r].sums
    BY <1>1, <1>2, <2>1, ScoreGoto DEF ScorePc
  <2>3. Behind(r) => Behind(r)'
    BY <2>2 DEF Behind, Rater
  <2>4. Tracks(r)'
    BY <1>2, <1>3, <2>1, <2>2 DEF Tracks, Rater
  <2> QED
    BY <1>1, <1>2, <2>1, <2>2, <2>3, <2>4, FollowRests
<1>14. CASE CheckCeiling(r) \/ LiftCeiling(r) \/ Report(r)
  <2>1. /\ req[r].pc \in {"lift", "unlift", "report"} /\ events' = events
        /\ \A s \in Student : forsa'[s].score = forsa[s].score
    <3>1. CASE LiftCeiling(r)
      BY <1>2, <1>14, <3>1 DEF LiftCeiling, At, ScoreInv
    <3>2. CASE ~LiftCeiling(r)
      BY <1>14, <3>2 DEF CheckCeiling, Report, At, scores
    <3> QED
      BY <3>1, <3>2
  <2>2. PICK pc \in {"done", "unlift"} : Goto(r, pc)
    BY <1>14 DEF CheckCeiling, LiftCeiling, Report
  <2>3. req'[r].pc = pc
    BY <1>1, <2>2, ScoreGoto DEF ScorePc, Ended
  <2>4. ~Behind(r) /\ Tracks(r)'
    BY <2>1, <2>3 DEF Behind, Tracks
  <2> QED
    BY <1>1, <2>1, <2>4, FollowRests
<1>15. CASE Compare(r) \/ InitializeBalance(r)
  <2>1. /\ events' = events /\ forsa' = forsa /\ req[r].op \in {"reconcile", "getScore"}
    BY <1>1, <1>15 DEF Compare, InitializeBalance, scores, Fits, Ended, At, ScoreOps
  <2>2. req'[r].op = req[r].op
    <3>1. CASE \E pc : Goto(r, pc)
      BY <1>1, <3>1 DEF Goto, Tabled, ScoreRow
    <3>2. CASE ~ \E pc : Goto(r, pc)
      <4>1. \E sums : req'[r] = [req[r] EXCEPT !.sums = sums]
        <5>1. ~Compare(r)
          BY <3>2 DEF Compare
        <5>2. PICK d, sums : /\ d = CHOOSE x \in Dimension \ DOMAIN req[r].sums : TRUE
                             /\ sums = [c \in DOMAIN req[r].sums \cup {d} |-> 0]
          OBVIOUS
        <5>3. req'[r] = [req[r] EXCEPT !.sums = sums]
          BY <1>15, <3>2, <5>1, <5>2 DEF InitializeBalance, Tabled
        <5> QED
          BY <5>3
      <4> QED
        BY <1>1, <4>1 DEF ScoreRow
    <3> QED
      BY <3>1, <3>2
  <2>3. ~Behind(r) /\ Tracks(r)'
    BY <2>1, <2>2 DEF Behind, Tracks, Rater
  <2> QED
    BY <1>1, <2>1, <2>3, FollowRests
<1>16. CASE InsertScore(r)
  <2>1. req[r].pc = "start" /\ events' = events /\ ~Behind(r)
    BY <1>16 DEF InsertScore, At, Behind
  <2>2. CASE forsa[s0] = NoScore
    <3>1. /\ Goto(r, "initialize")
          /\ forsa' = [forsa EXCEPT ![s0] = [score |-> SCORE_DEFAULT_FIRST_TIME, ceiling |-> FALSE]]
      BY <1>2, <1>16, <2>2 DEF InsertScore
    <3>2. /\ forsa'[s0].score = SCORE_DEFAULT_FIRST_TIME
          /\ \A s \in Student \ {s0} : forsa'[s] = forsa[s]
      BY <1>2, <3>1 DEF ScoreInv
    <3>3. req'[r].pc = "initialize"
      BY <1>1, <3>1, ScoreGoto DEF ScorePc
    <3>4. Current(s0)'
      <4>1. \A i \in DOMAIN events : events[i].student # s0
        BY <2>1, <2>2, CurrentBut DEF Current, NoScore
      <4>2. NoBreach => Wanted(s0) = SCORE_DEFAULT_FIRST_TIME
        BY <4>1, NobodyIsDefault
      <4>3. Wanted(s0)' = Wanted(s0)
        <5>1. CeilingEvent(s0)' <=> CeilingEvent(s0)
          BY <2>1 DEF CeilingEvent
        <5>2. ASSUME NEW d \in Dimension
              PROVE  Computed(s0, d)' = Computed(s0, d)
          <6>1. ActiveOf(s0, d)' = ActiveOf(s0, d)
            BY <2>1 DEF ActiveOf
          <6> QED
            BY <2>1, <6>1, ComputedKept
        <5> QED
          BY <5>1, <5>2, WantedKept
      <4>4. NoBreach' => NoBreach
        BY <2>1 DEF NoBreach
      <4>5. SCORE_DEFAULT_FIRST_TIME # None
        BY ScoreAssumption DEF SCORE_DEFAULT_FIRST_TIME
      <4> QED
        BY <3>2, <4>2, <4>3, <4>4, <4>5 DEF Current
    <3>5. ASSUME NEW s \in Student
          PROVE  Current(s)' \/ (Behind(r)' /\ req'[r].student = s)
      BY <2>1, <3>2, <3>4, CurrentBut, CurrentStays
    <3>6. Tracks(r)'
      BY <3>3 DEF Tracks
    <3> QED
      BY <1>1, <3>5, <3>6, FollowGoesOn
  <2>3. CASE forsa[s0] # NoScore
    <3>1. Raise(r) /\ forsa' = forsa
      BY <1>2, <1>16, <2>3 DEF InsertScore
    <3>2. req'[r].pc = "failed"
      BY <1>1, <3>1, ScoreRaise
    <3>3. Tracks(r)'
      BY <3>2 DEF Tracks
    <3> QED
      BY <1>1, <2>1, <3>1, <3>3, FollowRests
  <2> QED
    BY <2>2, <2>3
<1> QED
  BY <1>4, <1>5, <1>6, <1>7, <1>8, <1>9, <1>10, <1>11, <1>12, <1>13, <1>14, <1>15, <1>16
     DEF ScoreStep

LEMMA AlwaysFollows ==
  ASSUME MaxInFlight <= 1, MayThrow \cap {"recordEvent", "correct"} = {},
         Total(Dimension, Weight) = 100
  PROVE  Spec => []ScoreFollowsLog
<1> DEFINE Inv == ScoreCut \/ FollowInv
<1>1. Init => Inv
  BY DEF Init, ServerInit, ScoreInit, NoScore, FollowInv, Current, Tracks, Rater
<1>2. Tabled /\ InTurn /\ EngineInv /\ ScoreInv /\ Inv /\ [Next]_vars => Inv'
  <2> SUFFICES ASSUME Tabled, InTurn, EngineInv, ScoreInv, Inv, [Next]_vars PROVE Inv'
    OBVIOUS
  <2>1. CASE UNCHANGED vars
    <3>1. req' = req /\ events' = events /\ forsa' = forsa /\ corrective' = corrective
      BY <2>1 DEF vars, server, core, scores
    <3>2. CASE ScoreCut
      BY <3>1, <3>2 DEF ScoreCut, Rater
    <3>3. CASE FollowInv
      <4>1. ASSUME NEW s \in Student
            PROVE  (Current(s) \/ \E r \in Req : Behind(r) /\ req[r].student = s)'
        <5>1. CASE Current(s)
          BY <3>1, <5>1, CurrentStays
        <5>2. CASE \E r \in Req : Behind(r) /\ req[r].student = s
          BY <3>1, <5>2 DEF Behind, Rater
        <5> QED
          BY <3>3, <5>1, <5>2 DEF FollowInv
      <4>2. ASSUME NEW r \in Req, Rater(r), NEW s \in Student, req[r].student = s
            PROVE  /\ \A d : Computed(s, d)' = Computed(s, d)
                   /\ CeilingEvent(s)' = CeilingEvent(s)
        <5>1. \A d : ActiveOf(s, d)' = ActiveOf(s, d)
          BY <3>1 DEF ActiveOf
        <5>2. CeilingEvent(s)' = CeilingEvent(s)
          BY <3>1 DEF CeilingEvent
        <5> QED
          BY <3>1, <5>1, <5>2, ComputedKept
      <4>3. ASSUME NEW r \in Req
            PROVE  Tracks(r)'
        <5>1. Tracks(r)
          BY <3>3 DEF FollowInv
        <5> QED
          BY <3>1, <4>2, <5>1 DEF Tracks, Rater
      <4> QED
        BY <4>1, <4>3 DEF FollowInv
    <3> QED
      BY <3>2, <3>3
  <2>2. ASSUME NEW r \in Req, Step(r) \/ Break(r)
        PROVE  Inv'
    <3>1. Turn(r) /\ (req[r].pc = "idle" \/ r \in InFlight)
      BY <2>2, TurnOfStep
    <3>2. \A q \in Req : q # r => req'[q] = req[q]
      <4>1. CASE Step(r)
        BY <4>1, StepKeeps DEF Keeps
      <4>2. CASE Break(r)
        BY <4>2, BreakEnds
      <4> QED
        BY <2>2, <4>1, <4>2
    <3>3. CASE ScoreCut
      <4>1. PICK q \in Req : Rater(q) /\ req[q].pc = "died"
        BY <3>3 DEF ScoreCut
      <4>2. q # r
        BY <3>1, <4>1 DEF InFlight, Ended
      <4> QED
        BY <3>2, <4>1, <4>2 DEF ScoreCut, Rater
    <3>4. CASE FollowInv /\ Step(r)
      <4>1. CASE ScoreStep(r) /\ Handles(r, CoreOps)
        BY <3>1, <3>4, <4>1, FollowStep
      <4>2. CASE UNCHANGED scores /\ req[r].op \notin ScoreOps /\ req'[r].op \notin ScoreOps
        <5>1. ~Behind(r) /\ Tracks(r)' /\ events' = events /\ forsa' = forsa
          BY <4>2 DEF Behind, Rater, Tracks, scores, ScoreOps
        <5> QED
          BY <3>1, <3>2, <3>4, <5>1, FollowRests
      <4> QED
        BY <3>4, <4>1, <4>2, ScoreOrElse
    <3>5. CASE FollowInv /\ Break(r)
      <4>1. /\ UNCHANGED scores /\ req'[r].op = req[r].op
            /\ req[r].op \in ScoreOps =>
                 req'[r].pc = "died" \/ (req'[r].pc = "failed" /\ req[r].op \in MayThrow)
        BY <3>5, ScoreBreaks
      <4>2. CASE Rater(r)
        <5>1. req'[r].pc = "died"
          BY <4>1, <4>2 DEF Rater, ScoreOps
        <5> QED
          BY <4>1, <4>2, <5>1 DEF ScoreCut, Rater
      <4>3. CASE ~Rater(r)
        <5>1. ~Behind(r) /\ Tracks(r)' /\ events' = events /\ forsa' = forsa
          BY <4>1, <4>3 DEF Behind, Rater, Tracks, scores
        <5> QED
          BY <3>1, <3>2, <3>5, <5>1, FollowRests
      <4> QED
        BY <4>2, <4>3
    <3> QED
      BY <2>2, <3>3, <3>4, <3>5
  <2> QED
    BY <2>1, <2>2 DEF Next
<1>3. ScoreInv /\ Inv => ScoreFollowsLog
  <2> SUFFICES ASSUME ScoreInv, Inv, AllServed, NoBreach, NEW s \in Student, forsa[s] # NoScore
               PROVE  forsa[s].score = Wanted(s)
    BY DEF ScoreFollowsLog, NoBreach, Wanted
  <2>1. ~ScoreCut /\ \A r \in Req : ~Behind(r)
    BY DEF AllServed, ScoreCut, Behind
  <2>2. Current(s)
    BY <2>1 DEF FollowInv
  <2>3. forsa[s].score # None
    BY DEF ScoreInv, NoScore
  <2> QED
    BY <2>2, <2>3 DEF Current
<1> QED
  BY <1>1, <1>2, <1>3, AlwaysTabled, AlwaysScore, AlwaysInTurn, EngineInvariant, PTL DEF Spec

\* Once the requests have been served the score of a student is the one the
\* events that count give (recordEvent, createCorrectiveEvent, recomputeAggregate),
\* and the one the score was created with (getScore) when there are none: one
\* request at a time, none of them failing between its statements, and weights
\* that sum to one (docs/PRODUCTION_CHECKLIST.md).
THEOREM ScoreIsOfTheLog ==
  ASSUME MaxInFlight <= 1, MayThrow \cap {"recordEvent", "correct"} = {},
         FoldFunction(+, 0, Weight) = 100
  PROVE  Spec => []ScoreFollowsLog
<1> DEFINE f == CHOOSE iter : iter = [s \in SUBSET (DOMAIN Weight) |->
                  IF s = {} THEN 0
                  ELSE Weight[CHOOSE x \in s : TRUE] + iter[s \ {CHOOSE x \in s : TRUE}]]
<1>1. f[DOMAIN Weight] = 100
  BY DEF FoldFunction, FoldFunctionOnSet, MapThenFoldSet
<1>2. IsFiniteSet(Dimension) /\ DOMAIN Weight = Dimension
  BY ONLY ScoreAssumption
<1>3. PICK g : Sums(g, Dimension, Weight)
  BY ONLY <1>2, SumsExist
<1>4. g = [s \in SUBSET (DOMAIN Weight) |->
             IF s = {} THEN 0
             ELSE Weight[CHOOSE x \in s : TRUE] + g[s \ {CHOOSE x \in s : TRUE}]]
  BY ONLY <1>2, <1>3 DEF Sums, First
<1>5. Sums(f, Dimension, Weight)
  BY ONLY <1>2, <1>4 DEF Sums, First
<1>6. Total(Dimension, Weight) = 100
  <2>1. f[Dimension] = 100
    BY ONLY <1>1, <1>2
  <2> HIDE DEF f
  <2> QED
    BY ONLY <1>2, <1>5, <2>1, SumIsTotal
<1> QED
  BY ONLY <1>6, MaxInFlight <= 1, MayThrow \cap {"recordEvent", "correct"} = {}, AlwaysFollows

-------------------------------------------------------------------------------
(***************************************************************************)
(* The tables of all services, and the connections.                         *)
(***************************************************************************)
HoldsOrIs(r) == holding' \subseteq holding \cup {r}

LEMMA PeopleHold ==
  ASSUME NEW r \in Req,
         \/ GuarantorsStep(r) \/ AccountsStep(r) \/ MembershipStep(r) \/ MeetingsStep(r)
  PROVE  HoldsOrIs(r)
<1> USE DEF HoldsOrIs, Begin, Goto, Raise, Rollback, Return, server
<1>1. CASE GuarantorsStep(r)
  BY <1>1 DEF GuarantorsStep, Invite, InsertGuarantor, InsertLink, Resend, RenewToken, Accept,
     CheckAccount, AccountExists, AcceptTransaction, Decline, MarkDeclined, ClearToken, FindLinked,
     StatementRefused
<1>2. CASE AccountsStep(r)
  BY <1>2 DEF AccountsStep, WrongPassword, CountFailure, RightPassword, ResetFailures,
     CreateChallenge, VerifyMfa, GetSecret, CodeRefused, UseChallenge, ReadPermissions,
     InsertSession, MarkActive, UseSession, RefreshToken, ExpireSession, Logout, ReadAccount,
     ChangeAccount, CloseAll, FindSetupToken, SetPassword, CreateUser, InsertUser, UserExists,
     InsertRole, UpdateUser, SaveUser, RevokeRole, AssignRole, EnableMfa, SetMfaFlag
<1>3. CASE MembershipStep(r)
  BY <1>3 DEF MembershipStep, Apply, FindWish, FindPass, Blacklist, VerifyPass, CheckMember,
     InsertRequest, CheckOwner, Provision, ProvisionRefused, RejectWish, RevokePass
<1>4. CASE MeetingsStep(r)
  BY <1>4 DEF MeetingsStep, Schedule, Book, FindMeeting, LeaveMeeting, Rebook, MarkMeeting,
     TellStudent, TellGuarantor, InsertMeeting
<1> QED
  BY <1>1, <1>2, <1>3, <1>4

LEMMA FilesHold ==
  ASSUME NEW r \in Req,
         \/ PolicyStep(r) \/ DocumentsStep(r) \/ UniversitiesStep(r) \/ AssessmentStep(r)
  PROVE  HoldsOrIs(r)
<1> USE DEF HoldsOrIs, Begin, Goto, Raise, Rollback, Return, server
<1>1. CASE PolicyStep(r)
  BY <1>1 DEF PolicyStep, Propose, InsertProposal, FindProposal, Approve, Invalidate, CacheHit,
     ReadPolicies, RecordConflict, NoConflict, FillCache
<1>2. CASE DocumentsStep(r)
  BY <1>2 DEF DocumentsStep, RequestUpload, InsertDocument, FindUpload, MarkUploaded,
     ListDocument, ReadForReview, MarkReviewed, MarkEntry, ReadForView, LogView
<1>3. CASE UniversitiesStep(r)
  BY <1>3 DEF UniversitiesStep, FindName, FindUniversity, StoreName, LinkAccount, LinkUniversity,
     Draft, InsertAgreement, InsertTranche, TranchesRefused, FindAgreement, ExpireOthers, Enact,
     Suspend, OpenEvent
<1>4. CASE AssessmentStep(r)
  BY <1>4 DEF AssessmentStep, Answer, Upsert, UpdateTotal, Incomplete, ReadRow, Submit,
     StartInterview, LogCorrection, Rescore
<1> QED
  BY <1>1, <1>2, <1>3, <1>4

LEMMA CoreHolds ==
  ASSUME NEW r \in Req, CoreStep(r)
  PROVE  HoldsOrIs(r)
<1> USE DEF HoldsOrIs, Begin, Goto, Raise, Rollback, Return, server
<1>1. CASE ContractsStep(r)
  BY <1>1 DEF ContractsStep, GenerateRead, Send, SignRead, ReadVersion, PutTerms, InsertContract,
     FindDraft, NoDraft, MarkSent, InsertSignature, CountSignatures, MarkSigned
<1>2. CASE ExecutionStep(r)
  BY <1>2 DEF ExecutionStep, Lookup, Replay, InsertLedger, MarkExecuting, BeginTransaction,
     UnknownAction, Disburse, QueueEvent, EndTransaction, Commit, MarkFailed, ReadOutbox,
     HandleEvent, EventFails, RetryEvent, Drained
<1>3. CASE ScoreStep(r)
  BY <1>3 DEF ScoreStep, RecordEvent, FindOriginal, GetScore, Reconcile, ReadBalance, InsertEvent,
     WriteBalance, SumDimension, Summed, ReadCeiling, WriteScore, CheckCorrective, Supersede,
     InsertCorrective, DuplicateCorrective, CheckCeiling, LiftCeiling, InsertScore,
     InitializeBalance, Compare, Report
<1> QED
  BY <1>1, <1>2, <1>3 DEF CoreStep

LEMMA AlwaysHeld == Spec => [](holding \subseteq Req)
<1>0. Init => holding \subseteq Req
  BY DEF Init, ServerInit
<1>1. holding \subseteq Req /\ [Next]_vars => (holding \subseteq Req)'
  <2> SUFFICES ASSUME holding \subseteq Req, [Next]_vars PROVE holding' \subseteq Req
    OBVIOUS
  <2>1. CASE UNCHANGED vars
    BY <2>1 DEF vars, server
  <2>2. ASSUME NEW r \in Req, Step(r) \/ Break(r)
        PROVE  HoldsOrIs(r)
    <3>1. CASE Step(r)
      BY <3>1, PeopleHold, FilesHold, CoreHolds DEF Step
    <3>2. CASE Break(r)
      BY <3>2 DEF Break, Throw, Crash, Raise, Rollback, HoldsOrIs
    <3> QED
      BY <2>2, <3>1, <3>2
  <2> QED
    BY <2>1, <2>2 DEF Next, HoldsOrIs
<1> QED
  BY <1>0, <1>1, PTL DEF Spec

\* The tables of the eleven services hold rows of their types, whatever requests
\* cross, throw or are cut off: no handler stores a column from a row it has not
\* read or from a branch it has not taken; and who keeps a connection is a request.
THEOREM TypesHold == Spec => []TypeOK
<1>1. /\ holding \subseteq Req
      /\ EngineInv /\ ScoreInv /\ GuarantorsInv /\ LockInv /\ MemberInv /\ MeetingInv
      /\ PolicyInv /\ PaperInv /\ CollegeInv /\ AssessmentInv
      => TypeOK
  <2> SUFFICES ASSUME holding \subseteq Req, EngineInv, ScoreInv, GuarantorsInv, LockInv,
                      MemberInv, MeetingInv, PolicyInv, PaperInv, CollegeInv, AssessmentInv
               PROVE  TypeOK
    OBVIOUS
  <2>1. ContractsTypeOK /\ ExecutionTypeOK /\ ScoreTypeOK
    BY ScoreTyped DEF EngineInv
  <2>2. GuarantorsTypeOK /\ AccountsTypeOK /\ MembershipTypeOK /\ MeetingsTypeOK
    BY DEF GuarantorsInv, LockInv, MemberInv, MeetingInv
  <2>3. PolicyTypeOK /\ DocumentsTypeOK /\ UniversitiesTypeOK /\ AssessmentTypeOK
    BY AssessmentTyped DEF PolicyInv, PaperInv, CollegeInv
  <2> QED
    BY <2>1, <2>2, <2>3 DEF TypeOK
<1> QED
  BY <1>1, AlwaysHeld, EngineInvariant, AlwaysScore, AlwaysGuarantors, AlwaysLocks, AlwaysMembers,
     AlwaysMeetings, AlwaysPolicy, AlwaysPapers, AlwaysColleges, AlwaysAssessment, PTL
===============================================================================
