----------------------------- MODULE PipelineProofs -----------------------------
(***************************************************************************)
(* What holds of applications and the decision pipeline for all             *)
(* applications, reviewers and requests, whatever interleaves and whatever  *)
(* fails.                                                                   *)
(***************************************************************************)
EXTENDS CaseFile, FiniteSetTheorems, SequenceTheorems, TLAPS

\* Where a handler is before it inserts a run, and where it may be after.
Reviewing == {"voted", "vote", "tally", "count", "partial", "mark"}
Before    == {"idle", "look", "insert", "opened", "snapshot", "number", "run", "condemn",
              "appeal"} \cup Reviewing
After     == {"supersede", "current", "stage", "waiting", "decision", "level", "complete",
              "trace", "cancel"}
Nowhere   == {"idle", "look", "insert", "done", "failed"}
Moving    == {"check", "update"}
Raising   == {"tier", "membership", "raise"}

Decided(a, d) == \E q \in RunsOf(a) : run[q].decision = d
Listed(a)     == \E e \in queue : e.app = a

\* What a handler needs where it is.
Equipped(r) ==
  /\ req[r].pc \notin Nowhere \/ req[r].catch = "cancel" => req[r].app # None
  /\ req[r].app # None => Exists(req[r].app)
  /\ req[r].pc \in {"look", "insert"} => req[r].student # None
  /\ req[r].pc \in Moving \cup {"history"} => req[r].target # None
  /\ req[r].pc = "appeal" => req[r].target = "appealing"
  /\ req[r].pc \in {"update", "history"} => Allowed(req[r].seen, req[r].target)
  /\ req[r].pc \in Raising => req[r].tier # None
  /\ req[r].pc \in Reviewing => /\ req[r].op \in {"decide", "override"}
                                /\ ctx[r].of # None /\ ctx[r].vote # None /\ ctx[r].voter # None
  /\ req[r].pc \in {"waiting", "decision"} => ctx[r].stage = 9
  /\ req[r].pc \in Moving \cup {"history"} \cup Raising /\ req[r].back = "stage" =>
       ctx[r].stage = 9

\* What a handler has made of its run, its decision and its approval set.
RunKnown(r) ==
  /\ req[r].pc \in Before => run[r].status = "absent" /\ ctx[r].decision = None /\ set[r] = None
  /\ req[r].pc \in {"supersede", "current"} => ctx[r].decision = None
  /\ req[r].pc \in After \/ req[r].catch = "cancel" \/ req[r].back # "done"
       => run[r].status # "absent"
  /\ run[r].status # "absent" =>
       /\ run[r].app = req[r].app /\ run[r].app # None
       /\ run[r].number \in Nat \ {0}
       /\ run[r].decision = IF ctx[r].stage = 10 THEN ctx[r].decision ELSE None
  /\ set[r] # None => ctx[r].stage \in {9, 10}

\* What a handler relies on in the rows others have written.
Founded(r) ==
  /\ req[r].pc = "run" => /\ ctx[r].number \in Nat \ {0}
                          /\ ctx[r].number > 1 => ctx[r].number - 1 \in NumberIn(req[r].app)
  /\ req[r].pc \in Moving /\ req[r].target \in Approved \ ByHand =>
       Decided(req[r].app, req[r].target)
  /\ req[r].pc \in Moving /\ req[r].target = "capital_queue" /\ "capital_queue" \notin ByHand =>
       Listed(req[r].app)
  /\ req[r].pc = "decision" \/ (req[r].pc = "stage" /\ ctx[r].stage = 10) =>
       (ctx[r].decision = "capital_queue" => Listed(req[r].app))
  /\ req[r].pc \in {"count", "partial", "mark"} => set[ctx[r].of] # None
  /\ req[r].pc = "tally" => \E k \in 1..Len(votes) : /\ votes[k].run = ctx[r].of
                                                     /\ votes[k].decision = ctx[r].vote
  /\ req[r].pc = "mark" /\ req[r].op # "override" /\ ctx[r].vote = "approved" =>
       Approvers(ctx[r].of) >= set[ctx[r].of].required

\* The tables.
Numbered ==
  /\ \A p, q \in Req :
       /\ run[p].status # "absent"
       /\ run[q].status # "absent"
       /\ run[p].app = run[q].app
       /\ run[p].number = run[q].number
       => p = q
  /\ \A q \in Req : run[q].status # "absent" /\ run[q].number > 1 =>
       run[q].number - 1 \in NumberIn(run[q].app)

ApprovedIsDecided == \A a \in App : app[a].status \in Approved \ ByHand => Decided(a, app[a].status)

WaitsOnList == "capital_queue" \notin ByHand =>
                 \A a \in App : app[a].status = "capital_queue" => Listed(a)

ApprovedByEnough == \A q \in Req : set[q] # None /\ set[q].status = "approved" =>
                      Approvers(q) >= set[q].required

Handlers == \A r \in Req : Equipped(r) /\ RunKnown(r) /\ Founded(r)
Rows     == Numbered /\ ApprovedIsDecided /\ WaitsOnList /\ ApprovedByEnough
IInv     == TypeOK /\ Handlers /\ Rows

-------------------------------------------------------------------------------
(***************************************************************************)
(* How a handler moves.                                                     *)
(***************************************************************************)
Others(r) == \A q \in Req \ {r} : req'[q] = req[q]

\* Everything in a handler's record but where it is.
Keeps(h, g) == /\ g.op = h.op /\ g.student = h.student /\ g.app = h.app
               /\ g.target = h.target /\ g.tier = h.tier /\ g.seen = h.seen
               /\ g.back = h.back /\ g.catch = h.catch

LEMMA Replaces ==
  ASSUME req \in [Req -> HandlerRow], NEW r \in Req, NEW h \in HandlerRow,
         req' = [req EXCEPT ![r] = h]
  PROVE  req' \in [Req -> HandlerRow] /\ req'[r] = h /\ Others(r)
BY DEF Others

LEMMA GotoEffect ==
  ASSUME req \in [Req -> HandlerRow], NEW r \in Req, NEW pc \in Where, Goto(r, pc)
  PROVE  /\ req' \in [Req -> HandlerRow] /\ Others(r)
         /\ req'[r].pc = pc /\ Keeps(req[r], req'[r])
<1> DEFINE h == [req[r] EXCEPT !.pc = pc]
<1>1. req[r] \in HandlerRow
  OBVIOUS
<1>2. h \in HandlerRow
  BY <1>1 DEF HandlerRow
<1>3. req' = [req EXCEPT ![r] = h]
  BY DEF Goto
<1>4. h.pc = pc /\ Keeps(req[r], h)
  BY <1>1 DEF HandlerRow, Keeps
<1> HIDE DEF h
<1> QED
  BY <1>2, <1>3, <1>4, Replaces

LEMMA HandlerTyped ==
  ASSUME NEW op \in AllOps, NEW pc \in Where, NEW a \in App \cup {None},
         NEW target \in Status \cup {None}, NEW tier \in Tier \cup {None}
  PROVE  Handler(op, pc, a, target, tier) \in HandlerRow
BY DEF Handler, HandlerRow

LEMMA InitIInv == Init => IInv
<1> SUFFICES ASSUME Init PROVE IInv
  OBVIOUS
<1> USE NullAssumption, OwnerAssumption DEF Init, AppInit
<1>1. req \in [Req -> HandlerRow]
  BY DEF HandlerRow, Where, Handler
<1>2. app \in [App -> AppRow]
  BY DEF AppRow, Row, Status, Undecided
<1>3. history \in [App -> Seq(HistoryRow)]
  <2> SUFFICES ASSUME NEW a \in App PROVE Past(Opened[a]) \in Seq(HistoryRow)
    OBVIOUS
  <2>1. [from |-> None, to |-> "new_lead"] \in HistoryRow
        /\ [from |-> "new_lead", to |-> "under_review"] \in HistoryRow
    BY DEF HistoryRow, Status, Undecided
  <2>2. Opening \in Seq(HistoryRow)
    BY <2>1 DEF Opening
  <2>3. Append(Opening, [from |-> "new_lead", to |-> "under_review"]) \in Seq(HistoryRow)
    BY <2>1, <2>2
  <2>4. <<>> \in Seq(HistoryRow)
    OBVIOUS
  <2> QED
    BY <2>2, <2>3, <2>4 DEF Past
<1>4. run \in [Req -> RunRow]
  BY DEF RunRow, RunStatus, NoRun
<1>5. ctx \in [Req -> ContextRow]
  BY DEF ContextRow, Context
<1>6. TypeOK
  BY <1>1, <1>2, <1>3, <1>4, <1>5 DEF TypeOK, Membership
<1>7. ASSUME NEW r \in Req PROVE Equipped(r) /\ RunKnown(r) /\ Founded(r)
  <2>1. req[r].pc = "idle" /\ req[r].catch = "failed" /\ req[r].back = "done" /\ req[r].app = None
    BY DEF Handler
  <2>2. run[r].status = "absent" /\ set[r] = None /\ ctx[r].decision = None
    BY DEF NoRun, Context
  <2>3. Equipped(r)
    BY <2>1 DEF Equipped, Nowhere, Moving, Raising, Reviewing
  <2>4. RunKnown(r)
    BY <2>1, <2>2 DEF RunKnown, After
  <2>5. Founded(r)
    BY <2>1 DEF Founded, Moving
  <2> QED
    BY <2>3, <2>4, <2>5
<1>8. Rows
  <2>1. \A a \in App : app[a].status \in {"absent", "new_lead", "under_review"}
    BY DEF Row
  <2>2. \A q \in Req : run[q].status = "absent" /\ set[q] = None
    BY DEF NoRun
  <2>3. ApprovedIsDecided /\ WaitsOnList
    BY <2>1 DEF ApprovedIsDecided, WaitsOnList, Approved
  <2>4. Numbered
    BY <2>2 DEF Numbered
  <2>5. ApprovedByEnough
    BY <2>2 DEF ApprovedByEnough
  <2> QED
    BY <2>3, <2>4, <2>5 DEF Rows
<1> QED
  BY <1>6, <1>7, <1>8 DEF IInv, Handlers

-------------------------------------------------------------------------------
(***************************************************************************)
(* What every step keeps: nothing is deleted, and a handler writes nothing  *)
(* another one relies on but to add to it.                                  *)
(***************************************************************************)
Grows ==
  /\ \A q \in Req : run[q].status # "absent" =>
       /\ run'[q].status # "absent" /\ run'[q].app = run[q].app
       /\ run'[q].number = run[q].number
       /\ run[q].decision # None => run'[q].decision = run[q].decision
  /\ \A a \in App : Exists(a) => Exists(a)'
  /\ queue \subseteq queue'
  /\ \A q \in Req : set[q] # None => set'[q] # None /\ set'[q].required = set[q].required
  /\ Len(votes) <= Len(votes') /\ \A k \in 1..Len(votes) : votes'[k] = votes[k]

Apart(r) ==
  /\ Others(r)
  /\ \A q \in Req \ {r} : /\ ctx'[q] = ctx[q]
                          /\ run[q].status = "absent" => run'[q].status = "absent"
                          /\ run'[q].decision = run[q].decision
                          /\ set[q] = None => set'[q] = None

\* A finite number of rows names a finite number of people.
LEMMA ImageIsFinite ==
  ASSUME NEW S, IsFiniteSet(S), NEW f
  PROVE  IsFiniteSet({f[k].voter : k \in S})
<1> DEFINE g == [k \in S |-> f[k].voter]
           T == {f[k].voter : k \in S}
<1>1. g \in Surjection(S, T)
  BY DEF Surjection
<1> QED
  BY <1>1, FS_Surjection

\* Votes are only added, so the people who approve of a run only become more.
LEMMA ApproversGrow ==
  ASSUME votes \in Seq(VoteRow), votes' \in Seq(VoteRow), Grows, NEW q \in Req
  PROVE  Approvers(q) \in Nat /\ Approvers(q)' \in Nat /\ Approvers(q) <= Approvers(q)'
<1> DEFINE who == {votes[k].voter : k \in Approvals(q)}
<1>1. Approvals(q) \subseteq 1..Len(votes) /\ Approvals(q)' \subseteq 1..Len(votes')
  BY DEF Approvals, VotesOn
<1>7. Len(votes) \in Nat /\ Len(votes') \in Nat
  BY LenProperties
<1>2. IsFiniteSet(1..Len(votes)) /\ IsFiniteSet(1..Len(votes'))
  BY <1>7, FS_Interval
<1>3. IsFiniteSet(Approvals(q)) /\ IsFiniteSet(Approvals(q)')
  BY <1>1, <1>2, FS_Subset
<1>4. IsFiniteSet(who)
  BY <1>3, ImageIsFinite
<1>5. IsFiniteSet(who')
  BY <1>3, ImageIsFinite
<1>6. who \subseteq who'
  BY DEF Grows, Approvals, VotesOn
<1> QED
  BY <1>4, <1>5, <1>6, FS_Subset, FS_CardinalityType DEF Approvers

\* What is written down stays.
LEMMA FactsStay ==
  ASSUME Grows, NEW a
  PROVE  /\ RunsOf(a) \subseteq RunsOf(a)'
         /\ NumberIn(a) \subseteq NumberIn(a)'
         /\ \A d : d # None /\ Decided(a, d) => Decided(a, d)'
         /\ Listed(a) => Listed(a)'
<1>1. RunsOf(a) \subseteq RunsOf(a)'
  BY DEF Grows, RunsOf
<1>2. NumberIn(a) \subseteq NumberIn(a)'
  BY <1>1 DEF Grows, RunsOf, NumberIn
<1>3. ASSUME NEW d, d # None, Decided(a, d) PROVE Decided(a, d)'
  BY <1>1, <1>3 DEF Grows, RunsOf, Decided
<1>4. Listed(a) => Listed(a)'
  BY DEF Grows, Listed
<1> QED
  BY <1>1, <1>2, <1>3, <1>4

\* A step of one handler leaves all others equipped and founded as they were.
LEMMA OthersOK ==
  ASSUME IInv, votes' \in Seq(VoteRow), NEW r \in Req, Apart(r), Grows, NEW q \in Req \ {r}
  PROVE  Equipped(q)' /\ RunKnown(q)' /\ Founded(q)'
<1>1. /\ req'[q] = req[q] /\ ctx'[q] = ctx[q]
      /\ Equipped(q) /\ RunKnown(q) /\ Founded(q)
  BY DEF Apart, Others, IInv, Handlers
<1>2. req[q] \in HandlerRow /\ ctx[q] \in ContextRow /\ set \in [Req -> SetRow \cup {None}]
  BY DEF IInv, TypeOK
<1>3. Equipped(q)'
  BY <1>1, <1>2 DEF Equipped, Grows, HandlerRow
<1>4. RunKnown(q)'
  BY <1>1, <1>2 DEF RunKnown, Grows, Apart
<1>5. Founded(q)'
  <2>1. None \notin Approved
    BY NullAssumption DEF Status
  <2>2. req[q].pc = "run" => /\ ctx[q].number \in Nat \ {0}
                             /\ ctx[q].number > 1 => ctx[q].number - 1 \in NumberIn(req[q].app)'
    BY <1>1, FactsStay DEF Founded
  <2>3. req[q].pc \in Moving /\ req[q].target \in Approved \ ByHand =>
          Decided(req[q].app, req[q].target)'
    BY <1>1, <2>1, FactsStay DEF Founded
  <2>4. /\ req[q].pc \in Moving /\ req[q].target = "capital_queue" /\ "capital_queue" \notin ByHand =>
             Listed(req[q].app)'
        /\ req[q].pc = "decision" \/ (req[q].pc = "stage" /\ ctx[q].stage = 10) =>
             (ctx[q].decision = "capital_queue" => Listed(req[q].app)')
    BY <1>1, FactsStay DEF Founded
  <2>5. req[q].pc \in {"count", "partial", "mark"} =>
          ctx[q].of \in Req /\ set[ctx[q].of] # None /\ set'[ctx[q].of] # None
    BY <1>1, <1>2 DEF Founded, Equipped, Grows, Reviewing, ContextRow
  <2>6. req[q].pc = "tally" => \E k \in 1..Len(votes') : /\ votes'[k].run = ctx[q].of
                                                         /\ votes'[k].decision = ctx[q].vote
    BY <1>1 DEF Founded, Grows, IInv, TypeOK
  <2>7. req[q].pc = "mark" /\ req[q].op # "override" /\ ctx[q].vote = "approved" =>
          Approvers(ctx[q].of)' >= set'[ctx[q].of].required
    <3> SUFFICES ASSUME req[q].pc = "mark", req[q].op # "override", ctx[q].vote = "approved"
                 PROVE  Approvers(ctx[q].of)' >= set'[ctx[q].of].required
      OBVIOUS
    <3>1. Approvers(ctx[q].of) >= set[ctx[q].of].required
      BY <1>1 DEF Founded
    <3>2. set'[ctx[q].of].required = set[ctx[q].of].required
      BY <2>5 DEF Grows
    <3>3. set[ctx[q].of].required \in Nat
      BY <1>2, <2>5 DEF SetRow
    <3>4. /\ Approvers(ctx[q].of) \in Nat /\ Approvers(ctx[q].of)' \in Nat
          /\ Approvers(ctx[q].of) <= Approvers(ctx[q].of)'
      <4>1. ASSUME NEW p \in Req
            PROVE  /\ Approvers(p) \in Nat /\ Approvers(p)' \in Nat
                   /\ Approvers(p) <= Approvers(p)'
        BY ApproversGrow DEF IInv, TypeOK
      <4>2. PICK p \in Req : p = ctx[q].of
        BY <2>5
      <4>3. ctx'[q].of = p
        BY <1>1, <4>2
      <4> QED
        BY <1>1, <4>1, <4>2, <4>3 DEF Approvers, Approvals, VotesOn
    <3> QED
      BY <3>1, <3>2, <3>3, <3>4
  <2> QED
    BY <1>1, <2>2, <2>3, <2>4, <2>5, <2>6, <2>7 DEF Founded
<1> QED
  BY <1>3, <1>4, <1>5

-------------------------------------------------------------------------------
(***************************************************************************)
(* The tables after a step.                                                 *)
(***************************************************************************)
\* A status that needs a decision, or a place on the list, has it.
Grounded(a, s) ==
  /\ s \in Approved \ ByHand => Decided(a, s)
  /\ s = "capital_queue" /\ "capital_queue" \notin ByHand => Listed(a)

LEMMA OtherRowsFrame ==
  ASSUME IInv, Grows, votes' \in Seq(VoteRow),
         \A a \in App : app'[a].status = app[a].status \/ Grounded(a, app'[a].status),
         \A q \in Req : set'[q] # None /\ set'[q].status = "approved" =>
           set[q] # None /\ (set[q].status = "approved" \/ Approvers(q) >= set[q].required)
  PROVE  ApprovedIsDecided' /\ WaitsOnList' /\ ApprovedByEnough'
<1>2. None \notin Approved
  BY NullAssumption DEF Status
<1>3. \A a \in App : app'[a].status \in Approved \ ByHand => Decided(a, app'[a].status)
  BY DEF IInv, Rows, ApprovedIsDecided, Grounded
<1>4. ApprovedIsDecided'
  <2>1. ASSUME NEW a \in App, app'[a].status \in Approved \ ByHand
        PROVE  \E q \in RunsOf(a)' : run'[q].decision = app'[a].status
    <3>1. PICK q \in RunsOf(a) : run[q].decision = app'[a].status
      BY <1>3, <2>1 DEF Decided
    <3>2. q \in RunsOf(a)' /\ run'[q].decision = app'[a].status
      BY <1>2, <2>1, <3>1 DEF Grows, RunsOf
    <3> QED
      BY <3>2
  <2> QED
    BY <2>1, Zenon DEF ApprovedIsDecided, Decided
<1>5. WaitsOnList'
  BY DEF IInv, Rows, WaitsOnList, Grounded, Listed, Grows
<1>6. ApprovedByEnough'
  <2> SUFFICES ASSUME NEW q \in Req, set'[q] # None, set'[q].status = "approved"
               PROVE  Approvers(q)' >= set'[q].required
    BY DEF ApprovedByEnough
  <2>1. set[q] # None /\ Approvers(q) >= set[q].required
    BY DEF IInv, Rows, ApprovedByEnough
  <2>2. set'[q].required = set[q].required /\ set[q].required \in Nat
    BY <2>1 DEF Grows, IInv, TypeOK, SetRow
  <2>3. Approvers(q) \in Nat /\ Approvers(q)' \in Nat /\ Approvers(q) <= Approvers(q)'
    BY ApproversGrow DEF IInv, TypeOK
  <2> QED
    BY <2>1, <2>2, <2>3
<1> QED
  BY <1>4, <1>5, <1>6

LEMMA RowsFrame ==
  ASSUME IInv, Grows, votes' \in Seq(VoteRow),
         \A a \in App : app'[a].status = app[a].status \/ Grounded(a, app'[a].status),
         \A q \in Req : run'[q].status # "absent" => run[q].status # "absent",
         \A q \in Req : set'[q] # None /\ set'[q].status = "approved" =>
           set[q] # None /\ (set[q].status = "approved" \/ Approvers(q) >= set[q].required)
  PROVE  Rows'
<1>1. Numbered'
  <2>1. \A q \in Req : run'[q].status # "absent" =>
          /\ run[q].status # "absent"
          /\ run'[q].app = run[q].app /\ run'[q].number = run[q].number
    BY DEF Grows
  <2>2. \A p, q \in Req : (/\ run'[p].status # "absent"
                           /\ run'[q].status # "absent"
                           /\ run'[p].app = run'[q].app
                           /\ run'[p].number = run'[q].number)
                          => p = q
    BY <2>1 DEF IInv, Rows, Numbered
  <2>3. ASSUME NEW q \in Req, run'[q].status # "absent", run'[q].number > 1
        PROVE  (run[q].number - 1 \in NumberIn(run[q].app))'
    <3>1. PICK a : a = run[q].app /\ a = run'[q].app
      BY <2>1, <2>3
    <3>2. run[q].number - 1 \in NumberIn(a)
      BY <2>1, <2>3, <3>1 DEF IInv, Rows, Numbered
    <3>3. run'[q].number - 1 \in NumberIn(a)'
      BY <2>1, <2>3, <3>2, FactsStay
    <3> QED
      BY <3>1, <3>3 DEF NumberIn, RunsOf
  <2> QED
    BY <2>2, <2>3, Zenon DEF Numbered
<1> QED
  BY <1>1, OtherRowsFrame DEF Rows

\* A step that writes applications, their history, members, the queue or appeals.
LEMMA Written ==
  ASSUME IInv, NEW r \in Req, req' \in [Req -> HandlerRow], Others(r),
         ctx' \in [Req -> ContextRow], \A q \in Req \ {r} : ctx'[q] = ctx[q],
         app' \in [App -> AppRow], history' \in [App -> Seq(HistoryRow)],
         member' \in [Student -> Membership],
         queue' \subseteq [run : Req, app : App], appeals' \subseteq [by : Req, app : App],
         queue \subseteq queue', UNCHANGED <<run, set, votes>>,
         \A a \in App : Exists(a) => app'[a].status # "absent",
         \A a \in App : app'[a].status = app[a].status \/ Grounded(a, app'[a].status)
  PROVE  TypeOK' /\ Apart(r) /\ Grows /\ Rows'
<1>1. TypeOK'
  BY DEF IInv, TypeOK
<1>2. Apart(r)
  BY DEF Apart
<1>3. Grows
  BY LenProperties DEF Grows, Exists, IInv, TypeOK
<1>4. Rows'
  BY <1>3, RowsFrame DEF IInv, TypeOK
<1> QED
  BY <1>1, <1>2, <1>3, <1>4

\* A step that writes runs, but inserts none.
LEMMA RunsWritten ==
  ASSUME IInv, NEW r \in Req, req' \in [Req -> HandlerRow], Others(r),
         ctx' \in [Req -> ContextRow], \A q \in Req \ {r} : ctx'[q] = ctx[q],
         run' \in [Req -> RunRow],
         \A q \in Req : /\ run'[q].status = "absent" <=> run[q].status = "absent"
                        /\ run'[q].app = run[q].app /\ run'[q].number = run[q].number
                        /\ q # r \/ run[q].decision # None => run'[q].decision = run[q].decision,
         UNCHANGED <<app, history, member, set, votes, queue, appeals>>
  PROVE  TypeOK' /\ Apart(r) /\ Grows /\ Rows'
<1>1. TypeOK'
  BY DEF IInv, TypeOK
<1>2. Apart(r)
  BY DEF Apart
<1>3. Grows
  BY LenProperties DEF Grows, Exists, IInv, TypeOK
<1>4. Rows'
  BY <1>3, RowsFrame DEF IInv, TypeOK
<1> QED
  BY <1>1, <1>2, <1>3, <1>4

\* A step that writes approval sets.
LEMMA SetsWritten ==
  ASSUME IInv, NEW r \in Req, req' \in [Req -> HandlerRow], Others(r),
         ctx' \in [Req -> ContextRow], \A q \in Req \ {r} : ctx'[q] = ctx[q],
         set' \in [Req -> SetRow \cup {None}],
         \A q \in Req : /\ set[q] # None => set'[q] # None /\ set'[q].required = set[q].required
                        /\ q # r /\ set[q] = None => set'[q] = None,
         \A q \in Req : set'[q] # None /\ set'[q].status = "approved" =>
           set[q] # None /\ (set[q].status = "approved" \/ Approvers(q) >= set[q].required),
         UNCHANGED <<app, history, member, run, votes, queue, appeals>>
  PROVE  TypeOK' /\ Apart(r) /\ Grows /\ Rows'
<1>1. TypeOK'
  BY DEF IInv, TypeOK
<1>2. Apart(r)
  BY DEF Apart
<1>3. Grows
  BY LenProperties DEF Grows, Exists, IInv, TypeOK
<1>4. Rows'
  BY <1>3, RowsFrame DEF IInv, TypeOK
<1> QED
  BY <1>1, <1>2, <1>3, <1>4

\* A step that touches no table: reads, decisions taken in memory, failures.
LEMMA Untouched ==
  ASSUME IInv, NEW r \in Req, req' \in [Req -> HandlerRow], Others(r),
         ctx' \in [Req -> ContextRow], \A q \in Req \ {r} : ctx'[q] = ctx[q],
         UNCHANGED <<app, history, member, run, set, votes, queue, appeals>>
  PROVE  TypeOK' /\ Apart(r) /\ Grows /\ Rows'
<1>1. TypeOK'
  BY DEF IInv, TypeOK
<1>2. Apart(r)
  BY DEF Apart
<1>3. Grows
  BY LenProperties DEF Grows, Exists, IInv, TypeOK
<1>4. Rows'
  BY <1>3, RowsFrame DEF IInv, TypeOK, Rows
<1> QED
  BY <1>1, <1>2, <1>3, <1>4

LEMMA Together ==
  ASSUME IInv, NEW r \in Req, TypeOK', Apart(r), Grows, Rows',
         Equipped(r)', RunKnown(r)', Founded(r)'
  PROVE  IInv'
<1>1. \A q \in Req \ {r} : Equipped(q)' /\ RunKnown(q)' /\ Founded(q)'
  BY OthersOK DEF TypeOK
<1> QED
  BY <1>1 DEF IInv, Handlers

-------------------------------------------------------------------------------
(***************************************************************************)
(* Handlers begin.                                                          *)
(***************************************************************************)
LEMMA Begins ==
  ASSUME IInv, NEW r \in Req, NEW h \in HandlerRow, req[r].pc = "idle", Begin(r, h),
         h.pc \notin After, h.catch = "failed", h.back = "done",
         ctx' \in [Req -> ContextRow], \A q \in Req \ {r} : ctx'[q] = ctx[q],
         ctx'[r].decision = ctx[r].decision,
         UNCHANGED <<app, history, member, run, set, votes, queue, appeals>>,
         Equipped(r)', Founded(r)'
  PROVE  IInv'
<1>1. req' \in [Req -> HandlerRow] /\ req'[r] = h /\ Others(r)
  BY Replaces DEF Begin, IInv, TypeOK
<1>2. TypeOK' /\ Apart(r) /\ Grows /\ Rows'
  BY <1>1, Untouched
<1>3. RunKnown(r)
  BY DEF IInv, Handlers
<1>4. RunKnown(r)'
  BY <1>1, <1>3 DEF RunKnown, Before
<1> QED
  BY <1>2, <1>4, Together

\* A run is of an application that exists.
LEMMA RunHasApp ==
  ASSUME IInv, NEW q \in Req, run[q].status # "absent"
  PROVE  run[q].app \in App /\ Exists(run[q].app) /\ run[q].app # None
<1>1. run[q].app = req[q].app /\ run[q].app # None
  BY DEF IInv, Handlers, RunKnown
<1>2. req[q].app \in App \cup {None}
  BY DEF IInv, TypeOK, HandlerRow
<1>3. Exists(req[q].app)
  BY <1>1 DEF IInv, Handlers, Equipped
<1> QED
  BY <1>1, <1>2, <1>3

LEMMA VoteContext ==
  ASSUME NEW c \in ContextRow, NEW q \in Req, NEW v \in Vote, NEW w \in Reviewer,
         NEW s \in 1..11
  PROVE  [c EXCEPT !.of = q, !.vote = v, !.voter = w, !.stage = s] \in ContextRow
BY DEF ContextRow

LEMMA StartIInv ==
  ASSUME IInv, NEW r \in Req, Start(r)
  PROVE  IInv'
<1> USE NullAssumption
<1>0. req[r] \in HandlerRow /\ ctx[r] \in ContextRow /\ ctx \in [Req -> ContextRow]
      /\ req \in [Req -> HandlerRow]
  BY DEF IInv, TypeOK
<1>1. CASE Apply(r) /\ UNCHANGED pipeVars
  <2>1. PICK s \in Student :
          Begin(r, [Handler("apply", "look", None, None, None) EXCEPT !.student = s])
    BY <1>1 DEF Apply
  <2> DEFINE h == [Handler("apply", "look", None, None, None) EXCEPT !.student = s]
  <2>2. h \in HandlerRow
    BY DEF Handler, HandlerRow, Where, AllOps
  <2>3. h.pc = "look" /\ h.catch = "failed" /\ h.back = "done" /\ h.student = s /\ h.app = None
    BY DEF Handler
  <2> HIDE DEF h
  <2>4. req'[r] = h
    BY <1>0, <2>1, <2>2, Replaces DEF Begin, h
  <2>5. Equipped(r)'
    BY <2>3, <2>4 DEF Equipped, Nowhere, Moving, Raising, Reviewing
  <2>6. Founded(r)'
    BY <2>3, <2>4 DEF Founded, Moving
  <2> QED
    BY <1>0, <1>1, <2>1, <2>2, <2>3, <2>5, <2>6, Begins DEF Apply, CanStart, pipeVars, After, h
<1>2. CASE Create(r) /\ UNCHANGED pipeVars
  <2>1. PICK s \in Student :
          Begin(r, [Handler("create", "insert", None, None, None) EXCEPT !.student = s])
    BY <1>2 DEF Create
  <2> DEFINE h == [Handler("create", "insert", None, None, None) EXCEPT !.student = s]
  <2>2. h \in HandlerRow
    BY DEF Handler, HandlerRow, Where, AllOps
  <2>3. h.pc = "insert" /\ h.catch = "failed" /\ h.back = "done" /\ h.student = s /\ h.app = None
    BY DEF Handler
  <2> HIDE DEF h
  <2>4. req'[r] = h
    BY <1>0, <2>1, <2>2, Replaces DEF Begin, h
  <2>5. Equipped(r)'
    BY <2>3, <2>4 DEF Equipped, Nowhere, Moving, Raising, Reviewing
  <2>6. Founded(r)'
    BY <2>3, <2>4 DEF Founded, Moving
  <2> QED
    BY <1>0, <1>2, <2>1, <2>2, <2>3, <2>5, <2>6, Begins DEF Create, CanStart, pipeVars, After, h
<1>3. CASE Transition(r) /\ UNCHANGED pipeVars
  <2>1. PICK a \in App, target \in ByHand, tier \in Tier \cup {None} :
          Exists(a) /\ Begin(r, Handler("transition", "check", a, target, tier))
    BY <1>3 DEF Transition
  <2> DEFINE h == Handler("transition", "check", a, target, tier)
  <2>2. target \in Status /\ target # None /\ a # None
    BY UseAssumption
  <2>3. h \in HandlerRow
    BY <2>2, HandlerTyped DEF Where, AllOps
  <2>4. /\ h.pc = "check" /\ h.catch = "failed" /\ h.back = "done" /\ h.app = a
        /\ h.target = target
    BY DEF Handler
  <2> HIDE DEF h
  <2>5. req'[r] = h
    BY <1>0, <2>1, <2>3, Replaces DEF Begin, h
  <2>6. Equipped(r)'
    BY <1>3, <2>1, <2>2, <2>4, <2>5
    DEF Equipped, Raising, Reviewing, Transition, Exists
  <2>7. Founded(r)'
    BY <2>4, <2>5 DEF Founded, Moving
  <2> QED
    BY <1>0, <1>3, <2>1, <2>3, <2>4, <2>6, <2>7, Begins DEF Transition, CanStart, pipeVars, After, h
<1>4. CASE StartRun(r)
  <2>1. PICK a \in App, s \in Reentry :
          /\ Exists(a)
          /\ Begin(r, Handler("start", "snapshot", a, None, None))
          /\ ctx' = [ctx EXCEPT ![r].stage = s]
    BY <1>4 DEF StartRun
  <2> DEFINE h == Handler("start", "snapshot", a, None, None)
  <2>2. h \in HandlerRow
    BY HandlerTyped DEF Where, AllOps
  <2>3. h.pc = "snapshot" /\ h.catch = "failed" /\ h.back = "done" /\ h.app = a /\ a # None
    BY DEF Handler
  <2> HIDE DEF h
  <2>4. req'[r] = h
    BY <1>0, <2>1, <2>2, Replaces DEF Begin, h
  <2>5. /\ ctx' \in [Req -> ContextRow] /\ \A q \in Req \ {r} : ctx'[q] = ctx[q]
        /\ ctx'[r].decision = ctx[r].decision
    BY <1>0, <2>1, PipelineAssumption DEF ContextRow
  <2>6. Equipped(r)'
    BY <1>4, <2>1, <2>3, <2>4 DEF Equipped, Moving, Raising, Reviewing, StartRun, Exists
  <2>7. Founded(r)'
    BY <2>3, <2>4 DEF Founded, Moving
  <2> QED
    BY <1>4, <2>1, <2>2, <2>3, <2>5, <2>6, <2>7, Begins DEF StartRun, CanStart, After, h
<1>5. CASE ReviewRun(r)
  <2>1. PICK op \in {"decide", "override"}, q \in Req, who \in Reviewer, b \in Ballots :
          /\ CanStart(r, op)
          /\ run[q].status = "active"
          /\ op = "override" => b[1] \in {"approved", "rejected"}
          /\ Begin(r, Handler(op, IF op = "decide" THEN "voted" ELSE "vote",
                              run[q].app, None, b[2]))
          /\ ctx' = [ctx EXCEPT ![r].of = q, ![r].vote = b[1], ![r].voter = who, ![r].stage = 9]
    BY <1>5 DEF ReviewRun
  <2> DEFINE h == Handler(op, IF op = "decide" THEN "voted" ELSE "vote", run[q].app, None, b[2])
  <2>2. b[1] \in Vote /\ b[2] \in Tier \cup {None}
    BY PipelineAssumption
  <2>3. run[q].app \in App /\ Exists(run[q].app) /\ run[q].app # None
    BY <2>1, RunHasApp
  <2>4. h \in HandlerRow
    BY <2>2, <2>3, HandlerTyped DEF Where, AllOps
  <2>5. /\ h.pc \in {"voted", "vote"} /\ h.catch = "failed" /\ h.back = "done"
        /\ h.app = run[q].app /\ h.op = op
    BY DEF Handler
  <2> HIDE DEF h
  <2>6. req'[r] = h
    BY <1>0, <2>1, <2>4, Replaces DEF Begin, h
  <2> DEFINE c == [ctx[r] EXCEPT !.of = q, !.vote = b[1], !.voter = who, !.stage = 9]
  <2>12. c \in ContextRow
    <3>1. 9 \in 1..11
      OBVIOUS
    <3> QED
      BY <1>0, <2>2, <3>1, VoteContext
  <2>8. c.of = q /\ c.vote = b[1] /\ c.voter = who /\ c.decision = ctx[r].decision
    BY <1>0 DEF ContextRow
  <2>13. ctx' = [ctx EXCEPT ![r] = c]
    BY <2>1
  <2> HIDE DEF c
  <2>7. /\ ctx' \in [Req -> ContextRow] /\ \A p \in Req \ {r} : ctx'[p] = ctx[p]
        /\ ctx'[r] = c
    BY <1>0, <2>12, <2>13
  <2>9. q # None /\ b[1] # None /\ who # None
    BY <2>2, PipelineAssumption
  <2>10. Equipped(r)'
    BY <1>5, <2>3, <2>5, <2>6, <2>7, <2>8, <2>9 DEF Equipped, Moving, Raising, ReviewRun, Exists
  <2>11. Founded(r)'
    BY <2>5, <2>6 DEF Founded, Moving
  <2> QED
    BY <1>5, <2>1, <2>4, <2>5, <2>7, <2>8, <2>10, <2>11, Begins DEF ReviewRun, CanStart, After, h
<1>6. CASE FraudRead(r)
  <2>1. PICK q \in Req : /\ run[q].status # "absent"
                         /\ Begin(r, Handler("fraud", "condemn", run[q].app, None, None))
    BY <1>6 DEF FraudRead
  <2> DEFINE h == Handler("fraud", "condemn", run[q].app, None, None)
  <2>2. run[q].app \in App /\ Exists(run[q].app) /\ run[q].app # None
    BY <2>1, RunHasApp
  <2>3. h \in HandlerRow
    BY <2>2, HandlerTyped DEF Where, AllOps
  <2>4. h.pc = "condemn" /\ h.catch = "failed" /\ h.back = "done" /\ h.app = run[q].app
    BY DEF Handler
  <2> HIDE DEF h
  <2>5. req'[r] = h
    BY <1>0, <2>1, <2>3, Replaces DEF Begin, h
  <2>6. Equipped(r)'
    BY <1>6, <2>2, <2>4, <2>5 DEF Equipped, Moving, Raising, Reviewing, FraudRead, Exists
  <2>7. Founded(r)'
    BY <2>4, <2>5 DEF Founded, Moving
  <2> QED
    BY <1>0, <1>6, <2>1, <2>3, <2>4, <2>6, <2>7, Begins DEF FraudRead, CanStart, pipeVars, After, h
<1>7. CASE AppealRead(r)
  <2>1. PICK a \in App : /\ app[a].status = "rejected"
                         /\ Begin(r, Handler("appeal", "appeal", a, "appealing", None))
    BY <1>7 DEF AppealRead
  <2> DEFINE h == Handler("appeal", "appeal", a, "appealing", None)
  <2>2. h \in HandlerRow
    BY HandlerTyped DEF Where, AllOps, Status, Undecided
  <2>3. h.pc = "appeal" /\ h.catch = "failed" /\ h.back = "done" /\ h.app = a /\ a # None
        /\ h.target = "appealing"
    BY DEF Handler
  <2> HIDE DEF h
  <2>4. req'[r] = h
    BY <1>0, <2>1, <2>2, Replaces DEF Begin, h
  <2>5. Equipped(r)'
    BY <1>7, <2>1, <2>3, <2>4 DEF Equipped, Moving, Raising, Reviewing, AppealRead, Exists
  <2>6. Founded(r)'
    BY <2>3, <2>4 DEF Founded, Moving
  <2> QED
    BY <1>0, <1>7, <2>1, <2>2, <2>3, <2>5, <2>6, Begins DEF AppealRead, CanStart, pipeVars, After, h
<1> QED
  BY <1>1, <1>2, <1>3, <1>4, <1>5, <1>6, <1>7 DEF Start, AppStart

-------------------------------------------------------------------------------
(***************************************************************************)
(* Steps that write no table.                                               *)
(***************************************************************************)
LEMMA Quietly ==
  ASSUME IInv, NEW r \in Req, req' \in [Req -> HandlerRow], Others(r),
         ctx' \in [Req -> ContextRow], \A q \in Req \ {r} : ctx'[q] = ctx[q],
         UNCHANGED <<app, history, member, run, set, votes, queue, appeals>>,
         Equipped(r)', RunKnown(r)', Founded(r)'
  PROVE  IInv'
BY Untouched, Together

LEMMA Known ==
  ASSUME IInv, NEW r \in Req
  PROVE  /\ req \in [Req -> HandlerRow] /\ req[r] \in HandlerRow
         /\ ctx \in [Req -> ContextRow] /\ ctx[r] \in ContextRow
         /\ Equipped(r) /\ RunKnown(r) /\ Founded(r)
BY DEF IInv, TypeOK, Handlers

LEMMA CheckTransitionIInv ==
  ASSUME IInv, NEW r \in Req, CheckTransition(r), UNCHANGED pipeVars
  PROVE  IInv'
<1>0. /\ req \in [Req -> HandlerRow] /\ req[r] \in HandlerRow
      /\ Equipped(r) /\ RunKnown(r) /\ Founded(r)
  BY Known
<1>1. PICK a \in App : req[r].app = a /\ a # None
  BY <1>0 DEF CheckTransition, At, Equipped, Nowhere, HandlerRow
<1> DEFINE seen == app[a].status
           pc == IF Allowed(seen, req[r].target) THEN "update" ELSE req[r].catch
           h == [req[r] EXCEPT !.seen = seen, !.pc = pc]
<1>2. seen \in Status \cup {"absent", None} /\ pc \in Where
  BY <1>0 DEF IInv, TypeOK, AppRow, HandlerRow, Where
<1>3. h \in HandlerRow
  <2> HIDE DEF seen, pc
  <2> QED
    BY <1>0, <1>2 DEF HandlerRow
<1>4. req' = [req EXCEPT ![r] = h]
  BY <1>1 DEF CheckTransition
<1>5. /\ h.pc = pc /\ h.seen = seen /\ h.app = a /\ h.target = req[r].target
      /\ h.back = req[r].back /\ h.catch = req[r].catch /\ h.tier = req[r].tier
      /\ h.op = req[r].op
  BY <1>0, <1>1 DEF HandlerRow
<1>6. (pc = "update" /\ Allowed(seen, req[r].target)) \/ pc = req[r].catch
  OBVIOUS
<1>7. req[r].catch \in {"failed", "cancel"}
  BY <1>0 DEF HandlerRow
<1> HIDE DEF seen, pc, h
<1>8. req' \in [Req -> HandlerRow] /\ req'[r] = h /\ Others(r)
  BY <1>0, <1>3, <1>4, Replaces
<1>9. req[r].pc = "check" /\ UNCHANGED <<app, history, member>>
  BY DEF CheckTransition, At
<1>10. Equipped(r)'
  BY <1>0, <1>1, <1>5, <1>6, <1>7, <1>8, <1>9
  DEF Equipped, Nowhere, Moving, Raising, Reviewing, Exists, pipeVars
<1>11. RunKnown(r)'
  BY <1>0, <1>1, <1>5, <1>6, <1>7, <1>8, <1>9
  DEF RunKnown, Before, After, Reviewing, pipeVars
<1>12. Founded(r)'
  BY <1>0, <1>1, <1>5, <1>6, <1>7, <1>8, <1>9
  DEF Founded, Moving, Decided, RunsOf, Listed, pipeVars
<1> QED
  BY <1>8, <1>9, <1>10, <1>11, <1>12, Known, Quietly DEF pipeVars

\* The moves that only change where the handler is.
LEMMA GotoIInv ==
  ASSUME IInv, NEW r \in Req, NEW pc \in Where, Goto(r, pc), ctx' = ctx,
         UNCHANGED <<app, history, member, run, set, votes, queue, appeals>>,
         \/ req[r].pc = "membership" /\ pc \in {"raise", req[r].back}
         \/ req[r].pc \notin {"idle", "done", "failed"} /\ pc \in {req[r].catch, "failed"}
         \/ AtStage(r, ctx[r].stage) /\ pc = "complete"
         \/ req[r].pc = "voted" /\ pc \in {"failed", "vote"}
         \/ req[r].pc = "tally" /\ pc = "snapshot"
         \/ req[r].pc = "look" /\ pc \in {"insert", "failed"}
         \/ req[r].pc = "trace" /\ pc = "done"
  PROVE  IInv'
<1>0. /\ req \in [Req -> HandlerRow] /\ req[r] \in HandlerRow
      /\ ctx \in [Req -> ContextRow]
      /\ Equipped(r) /\ RunKnown(r) /\ Founded(r)
  BY Known
<1>1. /\ req' \in [Req -> HandlerRow] /\ Others(r)
      /\ req'[r].pc = pc /\ Keeps(req[r], req'[r])
  BY <1>0, GotoEffect
<1>2. /\ req[r].catch \in {"failed", "cancel"}
      /\ req[r].back \in {"done", "stage", "complete", "level"}
  BY <1>0 DEF HandlerRow
<1>3. Equipped(r)'
  BY <1>0, <1>1, <1>2
  DEF Equipped, Keeps, Nowhere, Moving, Raising, Reviewing, Exists, AtStage, At
<1>4. RunKnown(r)'
  BY <1>0, <1>1, <1>2 DEF RunKnown, Keeps, Before, After, Reviewing, AtStage, At
<1>5. Founded(r)'
  <2>1. /\ pc \notin {"run", "decision", "tally", "count", "partial", "mark"} \cup Moving
        /\ pc = "stage" => ctx[r].stage = 9
    BY <1>0, <1>1, <1>2 DEF Equipped, Moving, Raising, AtStage, At
  <2> QED
    BY <1>1, <2>1 DEF Founded
<1> QED
  BY <1>0, <1>1, <1>3, <1>4, <1>5, Quietly

LEMMA LookForRequestIInv ==
  ASSUME IInv, NEW r \in Req, LookForRequest(r), UNCHANGED pipeVars
  PROVE  IInv'
<1>1. PICK pc \in {"insert", "failed"} : Goto(r, pc)
  BY DEF LookForRequest
<1>2. pc \in Where
  BY DEF Where
<1> QED
  BY <1>1, <1>2, GotoIInv DEF LookForRequest, At, pipeVars

LEMMA ReadMembershipIInv ==
  ASSUME IInv, NEW r \in Req, ReadMembership(r), UNCHANGED pipeVars
  PROVE  IInv'
<1>1. PICK pc \in {"raise", req[r].back} : Goto(r, pc)
  BY DEF ReadMembership
<1>2. pc \in Where
  BY Known DEF Where, HandlerRow
<1> QED
  BY <1>1, <1>2, GotoIInv DEF ReadMembership, At, pipeVars

LEMMA BreakIInv ==
  ASSUME IInv, NEW r \in Req, Break(r)
  PROVE  IInv'
<1>1. PICK pc \in {req[r].catch, "failed"} : Goto(r, pc)
  BY DEF Break, Throw, Die
<1>2. pc \in Where
  BY Known DEF Where, HandlerRow
<1> QED
  BY <1>1, <1>2, GotoIInv DEF Break, Throw, Die, InFlight, pipeVars

LEMMA CheckVoteIInv ==
  ASSUME IInv, NEW r \in Req, CheckVote(r)
  PROVE  IInv'
<1>1. PICK pc \in {"failed", "vote"} : Goto(r, pc)
  BY DEF CheckVote
<1>2. pc \in Where
  BY DEF Where
<1> QED
  BY <1>1, <1>2, GotoIInv DEF CheckVote, At

\* A stage passes: the loop goes on to the next one.
LEMMA StageIInv ==
  ASSUME IInv, NEW r \in Req, req[r].pc = "stage", ctx[r].stage \notin {9, 10},
         NEW c \in ContextRow, ctx' = [ctx EXCEPT ![r] = c],
         c.decision = ctx[r].decision, c.stage \notin {9, 10},
         UNCHANGED <<req, app, history, member, run, set, votes, queue, appeals>>
  PROVE  IInv'
<1>0. /\ req \in [Req -> HandlerRow] /\ req[r] \in HandlerRow
      /\ ctx \in [Req -> ContextRow] /\ ctx[r] \in ContextRow
      /\ Equipped(r) /\ RunKnown(r) /\ Founded(r)
  BY Known
<1>1. ctx' \in [Req -> ContextRow] /\ ctx'[r] = c /\ \A q \in Req \ {r} : ctx'[q] = ctx[q]
  BY <1>0
<1>2. Equipped(r)'
  BY <1>0, <1>1 DEF Equipped, Moving, Raising, Reviewing, Exists
<1>3. RunKnown(r)'
  BY <1>0, <1>1 DEF RunKnown, Before, Reviewing
<1>4. Founded(r)'
  BY <1>1 DEF Founded, Moving
<1> QED
  BY <1>0, <1>1, <1>2, <1>3, <1>4, Quietly DEF Others

LEMMA NextStageContext ==
  ASSUME NEW c \in ContextRow, c.stage # 11
  PROVE  /\ [c EXCEPT !.stage = @ + 1] \in ContextRow
         /\ [c EXCEPT !.stage = @ + 1].stage = c.stage + 1
         /\ [c EXCEPT !.stage = @ + 1].decision = c.decision
<1>1. c.stage + 1 \in 1..11
  BY DEF ContextRow
<1> QED
  BY <1>1 DEF ContextRow

LEMMA GateIInv ==
  ASSUME IInv, NEW r \in Req, Gate(r) \/ CapitalPasses(r)
  PROVE  IInv'
<1>0. ctx[r] \in ContextRow
  BY Known
<1>1. CASE NextStage(r) /\ UNCHANGED req
  <2> DEFINE c == [ctx[r] EXCEPT !.stage = @ + 1]
  <2>1. req[r].pc = "stage" /\ ctx[r].stage \in {1, 2, 3, 5, 6}
    BY DEF Gate, CapitalPasses, AtStage, At
  <2>2. c \in ContextRow /\ c.stage = ctx[r].stage + 1 /\ c.decision = ctx[r].decision
    BY <1>0, <2>1, NextStageContext
  <2>3. ctx' = [ctx EXCEPT ![r] = c]
    BY <1>1 DEF NextStage
  <2> HIDE DEF c
  <2>4. c.stage \notin {9, 10} /\ ctx[r].stage \notin {9, 10}
    BY <2>1, <2>2
  <2>5. UNCHANGED <<req, app, history, member, run, set, votes, queue, appeals>>
    BY <1>1 DEF Gate, CapitalPasses
  <2> QED
    BY <2>1, <2>2, <2>3, <2>4, <2>5, StageIInv
<1>2. CASE Goto(r, "complete") /\ UNCHANGED ctx
  <2>1. AtStage(r, ctx[r].stage)
    BY DEF Gate, CapitalPasses, AtStage
  <2>2. "complete" \in Where
    BY DEF Where
  <2> QED
    BY <1>2, <2>1, <2>2, GotoIInv DEF Gate, CapitalPasses
<1> QED
  BY <1>1, <1>2 DEF Gate, CapitalPasses

LEMMA ThresholdIInv ==
  ASSUME IInv, NEW r \in Req, Threshold(r)
  PROVE  IInv'
<1>0. ctx[r] \in ContextRow /\ run[r] \in RunRow /\ req[r] \in HandlerRow /\ req[r].app # None
  BY Known DEF Threshold, AtStage, At, Equipped, Nowhere, IInv, TypeOK
<1>1. PICK mode \in Modes, n \in 0..2 :
        ctx' = [ctx EXCEPT ![r].stage = 8, ![r].mode = mode, ![r].required = n]
  <2> DEFINE mode == ModeFor(AppOf(r), run[r].risk)
  <2>1. AppOf(r) \in App
    BY <1>0 DEF AppOf, HandlerRow
  <2>2. mode \in Modes
    BY <2>1, PipelineAssumption DEF ModeFor, Modes
  <2>3. RequiredBy(mode) \in 0..2
    BY <2>2 DEF RequiredBy, Modes
  <2> QED
    BY <2>2, <2>3 DEF Threshold
<1> DEFINE c == [ctx[r] EXCEPT !.stage = 8, !.mode = mode, !.required = n]
<1>2. c \in ContextRow
  <2>1. ASSUME NEW s \in 1..11
        PROVE  [ctx[r] EXCEPT !.stage = s, !.mode = mode, !.required = n] \in ContextRow
    BY <1>0 DEF ContextRow
  <2> QED
    BY <2>1
<1>3. c.stage = 8 /\ c.decision = ctx[r].decision
  BY <1>0 DEF ContextRow
<1>4. ctx' = [ctx EXCEPT ![r] = c]
  BY <1>1
<1> HIDE DEF c
<1>5. /\ req[r].pc = "stage" /\ ctx[r].stage \notin {9, 10} /\ c.stage \notin {9, 10}
      /\ UNCHANGED <<req, app, history, member, run, set, votes, queue, appeals>>
  BY <1>3 DEF Threshold, AtStage, At
<1> QED
  BY <1>2, <1>3, <1>4, <1>5, StageIInv

\* A place where a handler relies on nothing that others have written.
LEMMA NothingFounded ==
  ASSUME NEW r \in Req,
         req'[r].pc \notin {"run", "decision", "tally", "count", "partial", "mark"} \cup Moving,
         req'[r].pc = "stage" => ctx'[r].stage # 10
  PROVE  Founded(r)'
BY DEF Founded

LEMMA SnapshotIInv ==
  ASSUME IInv, NEW r \in Req, Snapshot(r)
  PROVE  IInv'
<1>0. /\ req \in [Req -> HandlerRow] /\ req[r] \in HandlerRow
      /\ ctx \in [Req -> ContextRow] /\ ctx[r] \in ContextRow
      /\ Equipped(r) /\ RunKnown(r) /\ Founded(r)
  BY Known
<1>1. req[r].pc = "snapshot" /\ Goto(r, "number") /\ "number" \in Where
  BY DEF Snapshot, At, Where
<1>2. /\ req' \in [Req -> HandlerRow] /\ Others(r)
      /\ req'[r].pc = "number" /\ Keeps(req[r], req'[r])
  BY <1>0, <1>1, GotoEffect
<1>3. AppOf(r) \in App
  BY <1>0, <1>1 DEF Equipped, Nowhere, HandlerRow, AppOf
<1>4. PICK s \in Status \cup {"absent", None} : ctx' = [ctx EXCEPT ![r].snapshot = s]
  BY <1>3 DEF Snapshot, IInv, TypeOK, AppRow
<1> DEFINE c == [ctx[r] EXCEPT !.snapshot = s]
<1>5. c \in ContextRow
  BY <1>0 DEF ContextRow
<1>6. c.decision = ctx[r].decision /\ c.stage = ctx[r].stage
  BY <1>0 DEF ContextRow
<1>7. ctx' \in [Req -> ContextRow] /\ \A q \in Req \ {r} : ctx'[q] = ctx[q]
  BY <1>0, <1>4, <1>5
<1>8. ctx'[r] = c
  BY <1>0, <1>4
<1> HIDE DEF c
<1>9. Equipped(r)'
  BY <1>0, <1>1, <1>2
  DEF Equipped, Keeps, Nowhere, Moving, Raising, Reviewing, Exists, Snapshot
<1>10. RunKnown(r)'
  BY <1>0, <1>1, <1>2, <1>6, <1>8 DEF RunKnown, Keeps, Before, After, Reviewing, Snapshot
<1>11. Founded(r)'
  BY <1>2, NothingFounded DEF Moving
<1> QED
  BY <1>2, <1>7, <1>9, <1>10, <1>11, Quietly DEF Snapshot

LEMMA NextNumberIInv ==
  ASSUME IInv, NEW r \in Req, NextNumber(r)
  PROVE  IInv'
<1>0. /\ req \in [Req -> HandlerRow] /\ req[r] \in HandlerRow
      /\ ctx \in [Req -> ContextRow] /\ ctx[r] \in ContextRow
      /\ Equipped(r) /\ RunKnown(r) /\ Founded(r)
  BY Known
<1>1. req[r].pc = "number" /\ Goto(r, "run") /\ "run" \in Where
  BY DEF NextNumber, At, Where
<1>2. /\ req' \in [Req -> HandlerRow] /\ Others(r)
      /\ req'[r].pc = "run" /\ Keeps(req[r], req'[r])
  BY <1>0, <1>1, GotoEffect
<1>4. PICK n \in 1..(Cardinality(Req) + 1) :
        /\ \A m \in NumberIn(AppOf(r)) : n > m
        /\ n = 1 \/ n - 1 \in NumberIn(AppOf(r))
        /\ ctx' = [ctx EXCEPT ![r].number = n]
  BY DEF NextNumber
<1>3. n \in Nat \ {0}
  OBVIOUS
<1> DEFINE c == [ctx[r] EXCEPT !.number = n]
<1>5. c \in ContextRow
  BY <1>0, <1>3 DEF ContextRow
<1>6. c.decision = ctx[r].decision /\ c.stage = ctx[r].stage /\ c.number = n
  BY <1>0 DEF ContextRow
<1>7. ctx' \in [Req -> ContextRow] /\ \A q \in Req \ {r} : ctx'[q] = ctx[q]
  BY <1>0, <1>4, <1>5
<1>8. ctx'[r] = c
  BY <1>0, <1>4
<1> HIDE DEF c
<1>9. Equipped(r)'
  BY <1>0, <1>1, <1>2
  DEF Equipped, Keeps, Nowhere, Moving, Raising, Reviewing, Exists, NextNumber
<1>10. RunKnown(r)'
  BY <1>0, <1>1, <1>2, <1>6, <1>8 DEF RunKnown, Keeps, Before, After, Reviewing, NextNumber
<1>11. Founded(r)'
  <2>1. ctx'[r].number > 1 => ctx'[r].number - 1 \in NumberIn(req'[r].app)
    BY <1>2, <1>3, <1>4, <1>6, <1>8 DEF Keeps, AppOf
  <2>2. UNCHANGED run
    BY DEF NextNumber
  <2>3. (req[r].pc = "run" => /\ ctx[r].number \in Nat \ {0}
                              /\ ctx[r].number > 1 =>
                                   ctx[r].number - 1 \in NumberIn(req[r].app))'
    BY <1>3, <1>6, <1>8, <2>1, <2>2 DEF NumberIn, RunsOf
  <2> QED
    BY <1>2, <2>3 DEF Founded, Moving
<1> QED
  BY <1>2, <1>7, <1>9, <1>10, <1>11, Quietly DEF NextNumber

LEMMA DecideTyped ==
  ASSUME NEW vote, NEW risk
  PROVE  Decide(vote, risk) \in Decision
BY PipelineAssumption DEF Decide, ByRisk, Decision, Approved

LEMMA GenerateDecisionIInv ==
  ASSUME IInv, NEW r \in Req, GenerateDecision(r)
  PROVE  IInv'
<1>0. /\ req \in [Req -> HandlerRow] /\ req[r] \in HandlerRow
      /\ ctx \in [Req -> ContextRow] /\ ctx[r] \in ContextRow
      /\ Equipped(r) /\ RunKnown(r) /\ Founded(r)
  BY Known
<1>1. PICK d \in Decision : /\ ctx' = [ctx EXCEPT ![r].decision = d]
                            /\ Goto(r, IF d = "capital_queue" THEN "waiting" ELSE "decision")
  BY DecideTyped DEF GenerateDecision
<1> DEFINE pc == IF d = "capital_queue" THEN "waiting" ELSE "decision"
           c  == [ctx[r] EXCEPT !.decision = d]
<1>2. /\ req[r].pc = "stage" /\ ctx[r].stage = 9 /\ pc \in Where
      /\ pc \in {"waiting", "decision"} /\ (pc = "decision" => d # "capital_queue")
  BY DEF GenerateDecision, AtStage, At, Where
<1>3. c \in ContextRow
  BY <1>0 DEF ContextRow
<1>4. c.decision = d /\ c.stage = 9
  BY <1>0, <1>2 DEF ContextRow
<1>5. ctx' \in [Req -> ContextRow] /\ \A q \in Req \ {r} : ctx'[q] = ctx[q]
  BY <1>0, <1>1, <1>3
<1>6. ctx'[r] = c
  BY <1>0, <1>1
<1> HIDE DEF c
<1>7. Goto(r, pc)
  BY <1>1
<1> HIDE DEF pc
<1>8. /\ req' \in [Req -> HandlerRow] /\ Others(r)
      /\ req'[r].pc = pc /\ Keeps(req[r], req'[r])
  BY <1>0, <1>2, <1>7, GotoEffect
<1>9. Equipped(r)'
  BY <1>0, <1>2, <1>4, <1>6, <1>8
  DEF Equipped, Keeps, Nowhere, Moving, Raising, Reviewing, Exists, GenerateDecision
<1>10. RunKnown(r)'
  BY <1>0, <1>2, <1>4, <1>6, <1>8
  DEF RunKnown, Keeps, Before, After, Reviewing, GenerateDecision
<1>11. Founded(r)'
  BY <1>2, <1>4, <1>6, <1>8 DEF Founded, Moving
<1> QED
  BY <1>5, <1>8, <1>9, <1>10, <1>11, Quietly DEF GenerateDecision

\* The tier an approval grants is a tier: votes are typed.
LEMMA GrantedTierTyped ==
  ASSUME IInv, NEW q \in Req, NEW tier \in GrantedTier(q)
  PROVE  tier \in Tier \cup {None}
<1>1. votes \in Seq(VoteRow)
  BY DEF IInv, TypeOK
<1>2. \A k \in 1..Len(votes) : votes[k] \in VoteRow
  BY <1>1
<1>3. \A k \in 1..Len(votes) : votes[k].tier \in Tier \cup {None}
  BY <1>2 DEF VoteRow
<1> QED
  BY <1>3 DEF GrantedTier, Latest, Approvals, VotesOn

\* transitionStatus is called with a status and a place to return to.
LEMMA CallTyped ==
  ASSUME NEW h \in HandlerRow, NEW target \in Status \cup {None}, NEW tier \in Tier \cup {None},
         NEW back \in {"done", "stage", "complete", "level"}
  PROVE  [h EXCEPT !.pc = "check", !.target = target, !.back = back, !.tier = tier]
           \in HandlerRow
<1>1. [h EXCEPT !.target = target] \in HandlerRow
  BY DEF HandlerRow
<1>2. ASSUME NEW g \in HandlerRow PROVE [g EXCEPT !.tier = tier] \in HandlerRow
  BY DEF HandlerRow
<1>3. ASSUME NEW g \in HandlerRow PROVE [g EXCEPT !.back = back] \in HandlerRow
  BY DEF HandlerRow
<1>4. ASSUME NEW g \in HandlerRow PROVE [g EXCEPT !.pc = "check"] \in HandlerRow
  BY DEF HandlerRow, Where
<1> DEFINE g == [[[[h EXCEPT !.target = target] EXCEPT !.tier = tier] EXCEPT !.back = back]
                   EXCEPT !.pc = "check"]
<1>5. g \in HandlerRow
  BY <1>1, <1>2, <1>3, <1>4
<1>6. g = [h EXCEPT !.pc = "check", !.target = target, !.back = back, !.tier = tier]
  BY DEF HandlerRow
<1> QED
  BY <1>5, <1>6

LEMMA ExecuteDecisionIInv ==
  ASSUME IInv, NEW r \in Req, ExecuteDecision(r)
  PROVE  IInv'
<1> USE NullAssumption
<1>0. /\ req \in [Req -> HandlerRow] /\ req[r] \in HandlerRow
      /\ ctx \in [Req -> ContextRow] /\ ctx[r] \in ContextRow
      /\ Equipped(r) /\ RunKnown(r) /\ Founded(r)
  BY Known
<1>1. req[r].pc = "stage" /\ ctx[r].stage = 10
  BY DEF ExecuteDecision, AtStage, At
<1>2. UNCHANGED <<app, history, member, run, set, votes, queue, appeals, ctx>>
  BY DEF ExecuteDecision
<1>3. CASE ctx[r].decision = None
  <2>1. Goto(r, "complete")
    BY <1>3 DEF ExecuteDecision, Goto
  <2>2. "complete" \in Where /\ AtStage(r, ctx[r].stage)
    BY <1>1 DEF Where, AtStage, At
  <2> QED
    BY <1>2, <2>1, <2>2, GotoIInv
<1>4. CASE ctx[r].decision # None
  <2> DEFINE d == ctx[r].decision
  <2>1. d \in Decision /\ d \in Status
    BY <1>0, <1>4 DEF ContextRow, Decision, Status, Undecided, Closed
  <2>2. PICK tier \in IF d \in Approved THEN GrantedTier(r) ELSE {None} :
          req' = [req EXCEPT ![r] = [Call(r, d, "level") EXCEPT !.tier = tier]]
    BY <1>4 DEF ExecuteDecision, StatusMap
  <2>3. tier \in Tier \cup {None}
    BY <2>2, GrantedTierTyped
  <2> DEFINE h == [req[r] EXCEPT !.pc = "check", !.target = d, !.back = "level", !.tier = tier]
  <2>4. req' = [req EXCEPT ![r] = h]
    BY <1>0, <2>2 DEF Call, HandlerRow
  <2>5. h \in HandlerRow
    <3> HIDE DEF d
    <3>1. d \in Status \cup {None}
      BY <2>1
    <3> QED
      BY <1>0, <2>3, <3>1, CallTyped
  <2>6. /\ h.pc = "check" /\ h.target = d /\ h.back = "level" /\ h.app = req[r].app
        /\ h.catch = req[r].catch
    BY <1>0 DEF HandlerRow
  <2> HIDE DEF h
  <2>7. req' \in [Req -> HandlerRow] /\ req'[r] = h /\ Others(r)
    BY <1>0, <2>4, <2>5, Replaces
  <2>8. Equipped(r)'
    BY <1>0, <1>1, <1>2, <1>4, <2>6, <2>7
    DEF Equipped, Nowhere, Moving, Raising, Reviewing, Exists
  <2>9. RunKnown(r)'
    BY <1>0, <1>1, <1>2, <2>6, <2>7 DEF RunKnown, Before, After, Reviewing
  <2>10. Founded(r)'
    <3>1. run[r].status # "absent" /\ run[r].app = req[r].app /\ run[r].decision = d
      BY <1>0, <1>1 DEF RunKnown, After
    <3>2. Decided(req[r].app, d)
      BY <3>1 DEF Decided, RunsOf
    <3>3. d = "capital_queue" => Listed(req[r].app)
      BY <1>0, <1>1 DEF Founded
    <3>4. Decided(req[r].app, d)' /\ (d = "capital_queue" => Listed(req[r].app)')
      BY <1>2, <2>6, <2>7, <3>2, <3>3 DEF Decided, RunsOf, Listed
    <3>5. (req[r].pc \in Moving /\ req[r].target \in Approved \ ByHand =>
             Decided(req[r].app, req[r].target))'
      BY <1>2, <2>6, <2>7, <3>2 DEF Decided, RunsOf
    <3>6. (req[r].pc \in Moving /\ req[r].target = "capital_queue"
             /\ "capital_queue" \notin ByHand => Listed(req[r].app))'
      BY <1>2, <2>6, <2>7, <3>3 DEF Listed
    <3> QED
      BY <2>6, <2>7, <3>5, <3>6 DEF Founded
  <2> QED
    BY <1>0, <1>2, <2>7, <2>8, <2>9, <2>10, Quietly
<1> QED
  BY <1>3, <1>4

\* A vote in favour makes for one approver.
LEMMA OneApprover ==
  ASSUME IInv, NEW q \in Req, NEW k \in 1..Len(votes),
         votes[k].run = q, votes[k].decision = "approved"
  PROVE  Approvers(q) \in Nat \ {0}
<1> DEFINE who == {votes[j].voter : j \in Approvals(q)}
<1>1. k \in Approvals(q) /\ Approvals(q) \subseteq 1..Len(votes)
  BY DEF Approvals, VotesOn
<1>6. Len(votes) \in Nat
  BY LenProperties DEF IInv, TypeOK
<1>2. IsFiniteSet(1..Len(votes))
  BY <1>6, FS_Interval
<1>5. IsFiniteSet(Approvals(q))
  BY <1>1, <1>2, FS_Subset
<1>3. IsFiniteSet(who)
  BY <1>5, ImageIsFinite
<1>4. who # {}
  BY <1>1
<1> QED
  BY <1>3, <1>4, FS_CardinalityType, FS_EmptySet DEF Approvers

LEMMA TallyIInv ==
  ASSUME IInv, NEW r \in Req, Tally(r)
  PROVE  IInv'
<1>0. /\ req \in [Req -> HandlerRow] /\ req[r] \in HandlerRow
      /\ ctx \in [Req -> ContextRow] /\ ctx[r] \in ContextRow
      /\ Equipped(r) /\ RunKnown(r) /\ Founded(r)
  BY Known
<1>1. req[r].pc = "tally" /\ UNCHANGED <<app, history, member, run, set, votes, queue, appeals, ctx>>
  BY DEF Tally, At
<1>2. PICK q \in Req : q = ctx[r].of
  BY <1>0, <1>1 DEF Equipped, Reviewing, ContextRow
<1>3. CASE set[q] = None
  <2>1. Goto(r, "snapshot") /\ "snapshot" \in Where
    BY <1>2, <1>3 DEF Tally, Where
  <2> QED
    BY <1>1, <2>1, GotoIInv
<1>4. CASE set[q] # None
  <2> DEFINE pc == IF req[r].op = "decide" /\ ctx[r].vote = "approved" /\ set[q].required > 1
                   THEN "count" ELSE "mark"
  <2>1. Goto(r, pc) /\ pc \in Where
    BY <1>2, <1>4 DEF Tally, Where
  <2>2. pc \in {"count", "mark"}
    OBVIOUS
  <2>3. pc = "mark" /\ req[r].op # "override" /\ ctx[r].vote = "approved" =>
          Approvers(q) >= set[q].required
    <3> SUFFICES ASSUME pc = "mark", req[r].op # "override", ctx[r].vote = "approved"
                 PROVE  Approvers(q) >= set[q].required
      OBVIOUS
    <3>1. req[r].op = "decide"
      BY <1>0, <1>1 DEF Equipped, Reviewing
    <3>2. set[q].required \in 0..2
      BY <1>4 DEF IInv, TypeOK, SetRow
    <3>3. set[q].required <= 1
      BY <3>1, <3>2
    <3>4. Approvers(q) \in Nat \ {0}
      BY <1>0, <1>1, <1>2, OneApprover DEF Founded
    <3> QED
      BY <3>2, <3>3, <3>4
  <2> HIDE DEF pc
  <2>4. /\ req' \in [Req -> HandlerRow] /\ Others(r)
        /\ req'[r].pc = pc /\ Keeps(req[r], req'[r])
    BY <1>0, <2>1, GotoEffect
  <2>5. Equipped(r)'
    BY <1>0, <1>1, <2>2, <2>4 DEF Equipped, Keeps, Nowhere, Moving, Raising, Reviewing, Exists
  <2>6. RunKnown(r)'
    BY <1>0, <1>1, <2>2, <2>4 DEF RunKnown, Keeps, Before, After, Reviewing
  <2>7. Founded(r)'
    <3>1. ctx'[r] = ctx[r] /\ req'[r].op = req[r].op
      BY <1>1, <2>4 DEF Keeps
    <3>2. (req[r].pc = "mark" /\ req[r].op # "override" /\ ctx[r].vote = "approved" =>
             Approvers(ctx[r].of) >= set[ctx[r].of].required)'
      BY <1>1, <1>2, <2>3, <2>4, <3>1 DEF Approvers, Approvals, VotesOn
    <3> QED
      BY <1>1, <1>2, <1>4, <2>2, <2>4, <3>2 DEF Founded, Moving
  <2> QED
    BY <1>0, <1>1, <2>4, <2>5, <2>6, <2>7, Quietly
<1> QED
  BY <1>3, <1>4

LEMMA CountApproversIInv ==
  ASSUME IInv, NEW r \in Req, CountApprovers(r)
  PROVE  IInv'
<1>0. /\ req \in [Req -> HandlerRow] /\ req[r] \in HandlerRow
      /\ ctx \in [Req -> ContextRow] /\ ctx[r] \in ContextRow
      /\ Equipped(r) /\ RunKnown(r) /\ Founded(r)
  BY Known
<1>1. /\ req[r].pc = "count"
      /\ UNCHANGED <<app, history, member, run, set, votes, queue, appeals, ctx>>
  BY DEF CountApprovers, At
<1>2. PICK q \in Req : q = ctx[r].of
  BY <1>0, <1>1 DEF Equipped, Reviewing, ContextRow
<1>3. set[q] # None
  BY <1>0, <1>1, <1>2 DEF Founded
<1> DEFINE pc == IF Approvers(q) < set[q].required THEN "partial" ELSE "mark"
<1>4. Goto(r, pc) /\ pc \in Where
  BY <1>2 DEF CountApprovers, Where
<1>5. pc \in {"partial", "mark"}
  OBVIOUS
<1>6. pc = "mark" => Approvers(q) >= set[q].required
  <2>1. Approvers(q) \in Nat
    <3>1. Grows
      BY <1>1, LenProperties DEF Grows, Exists, IInv, TypeOK
    <3> QED
      BY <1>1, <3>1, ApproversGrow DEF IInv, TypeOK
  <2>2. set[q].required \in 0..2
    BY <1>3 DEF IInv, TypeOK, SetRow
  <2> QED
    BY <2>1, <2>2
<1> HIDE DEF pc
<1>7. /\ req' \in [Req -> HandlerRow] /\ Others(r)
      /\ req'[r].pc = pc /\ Keeps(req[r], req'[r])
  BY <1>0, <1>4, GotoEffect
<1>8. Equipped(r)'
  BY <1>0, <1>1, <1>5, <1>7 DEF Equipped, Keeps, Nowhere, Moving, Raising, Reviewing, Exists
<1>9. RunKnown(r)'
  BY <1>0, <1>1, <1>5, <1>7 DEF RunKnown, Keeps, Before, After, Reviewing
<1>10. Founded(r)'
  <2>1. ctx'[r] = ctx[r]
    BY <1>1
  <2>2. (req[r].pc = "mark" /\ req[r].op # "override" /\ ctx[r].vote = "approved" =>
           Approvers(ctx[r].of) >= set[ctx[r].of].required)'
    BY <1>1, <1>2, <1>6, <1>7, <2>1 DEF Approvers, Approvals, VotesOn
  <2> QED
    BY <1>1, <1>2, <1>3, <1>5, <1>7, <2>2 DEF Founded, Moving
<1> QED
  BY <1>0, <1>1, <1>7, <1>8, <1>9, <1>10, Quietly

-------------------------------------------------------------------------------
(***************************************************************************)
(* Steps that write applications, their history, members and the queue.     *)
(***************************************************************************)
\* Only statuses are connected by the published transitions.
LEMMA EdgesAreStatuses ==
  ASSUME NEW from, NEW to, Allowed(from, to)
  PROVE  from \in Status /\ to \in Status
BY DEF Allowed, STATUS_TRANSITIONS, Status, Undecided, Approved, Contract, Closed

LEMMA HistoryTyped ==
  ASSUME IInv, NEW a, NEW row \in HistoryRow,
         history' = [history EXCEPT ![a] = Append(@, row)]
  PROVE  history' \in [App -> Seq(HistoryRow)]
<1>1. history \in [App -> Seq(HistoryRow)]
  BY DEF IInv, TypeOK
<1>2. \A b \in App : Append(history[b], row) \in Seq(HistoryRow)
  BY <1>1, AppendProperties
<1> QED
  BY <1>1, <1>2

LEMMA InsertApplicationIInv ==
  ASSUME IInv, NEW r \in Req, InsertApplication(r), UNCHANGED pipeVars
  PROVE  IInv'
<1> USE NullAssumption
<1>0. /\ req \in [Req -> HandlerRow] /\ req[r] \in HandlerRow
      /\ Equipped(r) /\ RunKnown(r) /\ Founded(r)
  BY Known
<1>1. PICK a \in App : /\ ~Exists(a)
                       /\ Owner[a] = req[r].student
                       /\ app' = [app EXCEPT ![a] = Row("new_lead")]
                       /\ req' = [req EXCEPT ![r].app = a, ![r].pc = "opened"]
  BY DEF InsertApplication
<1> DEFINE h == [req[r] EXCEPT !.app = a, !.pc = "opened"]
<1>2. h \in HandlerRow
  <2>1. ASSUME NEW pc \in Where PROVE [req[r] EXCEPT !.app = a, !.pc = pc] \in HandlerRow
    BY <1>0 DEF HandlerRow
  <2>2. "opened" \in Where
    BY DEF Where
  <2> QED
    BY <2>1, <2>2
<1>3. h.pc = "opened" /\ h.app = a /\ h.catch = req[r].catch /\ h.back = req[r].back
  BY <1>0 DEF HandlerRow
<1>4. req' = [req EXCEPT ![r] = h]
  BY <1>1
<1> HIDE DEF h
<1>5. req' \in [Req -> HandlerRow] /\ req'[r] = h /\ Others(r)
  BY <1>0, <1>2, <1>4, Replaces
<1>6. req[r].pc = "insert" /\ UNCHANGED <<history, member, run, set, votes, queue, appeals, ctx>>
  BY DEF InsertApplication, At, pipeVars
<1>7. Row("new_lead") \in AppRow /\ Row("new_lead").status = "new_lead"
  BY DEF Row, AppRow, Status, Undecided
<1>8. app \in [App -> AppRow]
  BY DEF IInv, TypeOK
<1>9. app' \in [App -> AppRow] /\ app'[a].status = "new_lead"
      /\ \A b \in App \ {a} : app'[b] = app[b]
  BY <1>1, <1>7, <1>8
<1>10. TypeOK' /\ Apart(r) /\ Grows /\ Rows'
  <2>1. \A b \in App : app'[b].status = app[b].status \/ Grounded(b, app'[b].status)
    BY <1>9 DEF Grounded, Approved
  <2>2. \A b \in App : Exists(b) => app'[b].status # "absent"
    BY <1>9 DEF Exists
  <2> QED
    BY <1>5, <1>6, <1>9, <2>1, <2>2, Written DEF IInv, TypeOK
<1>11. Equipped(r)'
  BY <1>0, <1>3, <1>5, <1>6, <1>9 DEF Equipped, Moving, Raising, Reviewing, Exists
<1>12. RunKnown(r)'
  BY <1>0, <1>3, <1>5, <1>6 DEF RunKnown, Before, After
<1>13. Founded(r)'
  BY <1>3, <1>5, NothingFounded DEF Moving
<1> QED
  BY <1>10, <1>11, <1>12, <1>13, Together

LEMMA RecordOpeningIInv ==
  ASSUME IInv, NEW r \in Req, RecordOpening(r), UNCHANGED pipeVars
  PROVE  IInv'
<1>0. /\ req \in [Req -> HandlerRow] /\ req[r] \in HandlerRow
      /\ Equipped(r) /\ RunKnown(r) /\ Founded(r)
  BY Known
<1>1. /\ req[r].pc = "opened" /\ Goto(r, "done") /\ "done" \in Where
      /\ UNCHANGED <<app, member, run, set, votes, queue, appeals, ctx>>
  BY DEF RecordOpening, At, pipeVars, Where
<1>2. /\ req' \in [Req -> HandlerRow] /\ Others(r)
      /\ req'[r].pc = "done" /\ Keeps(req[r], req'[r])
  BY <1>0, <1>1, GotoEffect
<1>3. history' \in [App -> Seq(HistoryRow)]
  <2> DEFINE row == [from |-> None, to |-> "new_lead"]
  <2>1. row \in HistoryRow
    BY DEF HistoryRow, Status, Undecided
  <2>2. history' = [history EXCEPT ![req[r].app] = Append(@, row)]
    BY DEF RecordOpening
  <2> HIDE DEF row
  <2> QED
    BY <2>1, <2>2, HistoryTyped
<1>4. TypeOK' /\ Apart(r) /\ Grows /\ Rows'
  BY <1>1, <1>2, <1>3, Written DEF IInv, TypeOK, Exists
<1>5. Equipped(r)'
  BY <1>0, <1>1, <1>2 DEF Equipped, Keeps, Nowhere, Moving, Raising, Reviewing, Exists
<1>6. RunKnown(r)'
  BY <1>0, <1>1, <1>2 DEF RunKnown, Keeps, Before, After, Reviewing
<1>7. Founded(r)'
  BY <1>2, NothingFounded DEF Moving
<1> QED
  BY <1>4, <1>5, <1>6, <1>7, Together

LEMMA UpdateStatusIInv ==
  ASSUME IInv, NEW r \in Req, UpdateStatus(r), UNCHANGED pipeVars
  PROVE  IInv'
<1>0. /\ req \in [Req -> HandlerRow] /\ req[r] \in HandlerRow
      /\ Equipped(r) /\ RunKnown(r) /\ Founded(r)
  BY Known
<1>1. /\ req[r].pc = "update" /\ Goto(r, "history") /\ "history" \in Where
      /\ UNCHANGED <<history, member, run, set, votes, queue, appeals, ctx>>
  BY DEF UpdateStatus, At, pipeVars, Where
<1>2. /\ req' \in [Req -> HandlerRow] /\ Others(r)
      /\ req'[r].pc = "history" /\ Keeps(req[r], req'[r])
  BY <1>0, <1>1, GotoEffect
<1>3. PICK a \in App : a = req[r].app
  BY <1>0, <1>1 DEF Equipped, Nowhere, HandlerRow
<1>4. PICK target \in Status : target = req[r].target
  BY <1>0, <1>1, EdgesAreStatuses DEF Equipped
<1>5. app \in [App -> AppRow] /\ app[a] \in AppRow
  BY DEF IInv, TypeOK
<1> DEFINE row == [app[a] EXCEPT !.status = target]
<1>6. row \in AppRow /\ row.status = target
  BY <1>5 DEF AppRow
<1>7. app' = [app EXCEPT ![a] = row]
  BY <1>3, <1>4, <1>5 DEF UpdateStatus
<1> HIDE DEF row
<1>8. app' \in [App -> AppRow] /\ app'[a].status = target
      /\ \A b \in App \ {a} : app'[b] = app[b]
  BY <1>5, <1>6, <1>7
<1>9. TypeOK' /\ Apart(r) /\ Grows /\ Rows'
  <2>1. \A b \in App : app'[b].status = app[b].status \/ Grounded(b, app'[b].status)
    BY <1>0, <1>1, <1>3, <1>4, <1>8 DEF Grounded, Founded, Moving
  <2>2. \A b \in App : app'[b].status = "absent" => app[b].status = "absent"
    BY <1>4, <1>8 DEF Status, Undecided, Approved, Contract, Closed
  <2> QED
    BY <1>1, <1>2, <1>8, <2>1, <2>2, Written DEF IInv, TypeOK, Exists
<1>10. Equipped(r)'
  <2>1. (req[r].app # None => Exists(req[r].app))'
    BY <1>2, <1>3, <1>8 DEF Keeps, Exists, Status, Undecided, Approved, Contract, Closed
  <2> QED
    BY <1>0, <1>1, <1>2, <2>1 DEF Equipped, Keeps, Nowhere, Moving, Raising, Reviewing
<1>11. RunKnown(r)'
  BY <1>0, <1>1, <1>2 DEF RunKnown, Keeps, Before, After, Reviewing
<1>12. Founded(r)'
  BY <1>2, NothingFounded DEF Moving
<1> QED
  BY <1>9, <1>10, <1>11, <1>12, Together

LEMMA RecordTransitionIInv ==
  ASSUME IInv, NEW r \in Req, RecordTransition(r), UNCHANGED pipeVars
  PROVE  IInv'
<1>0. /\ req \in [Req -> HandlerRow] /\ req[r] \in HandlerRow
      /\ Equipped(r) /\ RunKnown(r) /\ Founded(r)
  BY Known
<1> DEFINE pc == IF req[r].target \in Approved /\ req[r].tier # None THEN "tier" ELSE req[r].back
<1>1. /\ req[r].pc = "history" /\ Goto(r, pc)
      /\ UNCHANGED <<app, member, run, set, votes, queue, appeals, ctx>>
  BY DEF RecordTransition, At, pipeVars
<1>2. /\ (pc = "tier" /\ req[r].tier # None) \/ pc = req[r].back
      /\ req[r].back \in {"done", "stage", "complete", "level"}
      /\ pc \in Where
  BY <1>0 DEF HandlerRow, Where
<1> HIDE DEF pc
<1>3. /\ req' \in [Req -> HandlerRow] /\ Others(r)
      /\ req'[r].pc = pc /\ Keeps(req[r], req'[r])
  BY <1>0, <1>1, <1>2, GotoEffect
<1>4. history' \in [App -> Seq(HistoryRow)]
  <2> DEFINE row == [from |-> req[r].seen, to |-> req[r].target]
  <2>1. row \in HistoryRow
    BY <1>0, <1>1, EdgesAreStatuses DEF HistoryRow, Equipped
  <2>2. history' = [history EXCEPT ![req[r].app] = Append(@, row)]
    BY DEF RecordTransition
  <2> HIDE DEF row
  <2> QED
    BY <2>1, <2>2, HistoryTyped
<1>5. TypeOK' /\ Apart(r) /\ Grows /\ Rows'
  BY <1>1, <1>3, <1>4, Written DEF IInv, TypeOK, Exists
<1>6. Equipped(r)'
  BY <1>0, <1>1, <1>2, <1>3 DEF Equipped, Keeps, Nowhere, Moving, Raising, Reviewing, Exists
<1>7. RunKnown(r)'
  BY <1>0, <1>1, <1>2, <1>3 DEF RunKnown, Keeps, Before, After, Reviewing
<1>8. Founded(r)'
  <2>1. /\ pc \notin {"run", "decision", "tally", "count", "partial", "mark"} \cup Moving
        /\ pc = "stage" => ctx[r].stage = 9
    BY <1>0, <1>1, <1>2 DEF Equipped, Moving
  <2> QED
    BY <1>1, <1>3, <2>1, NothingFounded
<1> QED
  BY <1>5, <1>6, <1>7, <1>8, Together

LEMMA SetTierIInv ==
  ASSUME IInv, NEW r \in Req, SetTier(r), UNCHANGED pipeVars
  PROVE  IInv'
<1>0. /\ req \in [Req -> HandlerRow] /\ req[r] \in HandlerRow
      /\ Equipped(r) /\ RunKnown(r) /\ Founded(r)
  BY Known
<1>1. /\ req[r].pc = "tier" /\ Goto(r, "membership") /\ "membership" \in Where
      /\ UNCHANGED <<history, member, run, set, votes, queue, appeals, ctx>>
  BY DEF SetTier, At, pipeVars, Where
<1>2. /\ req' \in [Req -> HandlerRow] /\ Others(r)
      /\ req'[r].pc = "membership" /\ Keeps(req[r], req'[r])
  BY <1>0, <1>1, GotoEffect
<1>3. PICK a \in App : a = req[r].app
  BY <1>0, <1>1 DEF Equipped, Nowhere, HandlerRow
<1>4. PICK tier \in Tier : tier = req[r].tier
  BY <1>0, <1>1 DEF Equipped, Raising, HandlerRow
<1>5. app \in [App -> AppRow] /\ app[a] \in AppRow
  BY DEF IInv, TypeOK
<1> DEFINE row == [app[a] EXCEPT !.tier = tier]
<1>6. row \in AppRow /\ row.status = app[a].status
  BY <1>5 DEF AppRow
<1>7. app' = [app EXCEPT ![a] = row]
  BY <1>3, <1>4, <1>5 DEF SetTier
<1> HIDE DEF row
<1>8. app' \in [App -> AppRow] /\ \A b \in App : app'[b].status = app[b].status
  BY <1>5, <1>6, <1>7
<1>9. TypeOK' /\ Apart(r) /\ Grows /\ Rows'
  BY <1>1, <1>2, <1>8, Written DEF IInv, TypeOK, Exists
<1>10. Equipped(r)'
  BY <1>0, <1>1, <1>2, <1>3, <1>8
  DEF Equipped, Keeps, Nowhere, Moving, Raising, Reviewing, Exists
<1>11. RunKnown(r)'
  BY <1>0, <1>1, <1>2 DEF RunKnown, Keeps, Before, After, Reviewing
<1>12. Founded(r)'
  BY <1>2, NothingFounded DEF Moving
<1> QED
  BY <1>9, <1>10, <1>11, <1>12, Together

LEMMA RaiseMembershipIInv ==
  ASSUME IInv, NEW r \in Req, RaiseMembership(r), UNCHANGED pipeVars
  PROVE  IInv'
<1>0. /\ req \in [Req -> HandlerRow] /\ req[r] \in HandlerRow
      /\ Equipped(r) /\ RunKnown(r) /\ Founded(r)
  BY Known
<1>1. /\ req[r].pc = "raise" /\ Goto(r, req[r].back)
      /\ req[r].back \in {"done", "stage", "complete", "level"}
      /\ UNCHANGED <<app, history, run, set, votes, queue, appeals, ctx>>
  BY <1>0 DEF RaiseMembership, At, pipeVars, HandlerRow
<1>2. req[r].back \in Where
  BY <1>1 DEF Where
<1>3. /\ req' \in [Req -> HandlerRow] /\ Others(r)
      /\ req'[r].pc = req[r].back /\ Keeps(req[r], req'[r])
  BY <1>0, <1>1, <1>2, GotoEffect
<1>4. req[r].tier \in Membership
  BY <1>0, <1>1 DEF Equipped, Raising, HandlerRow, Membership
<1>5. member' \in [Student -> Membership]
  BY <1>4 DEF RaiseMembership, IInv, TypeOK
<1>6. TypeOK' /\ Apart(r) /\ Grows /\ Rows'
  BY <1>1, <1>3, <1>5, Written DEF IInv, TypeOK, Exists
<1>7. Equipped(r)'
  BY <1>0, <1>1, <1>3 DEF Equipped, Keeps, Nowhere, Moving, Raising, Reviewing, Exists
<1>8. RunKnown(r)'
  BY <1>0, <1>1, <1>3 DEF RunKnown, Keeps, Before, After, Reviewing
<1>9. Founded(r)'
  <2>1. req[r].back = "stage" => ctx[r].stage = 9
    BY <1>0, <1>1 DEF Equipped, Raising
  <2> QED
    BY <1>1, <1>3, <2>1, NothingFounded DEF Moving
<1> QED
  BY <1>6, <1>7, <1>8, <1>9, Together

LEMMA SetCurrentRunIInv ==
  ASSUME IInv, NEW r \in Req, SetCurrentRun(r)
  PROVE  IInv'
<1>0. /\ req \in [Req -> HandlerRow] /\ req[r] \in HandlerRow
      /\ Equipped(r) /\ RunKnown(r) /\ Founded(r)
  BY Known
<1>1. /\ req[r].pc = "current"
      /\ UNCHANGED <<history, member, run, set, votes, queue, appeals, ctx>>
  BY DEF SetCurrentRun, At
<1> DEFINE h == [req[r] EXCEPT !.pc = "stage", !.catch = "cancel"]
<1>2. h \in HandlerRow
  <2>1. ASSUME NEW pc \in Where PROVE [req[r] EXCEPT !.pc = pc, !.catch = "cancel"] \in HandlerRow
    BY <1>0 DEF HandlerRow
  <2>2. "stage" \in Where
    BY DEF Where
  <2> QED
    BY <2>1, <2>2
<1>3. h.pc = "stage" /\ h.app = req[r].app /\ h.back = req[r].back
  BY <1>0 DEF HandlerRow
<1>4. req' = [req EXCEPT ![r] = h]
  BY DEF SetCurrentRun
<1> HIDE DEF h
<1>5. req' \in [Req -> HandlerRow] /\ req'[r] = h /\ Others(r)
  BY <1>0, <1>2, <1>4, Replaces
<1>6. PICK a \in App : a = req[r].app
  BY <1>0, <1>1 DEF Equipped, Nowhere, HandlerRow
<1>7. app \in [App -> AppRow] /\ app[a] \in AppRow
  BY DEF IInv, TypeOK
<1> DEFINE row == [app[a] EXCEPT !.current = r]
<1>8. row \in AppRow /\ row.status = app[a].status
  BY <1>7 DEF AppRow
<1>9. app' = [app EXCEPT ![a] = row]
  BY <1>6, <1>7 DEF SetCurrentRun, AppOf
<1> HIDE DEF row
<1>10. app' \in [App -> AppRow] /\ \A b \in App : app'[b].status = app[b].status
  BY <1>7, <1>8, <1>9
<1>11. TypeOK' /\ Apart(r) /\ Grows /\ Rows'
  BY <1>1, <1>5, <1>10, Written DEF IInv, TypeOK, Exists
<1>12. Equipped(r)'
  BY <1>0, <1>1, <1>3, <1>5, <1>6, <1>10
  DEF Equipped, Nowhere, Moving, Raising, Reviewing, Exists
<1>13. RunKnown(r)'
  BY <1>0, <1>1, <1>3, <1>5 DEF RunKnown, Before, After, Reviewing
<1>14. Founded(r)'
  <2>1. ctx'[r].decision = None
    BY <1>0, <1>1 DEF RunKnown
  <2> QED
    BY <1>3, <1>5, <2>1, NullAssumption DEF Founded, Moving, Status, Undecided
<1> QED
  BY <1>11, <1>12, <1>13, <1>14, Together

LEMMA SetLevelIInv ==
  ASSUME IInv, NEW r \in Req, SetLevel(r)
  PROVE  IInv'
<1>0. /\ req \in [Req -> HandlerRow] /\ req[r] \in HandlerRow
      /\ Equipped(r) /\ RunKnown(r) /\ Founded(r)
  BY Known
<1>1. /\ req[r].pc = "level"
      /\ UNCHANGED <<history, member, run, set, votes, queue, appeals, ctx>>
  BY DEF SetLevel, At
<1> DEFINE pc == IF req[r].tier = None THEN "complete" ELSE "tier"
           h  == [req[r] EXCEPT !.pc = pc, !.back = "complete"]
<1>2. /\ pc = "complete" \/ (pc = "tier" /\ req[r].tier # None)
      /\ pc \in Where
  BY DEF Where
<1>3. req' = [req EXCEPT ![r] = h]
  BY DEF SetLevel
<1> HIDE DEF pc
<1>4. h \in HandlerRow
  BY <1>0, <1>2 DEF HandlerRow
<1>5. /\ h.pc = pc /\ h.app = req[r].app /\ h.back = "complete" /\ h.catch = req[r].catch
      /\ h.tier = req[r].tier
  BY <1>0 DEF HandlerRow
<1> HIDE DEF h
<1>6. req' \in [Req -> HandlerRow] /\ req'[r] = h /\ Others(r)
  BY <1>0, <1>3, <1>4, Replaces
<1>7. PICK a \in App : a = req[r].app
  BY <1>0, <1>1 DEF Equipped, Nowhere, HandlerRow
<1>8. app \in [App -> AppRow] /\ app[a] \in AppRow
  BY DEF IInv, TypeOK
<1>9. app' \in [App -> AppRow] /\ \A b \in App : app'[b].status = app[b].status
  <2>1. CASE ctx[r].decision \in Approved
    <3> DEFINE row == [app[a] EXCEPT !.level = ctx[r].decision]
    <3>1. row \in AppRow /\ row.status = app[a].status
      BY <1>8, <2>1 DEF AppRow
    <3>2. app' = [app EXCEPT ![a] = row]
      BY <1>7, <1>8, <2>1 DEF SetLevel, AppOf
    <3> HIDE DEF row
    <3> QED
      BY <1>8, <3>1, <3>2
  <2>2. CASE ctx[r].decision \notin Approved
    BY <1>8, <2>2 DEF SetLevel
  <2> QED
    BY <2>1, <2>2
<1>10. TypeOK' /\ Apart(r) /\ Grows /\ Rows'
  BY <1>1, <1>6, <1>9, Written DEF IInv, TypeOK, Exists
<1>11. Equipped(r)'
  BY <1>0, <1>1, <1>2, <1>5, <1>6, <1>7, <1>9
  DEF Equipped, Nowhere, Moving, Raising, Reviewing, Exists
<1>12. RunKnown(r)'
  BY <1>0, <1>1, <1>2, <1>5, <1>6 DEF RunKnown, Before, After, Reviewing
<1>13. Founded(r)'
  BY <1>2, <1>5, <1>6, NothingFounded DEF Moving
<1> QED
  BY <1>10, <1>11, <1>12, <1>13, Together

\* A run or a reviewer puts the application on the list.
LEMMA QueueGrows ==
  ASSUME IInv, NEW r \in Req, req[r].app \in App,
         queue' = queue \cup {[run |-> r, app |-> AppOf(r)]}
  PROVE  /\ queue' \subseteq [run : Req, app : App] /\ queue \subseteq queue'
         /\ \E e \in queue' : e.app = req[r].app
<1> DEFINE e == [run |-> r, app |-> req[r].app]
<1>1. e \in [run : Req, app : App] /\ e.app = req[r].app
  OBVIOUS
<1>2. queue' = queue \cup {e}
  BY DEF AppOf
<1> HIDE DEF e
<1> QED
  BY <1>1, <1>2 DEF IInv, TypeOK

LEMMA CapitalExceededIInv ==
  ASSUME IInv, NEW r \in Req, CapitalExceeded(r)
  PROVE  IInv'
<1>0. /\ req \in [Req -> HandlerRow] /\ req[r] \in HandlerRow
      /\ Equipped(r) /\ RunKnown(r) /\ Founded(r)
  BY Known
<1>1. /\ req[r].pc = "stage" /\ ctx[r].stage = 6
      /\ UNCHANGED <<app, history, member, run, set, votes, appeals, ctx>>
  BY DEF CapitalExceeded, AtStage, At
<1> DEFINE h == Call(r, "capital_queue", "complete")
<1>2. h \in HandlerRow
  <2>1. "capital_queue" \in Status \cup {None}
    BY DEF Status, Undecided
  <2>2. h = [req[r] EXCEPT !.pc = "check", !.target = "capital_queue", !.back = "complete",
                           !.tier = req[r].tier]
    BY <1>0 DEF Call, HandlerRow
  <2>3. req[r].tier \in Tier \cup {None}
    BY <1>0 DEF HandlerRow
  <2>4. ASSUME NEW target \in Status \cup {None}
        PROVE  [req[r] EXCEPT !.pc = "check", !.target = target, !.back = "complete",
                              !.tier = req[r].tier] \in HandlerRow
    BY <1>0, <2>3, CallTyped
  <2> QED
    BY <2>1, <2>2, <2>4
<1>3. /\ h.pc = "check" /\ h.target = "capital_queue" /\ h.back = "complete"
      /\ h.app = req[r].app /\ h.catch = req[r].catch
  BY <1>0 DEF Call, HandlerRow
<1> HIDE DEF h
<1>4. req' \in [Req -> HandlerRow] /\ req'[r] = h /\ Others(r)
  BY <1>0, <1>2, Replaces DEF CapitalExceeded, Begin, h
<1>5. req[r].app \in App
  BY <1>0, <1>1 DEF Equipped, Nowhere, HandlerRow
<1>6. /\ queue' \subseteq [run : Req, app : App] /\ queue \subseteq queue'
      /\ \E e \in queue' : e.app = req[r].app
  BY <1>5, QueueGrows DEF CapitalExceeded
<1>7. TypeOK' /\ Apart(r) /\ Grows /\ Rows'
  BY <1>1, <1>4, <1>6, Written DEF IInv, TypeOK, Exists
<1>8. Equipped(r)'
  BY <1>0, <1>1, <1>3, <1>4, NullAssumption
  DEF Equipped, Nowhere, Moving, Raising, Reviewing, Exists, Status, Undecided
<1>9. RunKnown(r)'
  BY <1>0, <1>1, <1>3, <1>4 DEF RunKnown, Before, After, Reviewing
<1>10. Founded(r)'
  BY <1>3, <1>4, <1>6 DEF Founded, Moving, Approved, Listed
<1> QED
  BY <1>7, <1>8, <1>9, <1>10, Together

LEMMA WaitingListIInv ==
  ASSUME IInv, NEW r \in Req, WaitingList(r)
  PROVE  IInv'
<1>0. /\ req \in [Req -> HandlerRow] /\ req[r] \in HandlerRow
      /\ Equipped(r) /\ RunKnown(r) /\ Founded(r)
  BY Known
<1>1. /\ req[r].pc = "waiting" /\ Goto(r, "decision") /\ "decision" \in Where
      /\ UNCHANGED <<app, history, member, run, set, votes, appeals, ctx>>
  BY DEF WaitingList, At, Where
<1>2. /\ req' \in [Req -> HandlerRow] /\ Others(r)
      /\ req'[r].pc = "decision" /\ Keeps(req[r], req'[r])
  BY <1>0, <1>1, GotoEffect
<1>3. req[r].app \in App
  BY <1>0, <1>1 DEF Equipped, Nowhere, HandlerRow
<1>4. /\ queue' \subseteq [run : Req, app : App] /\ queue \subseteq queue'
      /\ \E e \in queue' : e.app = req[r].app
  BY <1>3, QueueGrows DEF WaitingList
<1>5. TypeOK' /\ Apart(r) /\ Grows /\ Rows'
  BY <1>1, <1>2, <1>4, Written DEF IInv, TypeOK, Exists
<1>6. Equipped(r)'
  BY <1>0, <1>1, <1>2 DEF Equipped, Keeps, Nowhere, Moving, Raising, Reviewing, Exists
<1>7. RunKnown(r)'
  BY <1>0, <1>1, <1>2 DEF RunKnown, Keeps, Before, After, Reviewing
<1>8. Founded(r)'
  BY <1>2, <1>4 DEF Founded, Keeps, Moving, Listed
<1> QED
  BY <1>5, <1>6, <1>7, <1>8, Together

LEMMA CondemnIInv ==
  ASSUME IInv, NEW r \in Req, Condemn(r)
  PROVE  IInv'
<1>0. /\ req \in [Req -> HandlerRow] /\ req[r] \in HandlerRow
      /\ Equipped(r) /\ RunKnown(r) /\ Founded(r)
  BY Known
<1>1. /\ req[r].pc = "condemn" /\ Goto(r, "done") /\ "done" \in Where
      /\ UNCHANGED <<run, set, votes, queue, appeals, ctx>>
  BY DEF Condemn, At, Where, pipeVars
<1>2. /\ req' \in [Req -> HandlerRow] /\ Others(r)
      /\ req'[r].pc = "done" /\ Keeps(req[r], req'[r])
  BY <1>0, <1>1, GotoEffect
<1>3. PICK a \in App : a = req[r].app
  BY <1>0, <1>1 DEF Equipped, Nowhere, HandlerRow
<1>4. app \in [App -> AppRow] /\ app[a] \in AppRow
  BY DEF IInv, TypeOK
<1> DEFINE row == [app[a] EXCEPT !.status = "fraud_flagged"]
<1>5. row \in AppRow /\ row.status = "fraud_flagged"
  BY <1>4 DEF AppRow, Status
<1>6. app' = [app EXCEPT ![a] = row]
  BY <1>3, <1>4 DEF Condemn, AppOf
<1> HIDE DEF row
<1>7. app' \in [App -> AppRow] /\ app'[a].status = "fraud_flagged"
      /\ \A b \in App \ {a} : app'[b] = app[b]
  BY <1>4, <1>5, <1>6
<1>8. member' \in [Student -> Membership]
  BY DEF Condemn, Membership, IInv, TypeOK
<1>9. history' \in [App -> Seq(HistoryRow)]
  <2> DEFINE entry == [from |-> None, to |-> "fraud_flagged"]
  <2>1. entry \in HistoryRow
    BY DEF HistoryRow, Status
  <2>2. history' = [history EXCEPT ![AppOf(r)] = Append(@, entry)]
    BY DEF Condemn
  <2> HIDE DEF entry
  <2> QED
    BY <2>1, <2>2, HistoryTyped
<1>10. TypeOK' /\ Apart(r) /\ Grows /\ Rows'
  <2>1. \A b \in App : app'[b].status = app[b].status \/ Grounded(b, app'[b].status)
    BY <1>7 DEF Grounded, Approved
  <2>2. \A b \in App : app'[b].status = "absent" => app[b].status = "absent"
    BY <1>7
  <2> QED
    BY <1>1, <1>2, <1>7, <1>8, <1>9, <2>1, <2>2, Written DEF IInv, TypeOK, Exists
<1>11. Equipped(r)'
  <2>1. (req[r].app # None => Exists(req[r].app))'
    BY <1>2, <1>3, <1>7 DEF Keeps, Exists
  <2> QED
    BY <1>0, <1>1, <1>2, <2>1 DEF Equipped, Keeps, Nowhere, Moving, Raising, Reviewing
<1>12. RunKnown(r)'
  BY <1>0, <1>1, <1>2 DEF RunKnown, Keeps, Before, After, Reviewing
<1>13. Founded(r)'
  BY <1>2, NothingFounded DEF Moving
<1> QED
  BY <1>10, <1>11, <1>12, <1>13, Together

LEMMA InsertAppealIInv ==
  ASSUME IInv, NEW r \in Req, InsertAppeal(r)
  PROVE  IInv'
<1>0. /\ req \in [Req -> HandlerRow] /\ req[r] \in HandlerRow
      /\ Equipped(r) /\ RunKnown(r) /\ Founded(r)
  BY Known
<1>1. /\ req[r].pc = "appeal" /\ Goto(r, "check") /\ "check" \in Where
      /\ req[r].target = "appealing"
      /\ UNCHANGED <<app, history, member, run, set, votes, queue, ctx>>
  BY <1>0 DEF InsertAppeal, At, Where, Equipped
<1>2. /\ req' \in [Req -> HandlerRow] /\ Others(r)
      /\ req'[r].pc = "check" /\ Keeps(req[r], req'[r])
  BY <1>0, <1>1, GotoEffect
<1>3. req[r].app \in App
  BY <1>0, <1>1 DEF Equipped, Nowhere, HandlerRow
<1>4. appeals' \subseteq [by : Req, app : App]
  <2> DEFINE e == [by |-> r, app |-> req[r].app]
  <2>1. e \in [by : Req, app : App]
    BY <1>3
  <2>2. appeals' = appeals \cup {e}
    BY DEF InsertAppeal, AppOf
  <2> HIDE DEF e
  <2> QED
    BY <2>1, <2>2 DEF IInv, TypeOK
<1>5. TypeOK' /\ Apart(r) /\ Grows /\ Rows'
  BY <1>1, <1>2, <1>4, Written DEF IInv, TypeOK, Exists
<1>6. Equipped(r)'
  <2>1. req'[r].target # None
    BY <1>1, <1>2, NullAssumption DEF Status, Undecided, Keeps
  <2>2. req'[r].app # None /\ (Exists(req[r].app))'
    BY <1>0, <1>1, <1>2 DEF Equipped, Nowhere, Keeps, Exists
  <2>3. req'[r].back = "done"
    BY <1>0, <1>1, <1>2 DEF RunKnown, Before, Keeps
  <2> QED
    BY <1>2, <2>1, <2>2, <2>3 DEF Equipped, Moving, Raising, Reviewing, Exists
<1>7. RunKnown(r)'
  BY <1>0, <1>1, <1>2 DEF RunKnown, Keeps, Before, After, Reviewing
<1>8. Founded(r)'
  BY <1>1, <1>2 DEF Founded, Keeps, Moving, Approved
<1> QED
  BY <1>5, <1>6, <1>7, <1>8, Together

LEMMA AskReviewersIInv ==
  ASSUME IInv, NEW r \in Req, AskReviewers(r)
  PROVE  IInv'
<1>0. /\ req \in [Req -> HandlerRow] /\ req[r] \in HandlerRow
      /\ ctx \in [Req -> ContextRow] /\ ctx[r] \in ContextRow
      /\ Equipped(r) /\ RunKnown(r) /\ Founded(r)
  BY Known
<1>1. /\ req[r].pc = "stage" /\ ctx[r].stage = 8
      /\ UNCHANGED <<app, history, member, run, votes, queue, appeals>>
  BY DEF AskReviewers, AtStage, At
<1> DEFINE c == [ctx[r] EXCEPT !.stage = @ + 1]
<1>2. c \in ContextRow /\ c.stage = 9 /\ c.decision = ctx[r].decision
  BY <1>0, <1>1, NextStageContext
<1>3. ctx' = [ctx EXCEPT ![r] = c]
  BY DEF AskReviewers, NextStage
<1> HIDE DEF c
<1>4. ctx' \in [Req -> ContextRow] /\ ctx'[r] = c /\ \A q \in Req \ {r} : ctx'[q] = ctx[q]
  BY <1>0, <1>2, <1>3
<1>5. /\ req' \in [Req -> HandlerRow] /\ Others(r)
      /\ req'[r].app = req[r].app /\ req'[r].catch = req[r].catch
      /\ \/ req'[r] = req[r]
         \/ /\ req'[r].pc = "check" /\ req'[r].target = "under_review"
            /\ req'[r].back = "stage"
  <2>1. CASE req' = req
    BY <1>0, <2>1 DEF Others
  <2>2. CASE Begin(r, Call(r, "under_review", "stage"))
    <3> DEFINE h == Call(r, "under_review", "stage")
    <3>1. req[r].tier \in Tier \cup {None}
      BY <1>0 DEF HandlerRow
    <3>2. ASSUME NEW target \in Status \cup {None}
          PROVE  [req[r] EXCEPT !.pc = "check", !.target = target, !.back = "stage",
                                !.tier = req[r].tier] \in HandlerRow
      BY <1>0, <3>1, CallTyped
    <3>3. h = [req[r] EXCEPT !.pc = "check", !.target = "under_review", !.back = "stage",
                             !.tier = req[r].tier]
      BY <1>0 DEF Call, HandlerRow
    <3>4. "under_review" \in Status \cup {None}
      BY DEF Status, Undecided
    <3>5. h \in HandlerRow
      BY <3>2, <3>3, <3>4
    <3>6. /\ h.pc = "check" /\ h.target = "under_review" /\ h.back = "stage"
          /\ h.app = req[r].app /\ h.catch = req[r].catch
      BY <1>0 DEF Call, HandlerRow
    <3> HIDE DEF h
    <3>7. req' = [req EXCEPT ![r] = h]
      BY <2>2 DEF Begin, h
    <3> QED
      BY <1>0, <3>5, <3>6, <3>7, Replaces
  <2> QED
    BY <2>1, <2>2 DEF AskReviewers
<1>6. set[r] = None
  BY <1>0, <1>1 DEF RunKnown
<1>7. /\ set' \in [Req -> SetRow \cup {None}] /\ \A q \in Req \ {r} : set'[q] = set[q]
      /\ set'[r] # None => set'[r].status = "pending"
  <2>1. CASE set' = set
    BY <1>6, <2>1 DEF IInv, TypeOK
  <2>2. CASE set' # set
    <3> DEFINE row == [required |-> ctx[r].required, status |-> "pending"]
    <3>1. row \in SetRow /\ row.status = "pending"
      BY <1>0 DEF SetRow, SetStatus, ContextRow
    <3>2. set' = [set EXCEPT ![r] = row]
      BY <2>2 DEF AskReviewers
    <3> HIDE DEF row
    <3> QED
      BY <3>1, <3>2 DEF IInv, TypeOK
  <2> QED
    BY <2>1, <2>2
<1>8. TypeOK' /\ Apart(r) /\ Grows /\ Rows'
  <2>1. \A q \in Req : /\ set[q] # None => set'[q] # None /\ set'[q].required = set[q].required
                       /\ q # r /\ set[q] = None => set'[q] = None
    BY <1>6, <1>7
  <2>2. \A q \in Req : set'[q] # None /\ set'[q].status = "approved" =>
          set[q] # None /\ (set[q].status = "approved" \/ Approvers(q) >= set[q].required)
    BY <1>7
  <2> QED
    BY <1>1, <1>4, <1>5, <1>7, <2>1, <2>2, SetsWritten
<1>9. Equipped(r)'
  <2>1. "under_review" # None
    BY NullAssumption DEF Status, Undecided
  <2> QED
    BY <1>0, <1>1, <1>2, <1>4, <1>5, <2>1
    DEF Equipped, Nowhere, Moving, Raising, Reviewing, Exists
<1>10. RunKnown(r)'
  BY <1>0, <1>1, <1>2, <1>4, <1>5 DEF RunKnown, Before, After, Reviewing
<1>11. Founded(r)'
  BY <1>1, <1>2, <1>4, <1>5 DEF Founded, Moving, Approved
<1> QED
  BY <1>8, <1>9, <1>10, <1>11, Together

-------------------------------------------------------------------------------
(***************************************************************************)
(* Steps that write runs.                                                   *)
(***************************************************************************)
LEMMA AssessRiskIInv ==
  ASSUME IInv, NEW r \in Req, AssessRisk(r)
  PROVE  IInv'
<1>0. /\ req \in [Req -> HandlerRow] /\ req[r] \in HandlerRow
      /\ ctx \in [Req -> ContextRow] /\ ctx[r] \in ContextRow
      /\ Equipped(r) /\ RunKnown(r) /\ Founded(r)
  BY Known
<1>1. /\ req[r].pc = "stage" /\ ctx[r].stage = 4 /\ req'[r].pc = "stage"
      /\ UNCHANGED <<app, history, member, req, set, votes, queue, appeals>>
  BY DEF AssessRisk, AtStage, At
<1> DEFINE c == [ctx[r] EXCEPT !.stage = @ + 1]
<1>2. c \in ContextRow /\ c.stage = 5 /\ c.decision = ctx[r].decision
  BY <1>0, <1>1, NextStageContext
<1>3. ctx' = [ctx EXCEPT ![r] = c]
  BY DEF AssessRisk, NextStage
<1> HIDE DEF c
<1>4. ctx' \in [Req -> ContextRow] /\ ctx'[r] = c /\ \A q \in Req \ {r} : ctx'[q] = ctx[q]
  BY <1>0, <1>2, <1>3
<1>5. PICK risk \in Risk : run' = [run EXCEPT ![r].risk = risk]
  BY DEF AssessRisk
<1>6. run \in [Req -> RunRow] /\ run[r] \in RunRow
  BY DEF IInv, TypeOK
<1> DEFINE row == [run[r] EXCEPT !.risk = risk]
<1>7. /\ row \in RunRow /\ row.status = run[r].status /\ row.app = run[r].app
      /\ row.number = run[r].number /\ row.decision = run[r].decision
  BY <1>6 DEF RunRow
<1>8. run' = [run EXCEPT ![r] = row]
  BY <1>5, <1>6
<1> HIDE DEF row
<1>9. /\ run' \in [Req -> RunRow]
      /\ \A q \in Req : /\ run'[q].status = run[q].status /\ run'[q].app = run[q].app
                        /\ run'[q].number = run[q].number /\ run'[q].decision = run[q].decision
  BY <1>6, <1>7, <1>8
<1>10. TypeOK' /\ Apart(r) /\ Grows /\ Rows'
  BY <1>0, <1>1, <1>4, <1>9, RunsWritten DEF Others
<1>11. Equipped(r)'
  BY <1>0, <1>1, <1>2, <1>4 DEF Equipped, Nowhere, Moving, Raising, Reviewing, Exists
<1>12. RunKnown(r)'
  BY <1>0, <1>1, <1>2, <1>4, <1>9 DEF RunKnown, Before, After, Reviewing
<1>13. Founded(r)'
  BY <1>1, <1>2, <1>4, NothingFounded DEF Moving
<1> QED
  BY <1>10, <1>11, <1>12, <1>13, Together

LEMMA InsertDecisionIInv ==
  ASSUME IInv, NEW r \in Req, InsertDecision(r)
  PROVE  IInv'
<1>0. /\ req \in [Req -> HandlerRow] /\ req[r] \in HandlerRow
      /\ ctx \in [Req -> ContextRow] /\ ctx[r] \in ContextRow
      /\ Equipped(r) /\ RunKnown(r) /\ Founded(r)
  BY Known
<1>1. /\ req[r].pc = "decision" /\ ctx[r].stage = 9 /\ Goto(r, "stage") /\ "stage" \in Where
      /\ UNCHANGED <<app, history, member, set, votes, queue, appeals>>
  BY <1>0 DEF InsertDecision, At, Where, Equipped
<1>2. /\ req' \in [Req -> HandlerRow] /\ Others(r)
      /\ req'[r].pc = "stage" /\ Keeps(req[r], req'[r])
  BY <1>0, <1>1, GotoEffect
<1> DEFINE c == [ctx[r] EXCEPT !.stage = @ + 1]
<1>3. c \in ContextRow /\ c.stage = 10 /\ c.decision = ctx[r].decision
  BY <1>0, <1>1, NextStageContext
<1>4. ctx' = [ctx EXCEPT ![r] = c]
  BY DEF InsertDecision, NextStage
<1> HIDE DEF c
<1>5. ctx' \in [Req -> ContextRow] /\ ctx'[r] = c /\ \A q \in Req \ {r} : ctx'[q] = ctx[q]
  BY <1>0, <1>3, <1>4
<1>6. run \in [Req -> RunRow] /\ run[r] \in RunRow
  BY DEF IInv, TypeOK
<1>7. PICK d \in Decision \cup {None} : d = ctx[r].decision
  BY <1>0 DEF ContextRow
<1> DEFINE row == [run[r] EXCEPT !.decision = d]
<1>8. /\ row \in RunRow /\ row.status = run[r].status /\ row.app = run[r].app
      /\ row.number = run[r].number /\ row.decision = d
  BY <1>6 DEF RunRow
<1>9. run' = [run EXCEPT ![r] = row]
  BY <1>6, <1>7 DEF InsertDecision
<1> HIDE DEF row
<1>10. /\ run' \in [Req -> RunRow] /\ run'[r].decision = d
       /\ \A q \in Req : /\ run'[q].status = run[q].status /\ run'[q].app = run[q].app
                         /\ run'[q].number = run[q].number
                         /\ q # r => run'[q].decision = run[q].decision
  BY <1>6, <1>8, <1>9
<1>11. run[r].status # "absent" /\ run[r].decision = None
  BY <1>0, <1>1 DEF RunKnown, After
<1>12. TypeOK' /\ Apart(r) /\ Grows /\ Rows'
  BY <1>1, <1>2, <1>5, <1>10, <1>11, RunsWritten
<1>13. Equipped(r)'
  BY <1>0, <1>1, <1>2, <1>3, <1>5
  DEF Equipped, Keeps, Nowhere, Moving, Raising, Reviewing, Exists
<1>14. RunKnown(r)'
  BY <1>0, <1>1, <1>2, <1>3, <1>5, <1>7, <1>10
  DEF RunKnown, Keeps, Before, After, Reviewing
<1>15. Founded(r)'
  BY <1>0, <1>1, <1>2, <1>3, <1>5 DEF Founded, Keeps, Moving, Listed
<1> QED
  BY <1>12, <1>13, <1>14, <1>15, Together

LEMMA EndsTyped ==
  ASSUME run \in [Req -> RunRow], NEW r \in Req, run[r].status # "absent",
         NEW status \in RunStatus \ {"absent"}, run' = [run EXCEPT ![r].status = status]
  PROVE  /\ run' \in [Req -> RunRow]
         /\ \A q \in Req : /\ run'[q].status = "absent" <=> run[q].status = "absent"
                           /\ run'[q].app = run[q].app /\ run'[q].number = run[q].number
                           /\ run'[q].decision = run[q].decision
<1> DEFINE row == [run[r] EXCEPT !.status = status]
<1>1. /\ row \in RunRow /\ row.status = status /\ row.app = run[r].app
      /\ row.number = run[r].number /\ row.decision = run[r].decision
  BY DEF RunRow
<1>2. run' = [run EXCEPT ![r] = row]
  OBVIOUS
<1> HIDE DEF row
<1> QED
  BY <1>1, <1>2

LEMMA CompleteRunIInv ==
  ASSUME IInv, NEW r \in Req, CompleteRun(r)
  PROVE  IInv'
<1>0. /\ req \in [Req -> HandlerRow] /\ req[r] \in HandlerRow
      /\ Equipped(r) /\ RunKnown(r) /\ Founded(r)
  BY Known
<1>1. /\ req[r].pc = "complete" /\ Goto(r, "trace") /\ "trace" \in Where
      /\ UNCHANGED <<app, history, member, set, votes, queue, appeals, ctx>>
  BY DEF CompleteRun, At, Where
<1>2. /\ req' \in [Req -> HandlerRow] /\ Others(r)
      /\ req'[r].pc = "trace" /\ Keeps(req[r], req'[r])
  BY <1>0, <1>1, GotoEffect
<1>3. run[r].status # "absent"
  BY <1>0, <1>1 DEF RunKnown, After
<1>4. PICK status \in RunStatus \ {"absent"} : status = "completed"
  BY DEF RunStatus
<1>10. run' = [run EXCEPT ![r].status = status] /\ run \in [Req -> RunRow]
  BY <1>4 DEF CompleteRun, IInv, TypeOK
<1>5. /\ run' \in [Req -> RunRow]
      /\ \A q \in Req : /\ run'[q].status = "absent" <=> run[q].status = "absent"
                        /\ run'[q].app = run[q].app /\ run'[q].number = run[q].number
                        /\ run'[q].decision = run[q].decision
  BY <1>3, <1>10, EndsTyped
<1>6. TypeOK' /\ Apart(r) /\ Grows /\ Rows'
  BY <1>1, <1>2, <1>5, RunsWritten DEF IInv, TypeOK
<1>7. Equipped(r)'
  BY <1>0, <1>1, <1>2 DEF Equipped, Keeps, Nowhere, Moving, Raising, Reviewing, Exists
<1>8. RunKnown(r)'
  BY <1>0, <1>1, <1>2, <1>5 DEF RunKnown, Keeps, Before, After, Reviewing
<1>9. Founded(r)'
  BY <1>2, NothingFounded DEF Moving
<1> QED
  BY <1>6, <1>7, <1>8, <1>9, Together

LEMMA StoreTraceIInv ==
  ASSUME IInv, NEW r \in Req, StoreTrace(r)
  PROVE  IInv'
<1>1. "done" \in Where
  BY DEF Where
<1> QED
  BY <1>1, GotoIInv DEF StoreTrace, At

LEMMA CancelRunIInv ==
  ASSUME IInv, NEW r \in Req, CancelRun(r)
  PROVE  IInv'
<1>0. /\ req \in [Req -> HandlerRow] /\ req[r] \in HandlerRow
      /\ Equipped(r) /\ RunKnown(r) /\ Founded(r)
  BY Known
<1>1. /\ req[r].pc = "cancel" /\ Goto(r, "failed") /\ "failed" \in Where
      /\ UNCHANGED <<app, history, member, set, votes, queue, appeals, ctx>>
  BY DEF CancelRun, At, Where
<1>2. /\ req' \in [Req -> HandlerRow] /\ Others(r)
      /\ req'[r].pc = "failed" /\ Keeps(req[r], req'[r])
  BY <1>0, <1>1, GotoEffect
<1>3. run[r].status # "absent"
  BY <1>0, <1>1 DEF RunKnown, After
<1>4. PICK status \in RunStatus \ {"absent"} : status = "cancelled"
  BY DEF RunStatus
<1>10. run' = [run EXCEPT ![r].status = status] /\ run \in [Req -> RunRow]
  BY <1>4 DEF CancelRun, IInv, TypeOK
<1>5. /\ run' \in [Req -> RunRow]
      /\ \A q \in Req : /\ run'[q].status = "absent" <=> run[q].status = "absent"
                        /\ run'[q].app = run[q].app /\ run'[q].number = run[q].number
                        /\ run'[q].decision = run[q].decision
  BY <1>3, <1>10, EndsTyped
<1>6. TypeOK' /\ Apart(r) /\ Grows /\ Rows'
  BY <1>1, <1>2, <1>5, RunsWritten DEF IInv, TypeOK
<1>7. Equipped(r)'
  BY <1>0, <1>1, <1>2 DEF Equipped, Keeps, Nowhere, Moving, Raising, Reviewing, Exists
<1>8. RunKnown(r)'
  BY <1>0, <1>1, <1>2, <1>5 DEF RunKnown, Keeps, Before, After, Reviewing
<1>9. Founded(r)'
  BY <1>2, NothingFounded DEF Moving
<1> QED
  BY <1>6, <1>7, <1>8, <1>9, Together

LEMMA SupersedeIInv ==
  ASSUME IInv, NEW r \in Req, Supersede(r)
  PROVE  IInv'
<1>0. /\ req \in [Req -> HandlerRow] /\ req[r] \in HandlerRow
      /\ Equipped(r) /\ RunKnown(r) /\ Founded(r)
  BY Known
<1>1. /\ req[r].pc = "supersede" /\ Goto(r, "current") /\ "current" \in Where
      /\ UNCHANGED <<app, history, member, set, votes, queue, appeals, ctx>>
  BY DEF Supersede, At, Where
<1>2. /\ req' \in [Req -> HandlerRow] /\ Others(r)
      /\ req'[r].pc = "current" /\ Keeps(req[r], req'[r])
  BY <1>0, <1>1, GotoEffect
<1>3. \A q \in Req : run[q] \in RunRow
  BY DEF IInv, TypeOK
<1>4. ASSUME NEW q \in Req
      PROVE  /\ run'[q] \in RunRow
             /\ run'[q].status = "absent" <=> run[q].status = "absent"
             /\ run'[q].app = run[q].app /\ run'[q].number = run[q].number
             /\ run'[q].decision = run[q].decision
  <2>1. run'[q] = run[q] \/ (run'[q] = [run[q] EXCEPT !.status = "superseded"]
                              /\ run[q].status = "active")
    BY DEF Supersede
  <2>2. "superseded" \in RunStatus
    BY DEF RunStatus
  <2> DEFINE row == [run[q] EXCEPT !.status = "superseded"]
  <2>3. /\ row \in RunRow /\ row.status = "superseded" /\ row.app = run[q].app
        /\ row.number = run[q].number /\ row.decision = run[q].decision
    BY <1>3, <2>2 DEF RunRow
  <2> HIDE DEF row
  <2> QED
    BY <1>3, <2>1, <2>3 DEF row
<1>5. run' \in [Req -> RunRow]
  <2>1. DOMAIN run' = Req /\ run' = [q \in Req |-> run'[q]]
    BY DEF Supersede
  <2> QED
    BY <1>4, <2>1
<1>6. TypeOK' /\ Apart(r) /\ Grows /\ Rows'
  BY <1>1, <1>2, <1>4, <1>5, RunsWritten DEF IInv, TypeOK
<1>7. Equipped(r)'
  BY <1>0, <1>1, <1>2 DEF Equipped, Keeps, Nowhere, Moving, Raising, Reviewing, Exists
<1>8. RunKnown(r)'
  BY <1>0, <1>1, <1>2, <1>4 DEF RunKnown, Keeps, Before, After, Reviewing
<1>9. Founded(r)'
  BY <1>2, NothingFounded DEF Moving
<1> QED
  BY <1>6, <1>7, <1>8, <1>9, Together

\* UNIQUE(application_id, run_number): the number is one more than some run
\* already has, or 1, and no run has it.
LEMMA InsertRunIInv ==
  ASSUME IInv, NEW r \in Req, InsertRun(r)
  PROVE  IInv'
<1>0. /\ req \in [Req -> HandlerRow] /\ req[r] \in HandlerRow
      /\ Equipped(r) /\ RunKnown(r) /\ Founded(r)
  BY Known
<1>1. /\ req[r].pc = "run"
      /\ UNCHANGED <<app, history, member, set, votes, queue, appeals, ctx>>
  BY DEF InsertRun, At
<1>2. CASE ctx[r].number \in NumberIn(AppOf(r))
  <2>1. Goto(r, "failed") /\ run' = run /\ "failed" \in Where
    BY <1>2 DEF InsertRun, Where
  <2> QED
    BY <1>1, <2>1, GotoIInv
<1>3. CASE ctx[r].number \notin NumberIn(AppOf(r))
  <2>1. PICK a \in App : a = req[r].app /\ a # None
    BY <1>0, <1>1 DEF Equipped, Nowhere, HandlerRow
  <2>2. PICK n \in Nat \ {0} : /\ n = ctx[r].number /\ n \notin NumberIn(a)
                               /\ n > 1 => n - 1 \in NumberIn(a)
    BY <1>0, <1>1, <1>3, <2>1 DEF Founded, AppOf
  <2> DEFINE row == [NoRun EXCEPT !.status = "active", !.app = a, !.number = n]
  <2>3. /\ row \in RunRow /\ row.status = "active" /\ row.app = a /\ row.number = n
        /\ row.decision = None
    BY DEF NoRun, RunRow, RunStatus
  <2>4. run' = [run EXCEPT ![r] = row]
    BY <1>3, <2>1, <2>2 DEF InsertRun, AppOf
  <2> HIDE DEF row
  <2>5. run' \in [Req -> RunRow] /\ run'[r] = row /\ \A q \in Req \ {r} : run'[q] = run[q]
    BY <2>3, <2>4 DEF IInv, TypeOK
  <2>6. Goto(r, "supersede") /\ "supersede" \in Where
    BY <1>3 DEF InsertRun, Where
  <2>7. /\ req' \in [Req -> HandlerRow] /\ Others(r)
        /\ req'[r].pc = "supersede" /\ Keeps(req[r], req'[r])
    BY <1>0, <2>6, GotoEffect
  <2>8. run[r].status = "absent" /\ ctx[r].decision = None /\ set[r] = None
    BY <1>0, <1>1 DEF RunKnown, Before
  <2>9. TypeOK'
    BY <1>1, <2>5, <2>7 DEF IInv, TypeOK
  <2>10. Grows
    BY <1>1, <2>5, <2>8, LenProperties DEF Grows, Exists, IInv, TypeOK
  <2>11. Numbered'
    <3>1. \A q \in Req : run[q].status # "absent" /\ run[q].app = a => run[q].number # n
      BY <2>2 DEF NumberIn, RunsOf
    <3>2. \A p, q \in Req : (/\ run'[p].status # "absent"
                             /\ run'[q].status # "absent"
                             /\ run'[p].app = run'[q].app
                             /\ run'[p].number = run'[q].number)
                            => p = q
      BY <2>3, <2>5, <3>1 DEF IInv, Rows, Numbered
    <3>3. ASSUME NEW q \in Req, run'[q].status # "absent", run'[q].number > 1
          PROVE  (run[q].number - 1 \in NumberIn(run[q].app))'
      <4>1. PICK b : b = run'[q].app
        OBVIOUS
      <4>2. run'[q].number - 1 \in NumberIn(b)
        <5>1. CASE q = r
          BY <2>2, <2>3, <2>5, <3>3, <4>1, <5>1
        <5>2. CASE q # r
          BY <2>5, <3>3, <4>1, <5>2 DEF IInv, Rows, Numbered
        <5> QED
          BY <5>1, <5>2
      <4>3. run'[q].number - 1 \in NumberIn(b)'
        BY <2>10, <4>2, FactsStay
      <4> QED
        BY <4>1, <4>3 DEF NumberIn, RunsOf
    <3> QED
      BY <3>2, <3>3, Zenon DEF Numbered
  <2>12. Rows'
    <3>1. ApprovedIsDecided' /\ WaitsOnList' /\ ApprovedByEnough'
      BY <1>1, <2>9, <2>10, OtherRowsFrame DEF TypeOK, IInv, Rows, ApprovedByEnough
    <3> QED
      BY <2>11, <3>1 DEF Rows
  <2>13. Apart(r)
    BY <1>1, <2>5, <2>7 DEF Apart
  <2>14. Equipped(r)'
    BY <1>0, <1>1, <2>7 DEF Equipped, Keeps, Nowhere, Moving, Raising, Reviewing, Exists
  <2>15. RunKnown(r)'
    BY <1>0, <1>1, <2>1, <2>3, <2>5, <2>7, <2>8 DEF RunKnown, Keeps, Before, After, Reviewing
  <2>16. Founded(r)'
    BY <2>7, NothingFounded DEF Moving
  <2> QED
    BY <2>9, <2>10, <2>12, <2>13, <2>14, <2>15, <2>16, Together
<1> QED
  BY <1>2, <1>3

-------------------------------------------------------------------------------
(***************************************************************************)
(* Steps that write votes and approval sets.                                *)
(***************************************************************************)
LEMMA CastVoteIInv ==
  ASSUME IInv, NEW r \in Req, CastVote(r)
  PROVE  IInv'
<1>0. /\ req \in [Req -> HandlerRow] /\ req[r] \in HandlerRow
      /\ ctx \in [Req -> ContextRow] /\ ctx[r] \in ContextRow
      /\ Equipped(r) /\ RunKnown(r) /\ Founded(r)
  BY Known
<1>1. /\ req[r].pc = "vote"
      /\ UNCHANGED <<app, history, member, run, set, queue, appeals, ctx>>
  BY DEF CastVote, At
<1> DEFINE h == [req[r] EXCEPT !.pc = "tally", !.tier = None]
<1>2. h \in HandlerRow
  <2>1. ASSUME NEW pc \in Where PROVE [req[r] EXCEPT !.pc = pc, !.tier = None] \in HandlerRow
    BY <1>0 DEF HandlerRow
  <2>2. "tally" \in Where
    BY DEF Where
  <2> QED
    BY <2>1, <2>2
<1>3. /\ h.pc = "tally" /\ h.app = req[r].app /\ h.catch = req[r].catch
      /\ h.back = req[r].back /\ h.op = req[r].op
  BY <1>0 DEF HandlerRow
<1>4. req' = [req EXCEPT ![r] = h]
  BY DEF CastVote
<1> HIDE DEF h
<1>5. req' \in [Req -> HandlerRow] /\ req'[r] = h /\ Others(r)
  BY <1>0, <1>2, <1>4, Replaces
<1> DEFINE row == [run |-> ctx[r].of, voter |-> ctx[r].voter, decision |-> ctx[r].vote,
                   tier |-> req[r].tier, override |-> (req[r].op = "override")]
<1>6. /\ ctx[r].of \in Req /\ ctx[r].vote \in Vote /\ ctx[r].voter \in Reviewer
      /\ req[r].tier \in Tier \cup {None}
  BY <1>0, <1>1 DEF Equipped, Reviewing, ContextRow, HandlerRow
<1>7. (req[r].op = "override") \in BOOLEAN
  OBVIOUS
<1>8. row \in VoteRow
  BY <1>6, <1>7, Zenon DEF VoteRow
<1>9. row.run = ctx[r].of /\ row.decision = ctx[r].vote
  OBVIOUS
<1>10. votes' = Append(votes, row) /\ votes \in Seq(VoteRow)
  BY DEF CastVote, IInv, TypeOK
<1> HIDE DEF row
<1>11. /\ votes' \in Seq(VoteRow) /\ Len(votes') = Len(votes) + 1
       /\ votes'[Len(votes')] = row /\ \A k \in 1..Len(votes) : votes'[k] = votes[k]
  BY <1>8, <1>10, AppendProperties
<1>12. TypeOK'
  BY <1>1, <1>5, <1>11 DEF IInv, TypeOK
<1>13. Grows
  BY <1>1, <1>10, <1>11, LenProperties DEF Grows, Exists, IInv, TypeOK
<1>14. Apart(r)
  BY <1>1, <1>5 DEF Apart
<1>15. Rows'
  BY <1>1, <1>11, <1>13, RowsFrame DEF IInv, TypeOK, Rows
<1>16. Equipped(r)'
  BY <1>0, <1>1, <1>3, <1>5 DEF Equipped, Nowhere, Moving, Raising, Reviewing, Exists
<1>17. RunKnown(r)'
  BY <1>0, <1>1, <1>3, <1>5 DEF RunKnown, Before, After, Reviewing
<1>18. Founded(r)'
  <2>1. Len(votes') \in 1..Len(votes')
    BY <1>10, <1>11, LenProperties
  <2>2. \E k \in 1..Len(votes') : votes'[k].run = ctx'[r].of /\ votes'[k].decision = ctx'[r].vote
    BY <1>1, <1>9, <1>11, <2>1
  <2> QED
    BY <1>3, <1>5, <2>2 DEF Founded, Moving
<1> QED
  BY <1>12, <1>13, <1>14, <1>15, <1>16, <1>17, <1>18, Together

\* What marking a set leaves of it.
LEMMA MarkedSets ==
  ASSUME IInv, NEW q \in Req, set[q] # None, NEW status \in SetStatus,
         set' = [set EXCEPT ![q].status = status]
  PROVE  /\ set' \in [Req -> SetRow \cup {None}]
         /\ set'[q].status = status /\ set'[q] # None /\ set'[q].required = set[q].required
         /\ \A p \in Req \ {q} : set'[p] = set[p]
<1>1. set \in [Req -> SetRow \cup {None}] /\ set[q] \in SetRow
  BY DEF IInv, TypeOK
<1> DEFINE row == [set[q] EXCEPT !.status = status]
<1>2. row \in SetRow /\ row.status = status /\ row.required = set[q].required
  BY <1>1 DEF SetRow
<1>3. set' = [set EXCEPT ![q] = row]
  BY <1>1
<1>4. row # None
  BY <1>2, RowAssumption
<1> HIDE DEF row
<1> QED
  BY <1>1, <1>2, <1>3, <1>4

LEMMA MarkPartialIInv ==
  ASSUME IInv, NEW r \in Req, MarkPartial(r)
  PROVE  IInv'
<1>0. /\ req \in [Req -> HandlerRow] /\ req[r] \in HandlerRow
      /\ ctx \in [Req -> ContextRow] /\ ctx[r] \in ContextRow
      /\ Equipped(r) /\ RunKnown(r) /\ Founded(r)
  BY Known
<1>1. /\ req[r].pc = "partial" /\ Goto(r, "done") /\ "done" \in Where
      /\ UNCHANGED <<app, history, member, run, votes, queue, appeals, ctx>>
  BY DEF MarkPartial, At, Where
<1>2. /\ req' \in [Req -> HandlerRow] /\ Others(r)
      /\ req'[r].pc = "done" /\ Keeps(req[r], req'[r])
  BY <1>0, <1>1, GotoEffect
<1>3. PICK q \in Req : q = ctx[r].of
  BY <1>0, <1>1 DEF Equipped, Reviewing, ContextRow
<1>4. PICK status \in SetStatus : status = "partially_approved"
  BY DEF SetStatus
<1>5. set[q] # None /\ set' = [set EXCEPT ![q].status = status]
  BY <1>0, <1>1, <1>3, <1>4 DEF Founded, MarkPartial
<1>6. /\ set' \in [Req -> SetRow \cup {None}]
      /\ set'[q].status = status /\ set'[q] # None /\ set'[q].required = set[q].required
      /\ \A p \in Req \ {q} : set'[p] = set[p]
  BY <1>5, MarkedSets
<1>7. TypeOK' /\ Apart(r) /\ Grows /\ Rows'
  <2>1. \A p \in Req : /\ set[p] # None => set'[p] # None /\ set'[p].required = set[p].required
                       /\ p # r /\ set[p] = None => set'[p] = None
    BY <1>5, <1>6
  <2>2. \A p \in Req : set'[p] # None /\ set'[p].status = "approved" =>
          set[p] # None /\ (set[p].status = "approved" \/ Approvers(p) >= set[p].required)
    BY <1>4, <1>6
  <2> QED
    BY <1>0, <1>1, <1>2, <1>6, <2>1, <2>2, SetsWritten
<1>8. Equipped(r)'
  BY <1>0, <1>1, <1>2 DEF Equipped, Keeps, Nowhere, Moving, Raising, Reviewing, Exists
<1>9. RunKnown(r)'
  BY <1>0, <1>1, <1>2, <1>5, <1>6 DEF RunKnown, Keeps, Before, After, Reviewing
<1>10. Founded(r)'
  BY <1>2, NothingFounded DEF Moving
<1> QED
  BY <1>7, <1>8, <1>9, <1>10, Together

LEMMA MarkDecidedIInv ==
  ASSUME IInv, NEW r \in Req, MarkDecided(r)
  PROVE  IInv'
<1>0. /\ req \in [Req -> HandlerRow] /\ req[r] \in HandlerRow
      /\ ctx \in [Req -> ContextRow] /\ ctx[r] \in ContextRow
      /\ Equipped(r) /\ RunKnown(r) /\ Founded(r)
  BY Known
<1>1. /\ req[r].pc = "mark" /\ Goto(r, "snapshot") /\ "snapshot" \in Where
      /\ UNCHANGED <<app, history, member, run, votes, queue, appeals, ctx>>
  BY DEF MarkDecided, At, Where
<1>2. /\ req' \in [Req -> HandlerRow] /\ Others(r)
      /\ req'[r].pc = "snapshot" /\ Keeps(req[r], req'[r])
  BY <1>0, <1>1, GotoEffect
<1>3. PICK q \in Req : q = ctx[r].of
  BY <1>0, <1>1 DEF Equipped, Reviewing, ContextRow
<1>4. PICK status \in SetStatus :
        status = IF req[r].op = "override" THEN "overridden" ELSE ctx[r].vote
  BY <1>0, <1>1 DEF SetStatus, Equipped, Reviewing, ContextRow
<1>5. set[q] # None /\ set' = [set EXCEPT ![q].status = status]
  BY <1>0, <1>1, <1>3, <1>4 DEF Founded, MarkDecided
<1>6. /\ set' \in [Req -> SetRow \cup {None}]
      /\ set'[q].status = status /\ set'[q] # None /\ set'[q].required = set[q].required
      /\ \A p \in Req \ {q} : set'[p] = set[p]
  BY <1>5, MarkedSets
<1>7. TypeOK' /\ Apart(r) /\ Grows /\ Rows'
  <2>1. \A p \in Req : /\ set[p] # None => set'[p] # None /\ set'[p].required = set[p].required
                       /\ p # r /\ set[p] = None => set'[p] = None
    BY <1>5, <1>6
  <2>2. \A p \in Req : set'[p] # None /\ set'[p].status = "approved" =>
          set[p] # None /\ (set[p].status = "approved" \/ Approvers(p) >= set[p].required)
    BY <1>0, <1>1, <1>3, <1>4, <1>5, <1>6 DEF Founded
  <2> QED
    BY <1>0, <1>1, <1>2, <1>6, <2>1, <2>2, SetsWritten
<1>8. Equipped(r)'
  BY <1>0, <1>1, <1>2 DEF Equipped, Keeps, Nowhere, Moving, Raising, Reviewing, Exists
<1>9. RunKnown(r)'
  BY <1>0, <1>1, <1>2, <1>5, <1>6 DEF RunKnown, Keeps, Before, After, Reviewing
<1>10. Founded(r)'
  BY <1>2, NothingFounded DEF Moving
<1> QED
  BY <1>7, <1>8, <1>9, <1>10, Together

-------------------------------------------------------------------------------
(***************************************************************************)
(* Every step, and so every state.                                          *)
(***************************************************************************)
LEMMA AppContinueIInv ==
  ASSUME IInv, NEW r \in Req, AppContinue(r), UNCHANGED pipeVars
  PROVE  IInv'
BY LookForRequestIInv, InsertApplicationIInv, RecordOpeningIInv, CheckTransitionIInv, UpdateStatusIInv,
   RecordTransitionIInv, SetTierIInv, ReadMembershipIInv, RaiseMembershipIInv
DEF AppContinue

LEMMA ContinueIInv ==
  ASSUME IInv, NEW r \in Req, Continue(r)
  PROVE  IInv'
BY AppContinueIInv, SnapshotIInv, NextNumberIInv, InsertRunIInv, SupersedeIInv, SetCurrentRunIInv,
   GateIInv, AssessRiskIInv, CapitalExceededIInv, ThresholdIInv, AskReviewersIInv,
   GenerateDecisionIInv, WaitingListIInv, InsertDecisionIInv, ExecuteDecisionIInv, SetLevelIInv,
   CompleteRunIInv, StoreTraceIInv, CancelRunIInv, CheckVoteIInv, CastVoteIInv, TallyIInv, CountApproversIInv,
   MarkPartialIInv, MarkDecidedIInv, CondemnIInv, InsertAppealIInv
DEF Continue

LEMMA IdleIInv ==
  ASSUME IInv, UNCHANGED vars
  PROVE  IInv'
<1> USE DEF vars, appVars, pipeVars
<1>1. TypeOK'
  BY DEF IInv, TypeOK
<1>2. Grows
  BY LenProperties DEF Grows, Exists, IInv, TypeOK
<1>3. Rows'
  BY <1>1, <1>2, RowsFrame DEF IInv, TypeOK, Rows, Grounded, ApprovedByEnough
<1>4. ASSUME NEW r \in Req PROVE Equipped(r)' /\ RunKnown(r)' /\ Founded(r)'
  <2>1. Equipped(r) /\ RunKnown(r) /\ Founded(r)
    BY DEF IInv, Handlers
  <2>2. Equipped(r)'
    BY <2>1 DEF Equipped, Exists
  <2>3. RunKnown(r)'
    BY <2>1 DEF RunKnown
  <2>4. Founded(r)'
    BY <2>1 DEF Founded, NumberIn, RunsOf, Decided, Listed, Approvers, Approvals, VotesOn
  <2> QED
    BY <2>2, <2>3, <2>4
<1> QED
  BY <1>1, <1>3, <1>4 DEF IInv, Handlers

LEMMA NextIInv == IInv /\ [Next]_vars => IInv'
<1> SUFFICES ASSUME IInv, [Next]_vars PROVE IInv'
  OBVIOUS
<1>1. CASE UNCHANGED vars
  BY <1>1, IdleIInv
<1>2. ASSUME NEW r \in Req, Start(r) \/ Continue(r) \/ Break(r) PROVE IInv'
  BY <1>2, StartIInv, ContinueIInv, BreakIInv
<1> QED
  BY <1>1, <1>2 DEF Next

LEMMA Invariance == Spec => []IInv
<1> QED
  BY InitIInv, NextIInv, PTL DEF Spec

-------------------------------------------------------------------------------
(***************************************************************************)
(* The theorems.                                                            *)
(***************************************************************************)
\* The tables and the memory of the handlers keep their shape: no handler of
\* applications.service.ts or pipeline.service.ts works on a row that is not
\* there.
THEOREM Typed == Spec => []TypeOK
<1>1. IInv => TypeOK
  BY DEF IInv
<1> QED
  BY <1>1, Invariance, PTL

\* UNIQUE(application_id, run_number) and the number a handler reads before it
\* inserts: whatever races, runs are numbered without repetition or gap.
THEOREM Numbering == Spec => []RunsAreNumbered
<1>1. IInv => RunsAreNumbered
  <2> SUFFICES ASSUME IInv, NEW a \in App, NEW n \in NumberIn(a)
               PROVE  /\ Cardinality({q \in RunsOf(a) : run[q].number = n}) = 1
                      /\ n > 1 => n - 1 \in NumberIn(a)
    BY DEF RunsAreNumbered
  <2>1. PICK q \in RunsOf(a) : run[q].number = n
    BY DEF NumberIn
  <2>2. {p \in RunsOf(a) : run[p].number = n} = {q}
    BY <2>1 DEF IInv, Rows, Numbered, RunsOf
  <2>3. Cardinality({q}) = 1
    BY FS_Singleton
  <2>4. n > 1 => n - 1 \in NumberIn(a)
    BY <2>1 DEF IInv, Rows, Numbered, RunsOf
  <2> QED
    BY <2>2, <2>3, <2>4
<1> QED
  BY <1>1, Invariance, PTL

\* markApprovalSet after the count of distinct reviewers (K-12): also of votes
\* that race, a set that needs two approvers is only marked approved on the
\* word of two people.
THEOREM TwoPeople == Spec => []TwoApproversAreTwoPeople
<1>1. IInv => TwoApproversAreTwoPeople
  <2> SUFFICES ASSUME IInv, NEW q \in Req, set[q] # None, set[q].status = "approved"
               PROVE  Cardinality({who \in Reviewer : \E k \in 1..Len(votes) :
                         votes[k].run = q /\ votes[k].voter = who /\ votes[k].decision = "approved"})
                        >= set[q].required
    BY DEF TwoApproversAreTwoPeople
  <2>1. \A k \in 1..Len(votes) : votes[k].voter \in Reviewer
    <3>1. votes \in Seq(VoteRow)
      BY DEF IInv, TypeOK
    <3>2. \A k \in 1..Len(votes) : votes[k] \in VoteRow
      BY <3>1
    <3> QED
      BY <3>2 DEF VoteRow
  <2>2. {who \in Reviewer : \E k \in 1..Len(votes) :
             votes[k].run = q /\ votes[k].voter = who /\ votes[k].decision = "approved"}
          = {votes[k].voter : k \in Approvals(q)}
    BY <2>1 DEF Approvals, VotesOn
  <2>3. Approvers(q) >= set[q].required
    BY DEF IInv, Rows, ApprovedByEnough
  <2> QED
    BY <2>2, <2>3 DEF Approvers
<1> QED
  BY <1>1, Invariance, PTL

\* Where staff do not set an approval themselves, an application is approved
\* only after the decision of that level: stage 9 writes the decision row
\* before stage 10 moves the status, and nothing takes the row away.
THEOREM DecisionFirst ==
  ASSUME ByHand \cap Approved = {}
  PROVE  Spec => []ApprovalHasDecision
<1>1. IInv => ApprovalHasDecision
  BY DEF IInv, Rows, ApprovedIsDecided, Decided, ApprovalHasDecision
<1> QED
  BY <1>1, Invariance, PTL

\* Where staff do not send an application to the queue themselves, one that
\* waits for capital is on the list: stages 6 and 9 insert the row before the
\* status moves, and nothing removes it.
THEOREM ListedFirst ==
  ASSUME "capital_queue" \notin ByHand
  PROVE  Spec => []WaitingIsListed
<1>1. IInv => WaitingIsListed
  BY DEF IInv, Rows, WaitsOnList, Listed, WaitingIsListed
<1> QED
  BY <1>1, Invariance, PTL
===============================================================================
