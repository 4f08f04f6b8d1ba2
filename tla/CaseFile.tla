------------------------------- MODULE CaseFile -------------------------------
(***************************************************************************)
(* What the case of a student must show: the status, its history, the runs, *)
(* votes and decisions, the queue and the membership, compared.             *)
(***************************************************************************)
EXTENDS Pipeline, Views

\* A decision generated by a run is the one that status and level show when
\* the run completes ("Stage 10 never actually transitioned the application's
\* status to match" was T-213).
DecisionIsExecuted ==
  [][\A r \in Req :
       run[r].status # "completed" /\ run'[r].status = "completed" /\ run[r].decision # None =>
         LET a == run[r].app IN
           /\ app[a].status = run[r].decision
           /\ run[r].decision \in Approved => app[a].level = run[r].decision]_vars

\* The history of an application is an unbroken trail that ends where the
\* application is ("Every decision is auditable").
HistoryIsTrail ==
  Quiet => \A a \in App : Exists(a) =>
    /\ Last(history[a]).to = app[a].status
    /\ \A k \in 2..Len(history[a]) :
         history[a][k].from \in {history[a][k - 1].to, None}

\* Only an approval on its way through the runs makes an application approved:
\* the decision row of that level is there first, and stays.
ApprovalHasDecision ==
  \A a \in App : app[a].status \in Approved =>
    \E q \in RunsOf(a) : run[q].decision = app[a].status

\* An approval set that needs two approvers is only marked approved on the
\* word of two different people, also when votes race (K-12).
TwoApproversAreTwoPeople ==
  \A q \in Req : set[q] # None =>
    (set[q].status = "approved" =>
       Cardinality({who \in Reviewer : \E k \in 1..Len(votes) :
           votes[k].run = q /\ votes[k].voter = who /\ votes[k].decision = "approved"})
         >= set[q].required)

\* Runs of an application are numbered without gaps or repetitions, however
\* many are started at once.
RunsAreNumbered ==
  \A a \in App : \A n \in NumberIn(a) :
    /\ Cardinality({q \in RunsOf(a) : run[q].number = n}) = 1
    /\ n > 1 => n - 1 \in NumberIn(a)

\* A run that was started ends: no stage, exception or transition that is
\* refused leaves it active for ever.
RunEnds ==
  \A r \in Req : (run[r].status = "active") ~> (run[r].status \in {"completed", "cancelled"})

\* An approval moves a member up or not at all (D-004: "nothing ever moves
\* back down").
MembershipNeverFalls ==
  [][\A s \in Student : member'[s] # "blacklisted" => Rank(member'[s]) >= Rank(member[s])]_vars

\* Confirmed fraud blacklists the member for good (D-004: "terminal").
BlacklistIsPermanent ==
  [][\A s \in Student : member[s] = "blacklisted" => member'[s] = "blacklisted"]_vars

\* A run that needs a human decides nothing before one has spoken ("Pipeline
\* paused - awaiting human decision").
PausesForReview ==
  \A r \in Req : set[r] # None /\ run[r].decision # None => VotesOn(r) # {}

\* An application told to wait for capital is on the list staff work from,
\* whether a cap or a reviewer put it there ("one mechanism, two entry points").
WaitingIsListed ==
  \A a \in App : app[a].status = "capital_queue" => \E e \in queue : e.app = a

\* The bars of staff and of the student when a case moves from was to is.
MoveTogether(was, is, g) ==
  LET admin(s)   == Reached(AdminBar(s, g))
      student(s) == Reached(StudentBar(s, g))
  IN /\ admin(is) = admin(was) => student(is) = student(was)
     /\ admin(is) > admin(was) => student(is) >= student(was)
     /\ admin(is) < admin(was) => student(is) <= student(was)

\* The two views are computed from two sets of status lists that nothing keeps
\* alike: whatever moves a case, the bar of the student never moves while the
\* stage of staff stands still, nor against it ("nothing that can silently
\* disagree"; exceptions apart, which have no stage).
TimelineFollowsCase ==
  [][\A a \in App : Exists(a) /\ app'[a].status # app[a].status
                        /\ {app[a].status, app'[a].status} \cap Exceptional = {} =>
       \A g \in LinkShown : MoveTogether(app[a].status, app'[a].status, g)]_vars

-------------------------------------------------------------------------------
Published == INSTANCE Lifecycle WITH
               Case   <- App,
               Step   <- STATUS_TRANSITIONS,
               Known  <- {Opened[a] : a \in App},
               status <- [a \in App |-> app[a].status]

\* One request at a time, every handler moves an application as published.
FollowsLifecycle == Published!Spec
===============================================================================
