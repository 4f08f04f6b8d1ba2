----------------------------- MODULE RecordsProofs -----------------------------
(***************************************************************************)
(* What holds of the records the desks keep - policies, documents, and      *)
(* contracts with the executions that make them - whatever interleaves.     *)
(***************************************************************************)
EXTENDS ServicesProofs

-------------------------------------------------------------------------------
(***************************************************************************)
(* Policy.                                                                  *)
(***************************************************************************)

LEMMA AtPolicy ==
  ASSUME Tabled, NEW r \in Req, Step(r)
  PROVE  \/ PolicyStep(r) /\ Handles(r, PolicyOps)
         \/ UNCHANGED policies /\ Away(r, PolicyOps)
<1>1. PolicyOps \in Endpoints
  BY DEF Endpoints
<1>2. CASE PolicyStep(r) /\ Handles(r, PolicyOps)
  BY <1>2
<1>3. CASE ~(PolicyStep(r) /\ Handles(r, PolicyOps))
  <2>1. UNCHANGED policies
    BY <1>3 DEF Step, people, files
  <2>2. "propose" \in PolicyOps
        /\ "propose" \notin CoreOps \cup GuarantorOps \cup AccountOps \cup MembershipOps
                           \cup MeetingOps \cup DocumentOps \cup UniversityOps \cup AssessmentOps
    BY DEF CoreOps, GuarantorOps, AccountOps, MembershipOps, MeetingOps,
           PolicyOps, DocumentOps, UniversityOps, AssessmentOps
  <2>3. \E ops \in Endpoints \ {PolicyOps} : Handles(r, ops) /\ Keeps(r, ops)
    BY <1>3, <2>2, CoreKeeps, GuarantorKeeps, AccountKeeps, MembershipKeeps, MeetingKeeps,
       DocumentKeeps, UniversityKeeps, AssessmentKeeps DEF Step, Endpoints
  <2> QED
    BY <2>1, <2>3, <1>1, ElsewhereIsAway
<1> QED
  BY <1>2, <1>3

PolicyDraft == [scope : Scope, number : Nat, begun : BOOLEAN, status : {"draft"}]

PolicyRow ==
  [op : PolicyOps,
   pc : {"proposal", "invalidate", "supersede", "activate", "conflict", "fill", "done",
         "failed", "died"},
   catch : {"failed", "fill"}, back : {"done"}, version : PolicyVersion \cup {None},
   context : Context \cup {None}, draft : PolicyDraft \cup {None}, doubled : SUBSET Scope,
   seen : SUBSET PolicyVersion]

PolicyPlaced(r) ==
  req[r].op \in PolicyOps =>
    /\ req[r] \in PolicyRow
    /\ req[r].pc = "proposal" => req[r].op = "propose" /\ req[r].draft \in PolicyDraft
    /\ req[r].pc \in {"conflict", "fill"} \/ req[r].catch = "fill" =>
         req[r].version \in PolicyVersion /\ req[r].context \in Context
    /\ req[r].pc \in {"supersede", "activate"} =>
         /\ req[r].op = "activate"
         /\ req[r].version \in PolicyVersion /\ policy[req[r].version].status # "absent"

\* A version is named by a handler that is past its insertion.
Proposed(r) == req[r].op = "propose" /\ req[r].pc # "proposal"
PolicyRows == \A r \in Req : policy[r].status # "absent" => Proposed(r)

\* Who has superseded the versions of a scope, and activates one of it next.
Activating(r, s) ==
  /\ req[r].op \in PolicyOps
  /\ req[r].pc = "died" \/ (req[r].pc = "activate" /\ policy[req[r].version].scope = s)

\* What was superseded has been, or is being, replaced, if no approval fails.
Replaced(s) == \/ "activate" \in MayThrow
               \/ \A v \in PolicyVersion : policy[v].scope = s => policy[v].status # "superseded"
               \/ \E v \in PolicyVersion : policy[v].scope = s /\ policy[v].status = "active"
               \/ \E r \in Req : Activating(r, s)

PolicyInv == /\ PolicyTypeOK
             /\ \A r \in Req : PolicyPlaced(r)
             /\ PolicyRows
             /\ \A s \in Scope : Replaced(s)

LEMMA PolicyBegins == Init => PolicyInv
<1> SUFFICES ASSUME Init PROVE PolicyInv
  OBVIOUS
<1>1. \A r \in Req : req[r].op \notin PolicyOps
  BY DEF Init, ServerInit, PolicyOps
<1>2. PICK s \in Varying(PolicyOps, Scope) : policy =
       [v \in PolicyVersion |->
          CASE v = 0 -> [scope |-> "global", number |-> 1, begun |-> TRUE, status |-> "active"]
            [] v = Proposal -> [scope |-> s, number |-> IF s = "global" THEN 2 ELSE 1,
                                begun |-> TRUE, status |-> "draft"]
            [] OTHER -> [scope |-> "global", number |-> 0, begun |-> FALSE, status |-> "absent"]]
  BY DEF Init, PolicyInit
<1>3. s \in Scope
  <2>1. Scope # {}
    BY DEF Scope
  <2> QED
    BY <1>2, <2>1, VaryingIn
<1>4. \A v \in PolicyVersion :
        /\ policy[v] \in [scope : Scope, number : Nat, begun : BOOLEAN, status : PolicyStatus]
        /\ policy[v].status # "superseded"
        /\ v \notin {0, Proposal} => policy[v].status = "absent"
  BY <1>2, <1>3 DEF Scope, PolicyStatus
<1>5. PolicyTypeOK
  BY <1>2, <1>4 DEF PolicyTypeOK, Init, PolicyInit
<1>6. PolicyRows
  BY <1>4, ServerAssumption DEF PolicyRows, PolicyVersion, Proposal, Req
<1> QED
  BY <1>1, <1>4, <1>5, <1>6 DEF PolicyInv, PolicyPlaced, Replaced

LEMMA QuietPolicy ==
  ASSUME Tabled, PolicyInv, NEW r \in Req, \A q \in Req : q # r => req'[q] = req[q],
         UNCHANGED policy, PolicyTypeOK', PolicyPlaced(r)',
         Proposed(r) => Proposed(r)',
         "activate" \in MayThrow \/ \A s \in Scope : Activating(r, s) => Activating(r, s)'
  PROVE  PolicyInv'
<1>1. \A q \in Req : PolicyPlaced(q)'
  BY DEF PolicyInv, PolicyPlaced
<1>2. PolicyRows'
  BY DEF PolicyInv, PolicyRows, Proposed
<1>3. \A s \in Scope : Replaced(s)'
  <2> SUFFICES ASSUME NEW s \in Scope PROVE Replaced(s)'
    OBVIOUS
  <2>1. "activate" \in MayThrow \/ \A q \in Req : Activating(q, s) => Activating(q, s)'
    BY DEF Activating
  <2> QED
    BY <2>1 DEF PolicyInv, Replaced
<1> QED
  BY <1>1, <1>2, <1>3 DEF PolicyInv

LEMMA PolicyAtWork ==
  ASSUME Tabled, PolicyInv, NEW r \in Req, Handles(r, PolicyOps), req[r].pc # "idle"
  PROVE  req[r].op \in PolicyOps /\ req[r] \in PolicyRow /\ PolicyPlaced(r)
BY DEF Tabled, PolicyInv, PolicyPlaced, Handles

LEMMA PolicyGoes ==
  ASSUME Tabled, PolicyInv, NEW r \in Req, Handles(r, PolicyOps), req[r].pc # "idle",
         NEW pc \in {"invalidate", "activate", "fill", "done"}, Goto(r, pc)
  PROVE  /\ req'[r] \in PolicyRow
         /\ req'[r].pc = pc /\ req'[r].op = req[r].op
         /\ req'[r].version = req[r].version /\ req'[r].context = req[r].context
         /\ req'[r].catch = req[r].catch
         /\ \A q \in Req : q # r => req'[q] = req[q]
<1>1. req[r] \in PolicyRow
  BY PolicyAtWork
<1>2. req'[r] = [req[r] EXCEPT !.pc = pc] /\ \A q \in Req : q # r => req'[q] = req[q]
  BY <1>1, GotoKeeps DEF PolicyRow, PolicyOps, Keeps
<1> QED
  BY <1>1, <1>2 DEF PolicyRow

LEMMA NextNumberIsNat ==
  ASSUME PolicyInv, NEW s
  PROVE  Max({policy[v].number : v \in {v \in PolicyVersion : policy[v].scope = s}} \cup {0}) + 1
           \in Nat
<1> DEFINE same == {v \in PolicyVersion : policy[v].scope = s}
           number == [v \in same |-> policy[v].number]
           numbers == {policy[v].number : v \in same} \cup {0}
<1>1. IsFiniteSet(PolicyVersion)
  <2>1. PolicyVersion = (Req \cup {0}) \cup {Proposal}
    BY DEF PolicyVersion
  <2> QED
    BY <2>1, ReqIsFinite, FS_AddElement
<1>2. IsFiniteSet({number[v] : v \in same})
  <2>1. IsFiniteSet(same)
    BY <1>1, FS_Subset
  <2> HIDE DEF same, number
  <2> QED
    BY <2>1, ImageIsFinite
<1>3. numbers = {number[v] : v \in same} \cup {0}
  OBVIOUS
<1>4. IsFiniteSet(numbers)
  <2> HIDE DEF number, same
  <2> QED
    BY <1>2, <1>3, FS_AddElement
<1>5. numbers \subseteq Nat /\ 0 \in numbers
  BY DEF PolicyInv, PolicyTypeOK
<1> HIDE DEF numbers
<1>6. Max(numbers) \in numbers
  <2>1. numbers \subseteq Int /\ numbers # {}
    BY <1>5
  <2> QED
    BY ONLY <1>4, <2>1, MaxIsIn
<1>7. Max(numbers) \in Nat
  BY <1>5, <1>6
<1>8. Max(numbers) + 1 \in Nat
  BY <1>7
<1> QED
  BY <1>8 DEF numbers

LEMMA PolicyQuietStep ==
  ASSUME Tabled, PolicyInv, NEW r \in Req, Handles(r, PolicyOps),
         \/ Propose(r) \/ FindProposal(r) \/ Invalidate(r) \/ CacheHit(r) \/ ReadPolicies(r)
         \/ RecordConflict(r) \/ NoConflict(r) \/ FillCache(r)
  PROVE  PolicyInv'
<1>1. UNCHANGED policy
  BY DEF Propose, FindProposal, Invalidate, CacheHit, ReadPolicies, RecordConflict, NoConflict,
         FillCache, policies
<1>2. ASSUME \A q \in Req : q # r => req'[q] = req[q], PolicyTypeOK', PolicyPlaced(r)',
             req'[r].op \in PolicyOps, req'[r].pc # "proposal" \/ req[r].pc = "idle"
      PROVE  PolicyInv'
  <2>1. req[r].pc \notin {"proposal", "activate", "died"}
    BY DEF Propose, FindProposal, Invalidate, CacheHit, ReadPolicies, RecordConflict, NoConflict,
           FillCache, At, CanStart
  <2>2. Proposed(r) => req[r].pc # "idle" /\ req'[r].op = "propose"
    <3>1. CASE req[r].pc = "idle"
      BY <3>1 DEF PolicyInv, PolicyPlaced, PolicyRow, Proposed, PolicyOps
    <3>2. CASE req[r].pc # "idle" /\ req[r].op = "propose"
      <4>1. Invalidate(r) \/ RecordConflict(r) \/ NoConflict(r) \/ FillCache(r)
        BY <3>2 DEF Propose, FindProposal, CacheHit, ReadPolicies, CanStart
      <4>2. "op" \in DOMAIN req[r] /\ req' = [q \in Req |-> req'[q]]
        BY <4>1 DEF Tabled, Invalidate, RecordConflict, NoConflict, FillCache, Goto
      <4> QED
        BY <3>2, <4>1, <4>2 DEF Invalidate, RecordConflict, NoConflict, FillCache, Goto, Tabled
    <3> QED
      BY <3>1, <3>2 DEF Proposed
  <2>3. Proposed(r) => Proposed(r)'
    BY <1>2, <2>2 DEF Proposed
  <2>4. \A s \in Scope : Activating(r, s) => Activating(r, s)'
    BY <2>1 DEF Activating
  <2> QED
    BY <1>1, <1>2, <2>3, <2>4, QuietPolicy
<1> USE DEF At, CanStart
<1>3. CASE Propose(r)
  <2>1. PICK s \in Scope, begun \in BOOLEAN :
          LET same == {v \in PolicyVersion : policy[v].scope = s} IN
          Begin(r, [PolicyCall("propose", "proposal", r, None) EXCEPT !.draft =
            [scope |-> s, number |-> Max({policy[v].number : v \in same} \cup {0}) + 1,
             begun |-> begun, status |-> "draft"]])
    BY <1>3 DEF Propose
  <2> DEFINE n == Max({policy[v].number : v \in {v \in PolicyVersion : policy[v].scope = s}}
                      \cup {0}) + 1
  <2>2. n \in Nat
    BY NextNumberIsNat
  <2>3. Begin(r, [PolicyCall("propose", "proposal", r, None) EXCEPT !.draft =
                    [scope |-> s, number |-> n, begun |-> begun, status |-> "draft"]])
    BY <2>1
  <2> HIDE DEF n
  <2>4. /\ req'[r] = [PolicyCall("propose", "proposal", r, None) EXCEPT !.draft =
                        [scope |-> s, number |-> n, begun |-> begun, status |-> "draft"]]
        /\ \A q \in Req : q # r => req'[q] = req[q]
    BY <2>3 DEF Begin, Tabled
  <2>5. PolicyPlaced(r)' /\ req'[r].op \in PolicyOps
    BY <2>2, <2>4 DEF PolicyPlaced, PolicyRow, PolicyCall, PolicyOps, PolicyDraft, PolicyVersion
  <2>6. PolicyTypeOK' /\ req[r].pc = "idle"
    BY <1>3 DEF Propose, policies, PolicyInv, PolicyTypeOK
  <2> QED
    BY <1>2, <2>4, <2>5, <2>6
<1>4. CASE FindProposal(r)
  <2>1. PICK v \in PolicyVersion : /\ policy[v].status = "draft"
                                   /\ Begin(r, PolicyCall("activate", "supersede", v, None))
    BY <1>4 DEF FindProposal
  <2>2. /\ req'[r] = PolicyCall("activate", "supersede", v, None)
        /\ \A q \in Req : q # r => req'[q] = req[q]
    BY <2>1 DEF Begin, Tabled
  <2>3. PolicyPlaced(r)' /\ req'[r].op \in PolicyOps
    BY <1>1, <2>1, <2>2 DEF PolicyPlaced, PolicyRow, PolicyCall, PolicyOps
  <2>4. PolicyTypeOK' /\ req[r].pc = "idle"
    BY <1>4 DEF FindProposal, policies, PolicyInv, PolicyTypeOK
  <2> QED
    BY <1>2, <2>2, <2>3, <2>4
<1>5. CASE CacheHit(r)
  <2>1. PICK ctx \in Context : /\ cache[ctx] # None
                               /\ Begin(r, PolicyCall("resolve", "done", cache[ctx], ctx))
    BY <1>5 DEF CacheHit
  <2>2. /\ req'[r] = PolicyCall("resolve", "done", cache[ctx], ctx)
        /\ \A q \in Req : q # r => req'[q] = req[q]
    BY <2>1 DEF Begin, Tabled
  <2>3. PolicyPlaced(r)' /\ req'[r].op \in PolicyOps
    BY <2>2 DEF PolicyPlaced, PolicyRow, PolicyCall, PolicyOps, PolicyInv, PolicyTypeOK
  <2>4. PolicyTypeOK' /\ req[r].pc = "idle"
    BY <1>5 DEF CacheHit, policies, PolicyInv, PolicyTypeOK
  <2> QED
    BY <1>2, <2>2, <2>3, <2>4
<1>6. CASE ReadPolicies(r)
  <2>1. PICK ctx \in Context, v \in PolicyVersion, seen \in SUBSET PolicyVersion,
             doubled \in SUBSET Scope :
          \/ Begin(r, PolicyCall("resolve", "done", None, ctx))
          \/ Begin(r, [PolicyCall("resolve", "conflict", v, ctx) EXCEPT
                         !.seen = seen, !.doubled = doubled, !.catch = "fill"])
    <3>1. PICK ctx \in Context :
            IF InForce(ctx) = {} THEN Begin(r, PolicyCall("resolve", "done", None, ctx))
            ELSE \E v \in Foremost(InForce(ctx)) :
              Begin(r, [PolicyCall("resolve", "conflict", v, ctx) EXCEPT
                          !.seen = InForce(ctx), !.doubled = Doubled(InForce(ctx)),
                          !.catch = "fill"])
      BY <1>6 DEF ReadPolicies
    <3>2. /\ InForce(ctx) \in SUBSET PolicyVersion
          /\ Doubled(InForce(ctx)) \in SUBSET Scope
          /\ Foremost(InForce(ctx)) \subseteq PolicyVersion
          /\ 0 \in PolicyVersion
      BY DEF InForce, Doubled, Foremost, PolicyVersion
    <3>3. CASE InForce(ctx) = {}
      BY <3>1, <3>2, <3>3
    <3>4. CASE InForce(ctx) # {}
      <4>1. PICK v \in Foremost(InForce(ctx)) :
              Begin(r, [PolicyCall("resolve", "conflict", v, ctx) EXCEPT
                          !.seen = InForce(ctx), !.doubled = Doubled(InForce(ctx)),
                          !.catch = "fill"])
        BY <3>1, <3>4
      <4> QED
        BY <3>2, <4>1
    <3> QED
      BY <3>3, <3>4
  <2> DEFINE h == [PolicyCall("resolve", "conflict", v, ctx) EXCEPT
                     !.seen = seen, !.doubled = doubled, !.catch = "fill"]
             g == PolicyCall("resolve", "done", None, ctx)
  <2>2. h \in PolicyRow /\ h.pc = "conflict" /\ h.version = v /\ h.context = ctx
    BY DEF PolicyCall, PolicyRow, PolicyOps
  <2>3. g \in PolicyRow /\ g.pc = "done" /\ g.catch = "failed"
    BY DEF PolicyCall, PolicyRow, PolicyOps
  <2>4. req'[r] \in {h, g} /\ \A q \in Req : q # r => req'[q] = req[q]
    <3>1. Begin(r, h) \/ Begin(r, g)
      BY <2>1
    <3> HIDE DEF h, g
    <3> QED
      BY <3>1 DEF Begin, Tabled
  <2> HIDE DEF h, g
  <2>5. PolicyPlaced(r)'
    BY <2>2, <2>3, <2>4 DEF PolicyPlaced
  <2>6. PolicyTypeOK' /\ req[r].pc = "idle" /\ req'[r].op \in PolicyOps
    BY <1>6, <2>2, <2>3, <2>4 DEF ReadPolicies, policies, PolicyInv, PolicyTypeOK, PolicyRow
  <2> QED
    BY <1>2, <2>4, <2>5, <2>6
<1>7. CASE Invalidate(r)
  <2>1. /\ req'[r] \in PolicyRow /\ req'[r].pc = "done"
        /\ req'[r].version = req[r].version /\ req'[r].context = req[r].context
        /\ req'[r].catch = req[r].catch
        /\ \A q \in Req : q # r => req'[q] = req[q]
    BY <1>7, PolicyGoes DEF Invalidate
  <2>2. PolicyTypeOK'
    BY <1>7 DEF Invalidate, PolicyInv, PolicyTypeOK
  <2>3. PolicyPlaced(r)' /\ req'[r].op \in PolicyOps
    BY <1>7, <2>1, PolicyAtWork DEF Invalidate, PolicyPlaced, PolicyRow
  <2> QED
    BY <1>2, <2>1, <2>2, <2>3
<1>8. CASE NoConflict(r)
  <2>1. /\ req'[r] \in PolicyRow /\ req'[r].pc = "fill"
        /\ req'[r].version = req[r].version /\ req'[r].context = req[r].context
        /\ \A q \in Req : q # r => req'[q] = req[q]
    BY <1>8, PolicyGoes DEF NoConflict
  <2>2. PolicyTypeOK'
    BY <1>8 DEF NoConflict, policies, PolicyInv, PolicyTypeOK
  <2>3. PolicyPlaced(r)' /\ req'[r].op \in PolicyOps
    BY <1>8, <2>1, PolicyAtWork DEF NoConflict, PolicyPlaced, PolicyRow
  <2> QED
    BY <1>2, <2>1, <2>2, <2>3
<1>9. CASE FillCache(r)
  <2>1. /\ req'[r] \in PolicyRow /\ req'[r].pc = "done"
        /\ req'[r].version = req[r].version /\ req'[r].context = req[r].context
        /\ req'[r].catch = req[r].catch
        /\ \A q \in Req : q # r => req'[q] = req[q]
    BY <1>9, PolicyGoes DEF FillCache
  <2>2. PolicyTypeOK'
    BY <1>9, PolicyAtWork DEF FillCache, PolicyPlaced, PolicyInv, PolicyTypeOK
  <2>3. PolicyPlaced(r)' /\ req'[r].op \in PolicyOps
    BY <1>9, <2>1, PolicyAtWork DEF FillCache, PolicyPlaced, PolicyRow
  <2> QED
    BY <1>2, <2>1, <2>2, <2>3
<1>10. CASE RecordConflict(r)
  <2>1. PICK s : req' = [req EXCEPT ![r].doubled = @ \ {s}]
    BY <1>10 DEF RecordConflict
  <2>2. req[r] \in PolicyRow /\ PolicyPlaced(r) /\ req[r].pc = "conflict"
    BY <1>10, PolicyAtWork DEF RecordConflict
  <2>3. /\ req'[r] = [req[r] EXCEPT !.doubled = @ \ {s}]
        /\ \A q \in Req : q # r => req'[q] = req[q]
    BY <2>1 DEF Tabled
  <2>4. /\ req'[r] \in PolicyRow /\ req'[r].pc = "conflict"
        /\ req'[r].version = req[r].version /\ req'[r].context = req[r].context
    BY <2>2, <2>3 DEF PolicyRow
  <2>5. PolicyPlaced(r)' /\ req'[r].op \in PolicyOps
    BY <2>2, <2>4 DEF PolicyPlaced, PolicyRow
  <2>6. PolicyTypeOK'
    <3>1. req[r].seen \subseteq PolicyVersion
      BY <2>2 DEF PolicyRow
    <3>2. PICK a, b \in req[r].seen : conflict' = conflict \cup {<<a, b>>}
      BY <1>10 DEF RecordConflict
    <3> QED
      BY <1>10, <3>1, <3>2 DEF RecordConflict, PolicyInv, PolicyTypeOK
  <2> QED
    BY <1>2, <2>3, <2>4, <2>5, <2>6
<1> QED
  BY <1>3, <1>4, <1>5, <1>6, <1>7, <1>8, <1>9, <1>10

LEMMA InsertProposalKeeps ==
  ASSUME Tabled, PolicyInv, NEW r \in Req, Handles(r, PolicyOps), InsertProposal(r)
  PROVE  PolicyInv'
<1>1. /\ req[r] \in PolicyRow /\ req[r].pc = "proposal" /\ req[r].op = "propose"
      /\ req[r].draft \in PolicyDraft
  BY PolicyAtWork DEF InsertProposal, At, PolicyPlaced
<1>2. /\ req'[r] \in PolicyRow /\ req'[r].pc = "invalidate" /\ req'[r].op = "propose"
      /\ req'[r].version = req[r].version /\ req'[r].context = req[r].context
      /\ req'[r].catch = req[r].catch
      /\ \A q \in Req : q # r => req'[q] = req[q]
  BY <1>1, PolicyGoes DEF InsertProposal, At
<1>3. policy' = [policy EXCEPT ![r] = req[r].draft] /\ UNCHANGED <<conflict, cache>>
  BY DEF InsertProposal
<1>4. policy[r].status = "absent" /\ r \in PolicyVersion
  BY <1>1 DEF PolicyInv, PolicyRows, Proposed, PolicyVersion
<1>5. /\ policy'[r] = req[r].draft /\ policy'[r].status = "draft"
      /\ \A v \in PolicyVersion : v # r => policy'[v] = policy[v]
  BY <1>1, <1>3, <1>4 DEF PolicyInv, PolicyTypeOK, PolicyDraft
<1>6. PolicyTypeOK'
  <2>1. req[r].draft \in [scope : Scope, number : Nat, begun : BOOLEAN, status : PolicyStatus]
    BY <1>1 DEF PolicyDraft, PolicyStatus
  <2> QED
    BY <1>3, <2>1 DEF PolicyInv, PolicyTypeOK
<1>7. \A q \in Req : PolicyPlaced(q)'
  <2>1. PolicyPlaced(r)'
    BY <1>1, <1>2, PolicyAtWork DEF PolicyPlaced
  <2>2. ASSUME NEW q \in Req, q # r
        PROVE  PolicyPlaced(q)'
    <3>1. PolicyPlaced(q) /\ req'[q] = req[q]
      BY <1>2, <2>2 DEF PolicyInv
    <3> QED
      BY <1>4, <1>5, <3>1 DEF PolicyPlaced
  <2> QED
    BY <2>1, <2>2
<1>8. PolicyRows'
  BY <1>2, <1>5 DEF PolicyInv, PolicyRows, Proposed, PolicyVersion
<1>9. \A s \in Scope : Replaced(s)'
  <2> SUFFICES ASSUME NEW s \in Scope PROVE Replaced(s)'
    OBVIOUS
  <2>1. CASE \A v \in PolicyVersion : policy[v].scope = s => policy[v].status # "superseded"
    BY <1>5, <2>1 DEF Replaced
  <2>2. CASE \E v \in PolicyVersion : policy[v].scope = s /\ policy[v].status = "active"
    BY <1>4, <1>5, <2>2 DEF Replaced
  <2>3. ASSUME NEW q \in Req, Activating(q, s)
        PROVE  Replaced(s)'
    <3>1. q # r
      BY <1>1, <2>3 DEF Activating
    <3>2. req[q].pc = "activate" => req[q].version \in PolicyVersion \ {r}
      BY <1>4, <2>3 DEF Activating, PolicyInv, PolicyPlaced
    <3>3. Activating(q, s)'
      BY <1>2, <1>5, <2>3, <3>1, <3>2 DEF Activating
    <3> QED
      BY <3>3 DEF Replaced
  <2> QED
    BY <2>1, <2>2, <2>3 DEF PolicyInv, Replaced
<1> QED
  BY <1>6, <1>7, <1>8, <1>9 DEF PolicyInv

\* Both statements of an approval leave every scope, and every version that is there, as it is.
LEMMA ApproveMoves ==
  ASSUME Tabled, PolicyInv, NEW r \in Req, Handles(r, PolicyOps), req[r].pc # "idle",
         NEW pc \in {"activate", "invalidate"}, Goto(r, pc), UNCHANGED <<conflict, cache>>,
         req[r].pc \in {"supersede", "activate"}, PolicyTypeOK',
         \A v \in PolicyVersion : /\ policy'[v].scope = policy[v].scope
                                  /\ policy'[v].status = "absent" <=> policy[v].status = "absent",
         \A s \in Scope : Replaced(s)'
  PROVE  PolicyInv'
<1>1. /\ req'[r] \in PolicyRow /\ req'[r].pc = pc /\ req'[r].op = req[r].op
      /\ req'[r].version = req[r].version /\ req'[r].context = req[r].context
      /\ req'[r].catch = req[r].catch
      /\ \A q \in Req : q # r => req'[q] = req[q]
  BY PolicyGoes
<1>2. PolicyPlaced(r) /\ req[r].op \in PolicyOps
  BY PolicyAtWork
<1>3. \A q \in Req : PolicyPlaced(q)'
  <2>1. PolicyPlaced(r)'
    BY <1>1, <1>2 DEF PolicyPlaced
  <2>2. ASSUME NEW q \in Req, q # r
        PROVE  PolicyPlaced(q)'
    <3>1. PolicyPlaced(q) /\ req'[q] = req[q]
      BY <1>1, <2>2 DEF PolicyInv
    <3> QED
      BY <3>1 DEF PolicyPlaced
  <2> QED
    BY <2>1, <2>2
<1>4. PolicyRows'
  BY <1>1 DEF PolicyInv, PolicyRows, Proposed, PolicyVersion
<1> QED
  BY <1>3, <1>4 DEF PolicyInv

LEMMA ApproveKeeps ==
  ASSUME Tabled, PolicyInv, NEW r \in Req, Handles(r, PolicyOps), Approve(r)
  PROVE  PolicyInv'
<1> DEFINE w == req[r].version
<1>1. /\ req[r] \in PolicyRow /\ req[r].pc \in {"supersede", "activate"}
      /\ w \in PolicyVersion /\ policy[w].status # "absent" /\ req[r].op \in PolicyOps
  BY PolicyAtWork DEF Approve, At, PolicyPlaced
<1>2. UNCHANGED <<conflict, cache>>
  BY DEF Approve
<1>3. ASSUME req[r].pc = "supersede", policy' = Superseded(w), Goto(r, "activate")
      PROVE  PolicyInv'
  <2>1. /\ req'[r].pc = "activate" /\ req'[r].version = w /\ req'[r].op = req[r].op
        /\ \A q \in Req : q # r => req'[q] = req[q]
    BY <1>3, PolicyGoes
  <2> HIDE DEF w
  <2>2. \A v \in PolicyVersion :
          policy'[v] = IF v # w /\ policy[v].scope = policy[w].scope /\ policy[v].status = "active"
                       THEN [policy[v] EXCEPT !.status = "superseded"] ELSE policy[v]
    BY <1>3 DEF Superseded, ActiveIn
  <2>3. /\ PolicyTypeOK'
        /\ \A v \in PolicyVersion :
             /\ policy'[v].scope = policy[v].scope
             /\ policy'[v].status = "absent" <=> policy[v].status = "absent"
             /\ policy[v].scope # policy[w].scope => policy'[v] = policy[v]
    <3>1. \A v \in PolicyVersion :
            /\ policy'[v] \in [scope : Scope, number : Nat, begun : BOOLEAN,
                               status : PolicyStatus]
            /\ policy'[v].scope = policy[v].scope
            /\ policy'[v].status = "absent" <=> policy[v].status = "absent"
            /\ policy[v].scope # policy[w].scope => policy'[v] = policy[v]
      <4> TAKE v \in PolicyVersion
      <4>1. policy[v] \in [scope : Scope, number : Nat, begun : BOOLEAN, status : PolicyStatus]
        BY DEF PolicyInv, PolicyTypeOK
      <4> QED
        BY <2>2, <4>1 DEF PolicyStatus
    <3>2. policy' = [v \in PolicyVersion |-> policy'[v]]
      BY <1>3 DEF Superseded
    <3> QED
      BY <1>2, <3>1, <3>2 DEF PolicyInv, PolicyTypeOK
  <2>4. \A s \in Scope : Replaced(s)'
    <3> SUFFICES ASSUME NEW s \in Scope PROVE Replaced(s)'
      OBVIOUS
    <3>1. CASE policy[w].scope = s
      <4>1. Activating(r, s)'
        BY <1>1, <2>1, <2>3, <3>1 DEF Activating
      <4> QED
        BY <4>1 DEF Replaced
    <3>2. CASE policy[w].scope # s
      <4>1. \A q \in Req : Activating(q, s) => Activating(q, s)'
        <5> SUFFICES ASSUME NEW q \in Req, Activating(q, s) PROVE Activating(q, s)'
          OBVIOUS
        <5>1. q # r
          BY <1>3 DEF Activating
        <5>2. req[q].pc = "activate" => req[q].version \in PolicyVersion
          BY DEF Activating, PolicyInv, PolicyPlaced
        <5> QED
          BY <2>1, <2>3, <5>1, <5>2 DEF Activating
      <4>2. \A v \in PolicyVersion : policy[v].scope = s => policy'[v] = policy[v]
        BY <2>3, <3>2
      <4> QED
        BY <2>3, <4>1, <4>2 DEF PolicyInv, Replaced
    <3> QED
      BY <3>1, <3>2
  <2> QED
    BY <1>1, <1>2, <1>3, <2>3, <2>4, ApproveMoves
<1>4. ASSUME req[r].pc = "activate", policy' = Activated(w), Goto(r, "invalidate")
      PROVE  PolicyInv'
  <2>1. \A q \in Req : q # r => req'[q] = req[q]
    BY <1>4, PolicyGoes
  <2> HIDE DEF w
  <2>2. /\ \A v \in PolicyVersion : v # w => policy'[v] = policy[v]
        /\ policy'[w] = [policy[w] EXCEPT !.status = "active"]
        /\ policy'[w].scope = policy[w].scope /\ policy'[w].status = "active"
    BY <1>1, <1>4 DEF Activated, PolicyInv, PolicyTypeOK
  <2>3. PolicyTypeOK'
    <3>1. policy[w] \in [scope : Scope, number : Nat, begun : BOOLEAN, status : PolicyStatus]
      BY <1>1 DEF PolicyInv, PolicyTypeOK
    <3>2. policy'[w] \in [scope : Scope, number : Nat, begun : BOOLEAN, status : PolicyStatus]
      BY <2>2, <3>1 DEF PolicyStatus
    <3>3. policy' = [policy EXCEPT ![w] = policy'[w]]
      BY <1>1, <1>4, <2>2 DEF Activated, PolicyInv, PolicyTypeOK
    <3> QED
      BY <1>1, <1>2, <3>2, <3>3 DEF PolicyInv, PolicyTypeOK
  <2>4. \A s \in Scope : Replaced(s)'
    <3> SUFFICES ASSUME NEW s \in Scope PROVE Replaced(s)'
      OBVIOUS
    <3>1. CASE policy[w].scope = s
      BY <1>1, <2>2, <3>1 DEF Replaced
    <3>2. CASE policy[w].scope # s
      <4>1. \A q \in Req : Activating(q, s) => Activating(q, s)'
        <5> SUFFICES ASSUME NEW q \in Req, Activating(q, s) PROVE Activating(q, s)'
          OBVIOUS
        <5>1. q # r
          BY <1>4, <3>2 DEF Activating, w
        <5>2. req[q].pc = "activate" => req[q].version \in PolicyVersion
          BY DEF Activating, PolicyInv, PolicyPlaced
        <5> QED
          BY <2>1, <2>2, <5>1, <5>2 DEF Activating
      <4> QED
        BY <2>2, <3>2, <4>1 DEF PolicyInv, Replaced
    <3> QED
      BY <3>1, <3>2
  <2> QED
    BY <1>1, <1>2, <1>4, <2>2, <2>3, <2>4, ApproveMoves
<1> QED
  BY <1>3, <1>4 DEF Approve, At

LEMMA AlwaysPolicy == Spec => []PolicyInv
<1>1. Tabled /\ Tabled' /\ PolicyInv /\ [Next]_vars => PolicyInv'
  <2> SUFFICES ASSUME Tabled, Tabled', PolicyInv, [Next]_vars PROVE PolicyInv'
    OBVIOUS
  <2>1. CASE UNCHANGED vars
    BY <2>1 DEF vars, server, files, policies, PolicyInv, PolicyTypeOK, PolicyPlaced, PolicyRows,
                Proposed, Replaced, Activating
  <2>2. ASSUME NEW r \in Req, PolicyStep(r), Handles(r, PolicyOps)
        PROVE  PolicyInv'
    BY <2>2, PolicyQuietStep, InsertProposalKeeps, ApproveKeeps DEF PolicyStep
  <2>3. ASSUME NEW r \in Req, UNCHANGED policies, Away(r, PolicyOps)
        PROVE  PolicyInv'
    <3>1. PolicyTypeOK' /\ PolicyPlaced(r)'
      BY <2>3 DEF Away, policies, PolicyInv, PolicyTypeOK, PolicyPlaced
    <3>2. ~Proposed(r) /\ \A s \in Scope : ~Activating(r, s)
      BY <2>3 DEF Away, Proposed, Activating, PolicyOps
    <3> QED
      BY <2>3, <3>1, <3>2, QuietPolicy DEF Away, policies
  <2>4. ASSUME NEW r \in Req, Break(r)
        PROVE  PolicyInv'
    <3>1. /\ UNCHANGED policies /\ r \in InFlight
          /\ \A q \in Req : q # r => req'[q] = req[q]
          /\ req'[r].op = req[r].op
          /\ \/ /\ req[r].op \in MayThrow
                /\ req'[r] = [req[r] EXCEPT !.pc = req[r].catch, !.catch = "failed"]
             \/ req'[r] = [req[r] EXCEPT !.pc = "died"]
      BY <2>4, BreakKeeps DEF Break, files, Keeps
    <3>2. PolicyTypeOK'
      BY <3>1 DEF policies, PolicyInv, PolicyTypeOK
    <3>3. CASE req[r].op \notin PolicyOps
      BY <3>1, <3>2, <3>3, QuietPolicy DEF policies, PolicyPlaced, Proposed, Activating, PolicyOps
    <3>4. CASE req[r].op \in PolicyOps
      <4>1. req[r] \in PolicyRow /\ PolicyPlaced(r)
        BY <3>4 DEF PolicyInv, PolicyPlaced
      <4>2. req'[r] \in PolicyRow /\ req'[r].pc \in {"failed", "fill", "died"}
            /\ req'[r].version = req[r].version /\ req'[r].context = req[r].context
        BY <3>1, <4>1 DEF PolicyRow
      <4>3. PolicyPlaced(r)'
        BY <3>1, <4>1, <4>2 DEF PolicyPlaced, PolicyRow
      <4>4. Proposed(r) => Proposed(r)'
        BY <3>1, <4>2 DEF Proposed
      <4>5. "activate" \in MayThrow \/ \A s \in Scope : Activating(r, s) => Activating(r, s)'
        <5>1. req[r].pc # "died"
          BY <3>1 DEF InFlight, Ended
        <5>2. req[r].pc = "activate" => req'[r].pc = "died" \/ "activate" \in MayThrow
          BY <3>1, <3>4, <4>1 DEF PolicyPlaced, PolicyRow
        <5> QED
          BY <3>1, <3>4, <5>1, <5>2 DEF Activating
      <4> QED
        BY <3>1, <3>2, <4>3, <4>4, <4>5, QuietPolicy DEF policies
    <3> QED
      BY <3>3, <3>4
  <2> QED
    BY <2>1, <2>2, <2>3, <2>4, AtPolicy DEF Next
<1> QED
  BY <1>1, PolicyBegins, AlwaysTabled, PTL DEF Spec

\* However approvals interleave, each superseding what the other activated, a
\* scope that had a version in force has one when all have been served
\* (approveVersion).  The two statements of an approval are in no transaction:
\* that the second does not fail is assumed.
THEOREM ScopeKeeps ==
  ASSUME "activate" \notin MayThrow
  PROVE  Spec => []ScopeKeepsPolicy
<1>1. PolicyInv => ScopeKeepsPolicy
  BY DEF PolicyInv, ScopeKeepsPolicy, Replaced, Activating, AllServed, ActiveIn
<1> QED
  BY <1>1, AlwaysPolicy, PTL

-------------------------------------------------------------------------------
(***************************************************************************)
(* Documents.                                                               *)
(***************************************************************************)

LEMMA AtDocuments ==
  ASSUME Tabled, NEW r \in Req, Step(r)
  PROVE  \/ DocumentsStep(r) /\ Handles(r, DocumentOps)
         \/ UNCHANGED papers /\ Away(r, DocumentOps)
<1>1. DocumentOps \in Endpoints
  BY DEF Endpoints
<1>2. CASE DocumentsStep(r) /\ Handles(r, DocumentOps)
  BY <1>2
<1>3. CASE ~(DocumentsStep(r) /\ Handles(r, DocumentOps))
  <2>1. UNCHANGED papers
    BY <1>3 DEF Step, people, files
  <2>2. "upload" \in DocumentOps
        /\ "upload" \notin CoreOps \cup GuarantorOps \cup AccountOps \cup MembershipOps
                           \cup MeetingOps \cup PolicyOps \cup UniversityOps \cup AssessmentOps
    BY DEF CoreOps, GuarantorOps, AccountOps, MembershipOps, MeetingOps,
           PolicyOps, DocumentOps, UniversityOps, AssessmentOps
  <2>3. \E ops \in Endpoints \ {DocumentOps} : Handles(r, ops) /\ Keeps(r, ops)
    BY <1>3, <2>2, CoreKeeps, GuarantorKeeps, AccountKeeps, MembershipKeeps, MeetingKeeps,
       PolicyKeeps, UniversityKeeps, AssessmentKeeps DEF Step, Endpoints
  <2> QED
    BY <2>1, <2>3, <1>1, ElsewhereIsAway
<1> QED
  BY <1>2, <1>3

File == [type : DocType \cup {None}, own : BOOLEAN, status : DocStatus, passed : BOOLEAN]

PaperRow ==
  [op : DocumentOps,
   pc : {"announce", "uploaded", "list", "mark", "entry", "log", "done", "failed", "died"},
   catch : {"failed"}, back : {"done"}, document : Document, row : File,
   verdict : {"verified", "rejected", None}]

Passed(t) == \E p \in Document : document[p].type = t /\ document[p].passed

PaperPlaced(r) ==
  req[r].op \in DocumentOps =>
    /\ req[r] \in PaperRow
    /\ req[r].pc = "announce" =>
         /\ req[r].op = "upload" /\ req[r].row.type \in DocType
         /\ req[r].row.status = "uploading" /\ ~req[r].row.passed
    /\ req[r].pc \in {"uploaded", "list", "mark", "entry", "log"} =>
         document[req[r].document].status # "absent"
    /\ req[r].pc \in {"uploaded", "list", "mark", "entry"} =>
         /\ req[r].row.type = document[req[r].document].type
         /\ req[r].row.own = document[req[r].document].own
    /\ req[r].pc \in {"uploaded", "list"} => req[r].op = "confirm"
    /\ req[r].pc \in {"mark", "entry"} => req[r].verdict \in {"verified", "rejected"}
    /\ req[r].pc \in {"list", "entry"} => ~req[r].row.own
    /\ req[r].pc = "entry" /\ req[r].verdict = "verified" => Passed(req[r].row.type)

\* A document is named by a handler that is past its insertion.
Inserted(r) == req[r].op = "upload" /\ req[r].pc # "announce"
FileRows == /\ \A r \in Req : document[r].status # "absent" => Inserted(r)
            /\ \A d \in Document :
                 IF document[d].status = "absent" THEN ~document[d].passed
                 ELSE document[d].type \in DocType

Confirmed(r, d) == req[r].op = "confirm" /\ req[r].pc = "done" /\ req[r].document = d

\* What an entry of the checklist rests on.
Backed(t) ==
  LET d == checklist[t].document IN
    /\ d = None <=> checklist[t].status = "absent"
    /\ d # None => /\ document[d].status # "absent"
                   /\ document[d].type = t /\ ~document[d].own
                   /\ \E q \in Req : Confirmed(q, d)
    /\ checklist[t].status = "verified" => Passed(t)

PaperInv == /\ DocumentsTypeOK
            /\ \A r \in Req : PaperPlaced(r)
            /\ FileRows
            /\ \A t \in DocType : Backed(t)

LEMMA PaperBegins == Init => PaperInv
<1> SUFFICES ASSUME Init PROVE PaperInv
  OBVIOUS
<1>1. \A r \in Req : req[r].op \notin DocumentOps
  BY DEF Init, ServerInit, DocumentOps
<1>2. PICK t \in Varying(DocumentOps, [{0, Requests + 1} -> DocType]) :
       document = [d \in Document |->
         IF d \in Req THEN NoDocument ELSE Announced(t[d], FALSE)]
  BY DEF Init, DocumentsInit
<1>3. t \in [{0, Requests + 1} -> DocType]
  <2>1. PICK x : x \in DocType
    BY DocumentsAssumption
  <2>2. [d \in {0, Requests + 1} |-> x] \in [{0, Requests + 1} -> DocType]
    BY <2>1
  <2> QED
    BY <1>2, <2>2, VaryingIn
<1>4. \A d \in Document : d \notin Req => d \in {0, Requests + 1}
  BY ServerAssumption DEF Document, Req
<1>5. \A d \in Document :
        /\ document[d] \in File
        /\ d \in Req => document[d].status = "absent"
        /\ ~document[d].passed
        /\ document[d].status # "absent" => document[d].type \in DocType
  BY <1>2, <1>3, <1>4 DEF File, NoDocument, Announced, DocStatus
<1>6. /\ checklist = [x \in DocType |-> [document |-> None, status |-> "absent"]]
      /\ viewed = {}
  BY DEF Init, DocumentsInit
<1>7. DocumentsTypeOK
  BY <1>2, <1>5, <1>6 DEF DocumentsTypeOK, File, DocStatus
<1>8. FileRows
  <2>1. Req \subseteq Document
    BY ServerAssumption DEF Document, Req
  <2> QED
    BY <1>5, <2>1 DEF FileRows
<1>9. \A x \in DocType : Backed(x)
  BY <1>6 DEF Backed
<1> QED
  BY <1>1, <1>7, <1>8, <1>9 DEF PaperInv, PaperPlaced

\* No document that is on file goes away or changes hands.
FilesStay == \A d \in Document :
               /\ document[d].status # "absent" =>
                    /\ document'[d].status # "absent"
                    /\ document'[d].type = document[d].type
                    /\ document'[d].own = document[d].own
               /\ document[d].passed => document'[d].passed

LEMMA PassedStays ==
  ASSUME PaperInv, FilesStay, NEW t, Passed(t)
  PROVE  Passed(t)'
BY DEF PaperInv, FileRows, FilesStay, Passed

LEMMA PapersStay ==
  ASSUME PaperInv, FilesStay, NEW r \in Req, \A q \in Req : q # r => req'[q] = req[q],
         DocumentsTypeOK', PaperPlaced(r)', FileRows'
  PROVE  /\ \A q \in Req : PaperPlaced(q)'
         /\ (\A t \in DocType : Backed(t)') => PaperInv'
<1> SUFFICES ASSUME NEW q \in Req, q # r PROVE PaperPlaced(q)'
  BY DEF PaperInv
<1>1. PaperPlaced(q) /\ req'[q] = req[q]
  BY DEF PaperInv
<1>2. req[q].op \in DocumentOps => req[q].document \in Document
  BY <1>1 DEF PaperPlaced, PaperRow
<1> QED
  BY <1>1, <1>2, PassedStays DEF PaperPlaced, FilesStay

LEMMA BackingStays ==
  ASSUME PaperInv, FilesStay, NEW r \in Req, \A q \in Req : q # r => req'[q] = req[q],
         req[r].pc # "done" \/ req[r].op # "confirm",
         NEW t \in DocType, checklist'[t] = checklist[t]
  PROVE  Backed(t)'
<1>1. checklist[t].document \in Document \cup {None}
  BY DEF PaperInv, DocumentsTypeOK
<1>2. \A d, q \in Req : Confirmed(q, d) => Confirmed(q, d)'
  BY DEF Confirmed
<1> QED
  BY <1>1, PassedStays DEF PaperInv, Backed, FilesStay, Confirmed

LEMMA QuietPapers ==
  ASSUME PaperInv, NEW r \in Req, \A q \in Req : q # r => req'[q] = req[q],
         UNCHANGED <<document, checklist>>, DocumentsTypeOK', PaperPlaced(r)',
         Inserted(r) => Inserted(r)',
         req[r].pc # "done" \/ req[r].op # "confirm"
  PROVE  PaperInv'
<1>1. FilesStay
  BY DEF FilesStay
<1>2. FileRows'
  BY DEF PaperInv, FileRows, Inserted
<1> QED
  BY <1>1, <1>2, PapersStay, BackingStays

LEMMA PaperAtWork ==
  ASSUME Tabled, PaperInv, NEW r \in Req, Handles(r, DocumentOps), req[r].pc # "idle"
  PROVE  req[r].op \in DocumentOps /\ req[r] \in PaperRow /\ PaperPlaced(r)
BY DEF Tabled, PaperInv, PaperPlaced, Handles

LEMMA PaperGoes ==
  ASSUME Tabled, PaperInv, NEW r \in Req, Handles(r, DocumentOps), req[r].pc # "idle",
         NEW pc \in {"list", "entry", "done"}, Goto(r, pc)
  PROVE  /\ req'[r] \in PaperRow
         /\ req'[r].pc = pc /\ req'[r].op = req[r].op
         /\ req'[r].document = req[r].document /\ req'[r].row = req[r].row
         /\ req'[r].verdict = req[r].verdict
         /\ \A q \in Req : q # r => req'[q] = req[q]
<1>1. req[r] \in PaperRow
  BY PaperAtWork
<1>2. req'[r] = [req[r] EXCEPT !.pc = pc] /\ \A q \in Req : q # r => req'[q] = req[q]
  BY <1>1, GotoKeeps DEF PaperRow, DocumentOps, Keeps
<1> QED
  BY <1>1, <1>2 DEF PaperRow

\* A request that is read changes no row.
LEMMA PaperStart ==
  ASSUME Tabled, PaperInv, NEW r \in Req, NEW h, h \in PaperRow, req[r].pc = "idle",
         Begin(r, h), UNCHANGED papers,
         \/ /\ h.pc = "announce" /\ h.op = "upload" /\ h.row.type \in DocType
            /\ h.row.status = "uploading" /\ ~h.row.passed
         \/ /\ h.pc \in {"uploaded", "mark"} /\ h.row = document[h.document]
            /\ document[h.document].status # "absent"
            /\ h.pc = "uploaded" => h.op = "confirm"
            /\ h.pc = "mark" => h.verdict \in {"verified", "rejected"}
         \/ h.pc = "log" /\ document[h.document].status # "absent"
  PROVE  PaperInv'
<1>1. req'[r] = h /\ \A q \in Req : q # r => req'[q] = req[q]
  BY DEF Begin, Tabled
<1>2. PaperPlaced(r)'
  BY <1>1 DEF PaperPlaced, papers
<1>3. DocumentsTypeOK' /\ ~Inserted(r)
  BY DEF PaperInv, DocumentsTypeOK, papers, Inserted, PaperPlaced, PaperRow, DocumentOps
<1> QED
  BY <1>1, <1>2, <1>3, QuietPapers DEF papers

LEMMA PaperStarts ==
  ASSUME Tabled, PaperInv, NEW r \in Req,
         RequestUpload(r) \/ FindUpload(r) \/ ReadForReview(r) \/ ReadForView(r)
  PROVE  PaperInv'
<1>1. req[r].pc = "idle" /\ UNCHANGED papers
  BY DEF RequestUpload, FindUpload, ReadForReview, ReadForView, CanStart
<1>2. /\ Req \subseteq Document /\ NoDocument \in File
      /\ \A d \in Document : document[d] \in File
  BY ServerAssumption DEF Req, Document, NoDocument, File, DocStatus, PaperInv, DocumentsTypeOK
<1>3. CASE RequestUpload(r)
  <2>1. PICK t \in DocType, own \in BOOLEAN :
          Begin(r, [DocumentCall("upload", "announce", r) EXCEPT !.row = Announced(t, own)])
    BY <1>3 DEF RequestUpload
  <2> DEFINE h == [DocumentCall("upload", "announce", r) EXCEPT !.row = Announced(t, own)]
  <2>2. Announced(t, own) \in File
    BY DEF Announced, File, DocStatus
  <2>3. /\ h \in PaperRow /\ h.pc = "announce" /\ h.op = "upload" /\ h.row.type \in DocType
        /\ h.row.status = "uploading" /\ ~h.row.passed
    BY <1>2, <2>2 DEF DocumentCall, PaperRow, DocumentOps, Announced
  <2>4. Begin(r, h)
    BY <2>1
  <2> HIDE DEF h
  <2> QED
    BY <1>1, <2>3, <2>4, PaperStart
<1>4. CASE FindUpload(r)
  <2>1. PICK d \in OnFile :
          Begin(r, [DocumentCall("confirm", "uploaded", d) EXCEPT !.row = document[d]])
    BY <1>4 DEF FindUpload
  <2> DEFINE h == [DocumentCall("confirm", "uploaded", d) EXCEPT !.row = document[d]]
  <2>2. /\ h \in PaperRow /\ h.pc = "uploaded" /\ h.row = document[h.document]
        /\ document[h.document].status # "absent" /\ h.op = "confirm"
    BY <1>2 DEF OnFile, DocumentCall, PaperRow, DocumentOps
  <2>3. Begin(r, h)
    BY <2>1
  <2> HIDE DEF h
  <2> QED
    BY <1>1, <2>2, <2>3, PaperStart
<1>5. CASE ReadForReview(r)
  <2>1. PICK d \in OnFile, v \in {"verified", "rejected"} :
          Begin(r, [DocumentCall("review", "mark", d) EXCEPT !.row = document[d], !.verdict = v])
    BY <1>5 DEF ReadForReview
  <2> DEFINE h == [DocumentCall("review", "mark", d) EXCEPT !.row = document[d], !.verdict = v]
  <2>2. /\ h \in PaperRow /\ h.pc = "mark" /\ h.row = document[h.document]
        /\ document[h.document].status # "absent" /\ h.verdict \in {"verified", "rejected"}
    BY <1>2 DEF OnFile, DocumentCall, PaperRow, DocumentOps
  <2>3. Begin(r, h)
    BY <2>1
  <2> HIDE DEF h
  <2> QED
    BY <1>1, <2>2, <2>3, PaperStart
<1>6. CASE ReadForView(r)
  <2>1. PICK d \in OnFile : Begin(r, DocumentCall("view", "log", d))
    BY <1>6 DEF ReadForView
  <2> DEFINE h == DocumentCall("view", "log", d)
  <2>2. h \in PaperRow /\ h.pc = "log" /\ document[h.document].status # "absent"
    BY <1>2 DEF OnFile, DocumentCall, PaperRow, DocumentOps
  <2>3. Begin(r, h)
    BY <2>1
  <2> HIDE DEF h
  <2> QED
    BY <1>1, <2>2, <2>3, PaperStart
<1> QED
  BY <1>3, <1>4, <1>5, <1>6

LEMMA InsertDocumentKeeps ==
  ASSUME Tabled, PaperInv, NEW r \in Req, Handles(r, DocumentOps), InsertDocument(r)
  PROVE  PaperInv'
<1>1. /\ req[r] \in PaperRow /\ req[r].pc = "announce" /\ req[r].op = "upload"
      /\ req[r].row \in File /\ req[r].row.type \in DocType
      /\ req[r].row.status = "uploading" /\ ~req[r].row.passed
  <2>1. req[r] \in PaperRow /\ PaperPlaced(r) /\ req[r].pc = "announce" /\ req[r].op \in DocumentOps
    BY PaperAtWork DEF InsertDocument, At
  <2> QED
    BY <2>1 DEF PaperPlaced, PaperRow
<1>2. /\ req'[r] \in PaperRow /\ req'[r].pc = "done" /\ req'[r].op = "upload"
      /\ \A q \in Req : q # r => req'[q] = req[q]
  BY <1>1, PaperGoes DEF InsertDocument, At
<1>3. /\ document' = [document EXCEPT ![r] = req[r].row] /\ UNCHANGED <<checklist, viewed>>
  BY DEF InsertDocument
<1>4. document[r].status = "absent" /\ ~document[r].passed /\ r \in Document
  BY <1>1, ServerAssumption DEF PaperInv, FileRows, Inserted, Document, Req
<1>5. /\ document'[r] = req[r].row
      /\ \A d \in Document : d # r => document'[d] = document[d]
  BY <1>3, <1>4 DEF PaperInv, DocumentsTypeOK
<1>6. DocumentsTypeOK'
  BY <1>1, <1>3 DEF PaperInv, DocumentsTypeOK, File
<1>7. FilesStay
  BY <1>4, <1>5 DEF FilesStay
<1>8. FileRows'
  <2>1. \A q \in Req : document'[q].status # "absent" => Inserted(q)'
    <3> SUFFICES ASSUME NEW q \in Req, document'[q].status # "absent" PROVE Inserted(q)'
      OBVIOUS
    <3>1. CASE q = r
      BY <1>2, <3>1 DEF Inserted
    <3>2. CASE q # r
      <4>1. q \in Document
        BY ServerAssumption DEF Document, Req
      <4> QED
        BY <1>2, <1>5, <3>2, <4>1 DEF PaperInv, FileRows, Inserted
    <3> QED
      BY <3>1, <3>2
  <2>2. \A d \in Document : IF document'[d].status = "absent" THEN ~document'[d].passed
                            ELSE document'[d].type \in DocType
    BY <1>1, <1>5 DEF PaperInv, FileRows
  <2> QED
    BY <2>1, <2>2 DEF FileRows
<1>9. PaperPlaced(r)'
  BY <1>2 DEF PaperPlaced
<1> QED
  BY <1>1, <1>2, <1>3, <1>6, <1>7, <1>8, <1>9, PapersStay, BackingStays

\* The two statements that change a document that is on file.
LEMMA MarksKeep ==
  ASSUME Tabled, PaperInv, NEW r \in Req, Handles(r, DocumentOps), req[r].pc # "idle",
         NEW d \in Document, document[d].status # "absent",
         NEW pc \in {"list", "entry", "done"}, Goto(r, pc),
         NEW s \in DocStatus \ {"absent"}, NEW p \in BOOLEAN, document[d].passed => p,
         document' = [document EXCEPT ![d] = [document[d] EXCEPT !.status = s, !.passed = p]],
         UNCHANGED <<checklist, viewed>>, PaperPlaced(r)', Inserted(r) => Inserted(r)',
         req[r].pc # "done"
  PROVE  PaperInv'
<1>1. \A q \in Req : q # r => req'[q] = req[q]
  BY PaperGoes
<1>2. document[d] \in File
  BY DEF PaperInv, DocumentsTypeOK, File
<1>3. /\ document'[d] \in File
      /\ document'[d].status = s /\ document'[d].passed = p
      /\ document'[d].type = document[d].type /\ document'[d].own = document[d].own
      /\ \A x \in Document : x # d => document'[x] = document[x]
  BY <1>2 DEF PaperInv, DocumentsTypeOK, File
<1>4. DocumentsTypeOK'
  <2>1. document' = [document EXCEPT ![d] = document'[d]]
    BY DEF PaperInv, DocumentsTypeOK
  <2> QED
    BY <1>3, <2>1 DEF PaperInv, DocumentsTypeOK, File
<1>5. FilesStay
  BY <1>3 DEF FilesStay
<1>6. FileRows'
  BY <1>1, <1>3 DEF PaperInv, FileRows, Inserted, Document, Req
<1> QED
  BY <1>1, <1>4, <1>5, <1>6, PapersStay, BackingStays

LEMMA MarkUploadedKeeps ==
  ASSUME Tabled, PaperInv, NEW r \in Req, Handles(r, DocumentOps), MarkUploaded(r)
  PROVE  PaperInv'
<1> DEFINE d == req[r].document
           next == IF req[r].row.own THEN "done" ELSE "list"
<1>1. /\ req[r] \in PaperRow /\ PaperPlaced(r) /\ req[r].pc = "uploaded" /\ req[r].op = "confirm"
      /\ d \in Document /\ document[d].status # "absent"
  <2>1. req[r] \in PaperRow /\ PaperPlaced(r) /\ req[r].pc = "uploaded" /\ req[r].op \in DocumentOps
    BY PaperAtWork DEF MarkUploaded, At
  <2> QED
    BY <2>1 DEF PaperPlaced, PaperRow
<1>2. document' = [document EXCEPT ![d].status = "uploaded"] /\ UNCHANGED <<checklist, viewed>>
      /\ Goto(r, next)
  BY DEF MarkUploaded
<1>3. /\ req'[r] \in PaperRow /\ req'[r].pc = next /\ req'[r].op = "confirm"
      /\ req'[r].document = d /\ req'[r].row = req[r].row
  <2>1. next \in {"list", "entry", "done"}
    OBVIOUS
  <2> HIDE DEF next
  <2> QED
    BY <1>1, <1>2, <2>1, PaperGoes
<1>4. document[d] \in File
  BY <1>1 DEF PaperInv, DocumentsTypeOK, File
<1>5. [document[d] EXCEPT !.status = "uploaded"]
        = [document[d] EXCEPT !.status = "uploaded", !.passed = document[d].passed]
  BY <1>4 DEF File
<1>6. document' = [document EXCEPT ![d] = [document[d] EXCEPT !.status = "uploaded",
                                                              !.passed = document[d].passed]]
  BY <1>1, <1>2, <1>5 DEF PaperInv, DocumentsTypeOK
<1>7. PaperPlaced(r)'
  <2>1. /\ document'[d].status # "absent" /\ document'[d].type = document[d].type
        /\ document'[d].own = document[d].own
    BY <1>1, <1>4, <1>6 DEF PaperInv, DocumentsTypeOK, File
  <2>2. /\ req[r].row.type = document[d].type /\ req[r].row.own = document[d].own
    BY <1>1 DEF PaperPlaced, PaperRow
  <2> QED
    BY <1>3, <2>1, <2>2 DEF PaperPlaced
<1>8. ~Inserted(r) /\ document[d].passed \in BOOLEAN /\ "uploaded" \in DocStatus \ {"absent"}
  BY <1>1, <1>4 DEF Inserted, File, DocStatus
<1>9. next \in {"list", "entry", "done"}
  OBVIOUS
<1>10. PICK p \in BOOLEAN : p = document[d].passed
  BY <1>8
<1> HIDE DEF d, next
<1>11. /\ document' = [document EXCEPT ![d] = [document[d] EXCEPT !.status = "uploaded", !.passed = p]]
       /\ document[d].passed => p
       /\ "uploaded" \in DocStatus \ {"absent"}
  BY <1>6, <1>8, <1>10
<1> QED
  BY <1>1, <1>2, <1>7, <1>8, <1>9, <1>11, MarksKeep

LEMMA MarkReviewedKeeps ==
  ASSUME Tabled, PaperInv, NEW r \in Req, Handles(r, DocumentOps), MarkReviewed(r)
  PROVE  PaperInv'
<1> DEFINE d == req[r].document
           next == IF req[r].row.own THEN "done" ELSE "entry"
           passed == document[d].passed \/ req[r].verdict = "verified"
<1>1. /\ req[r] \in PaperRow /\ PaperPlaced(r) /\ req[r].pc = "mark"
      /\ d \in Document /\ document[d].status # "absent"
      /\ req[r].verdict \in {"verified", "rejected"}
  <2>1. req[r] \in PaperRow /\ PaperPlaced(r) /\ req[r].pc = "mark" /\ req[r].op \in DocumentOps
    BY PaperAtWork DEF MarkReviewed, At
  <2> QED
    BY <2>1 DEF PaperPlaced, PaperRow
<1>2. /\ document' = [document EXCEPT ![d].status = req[r].verdict,
                                      ![d].passed = @ \/ req[r].verdict = "verified"]
      /\ UNCHANGED <<checklist, viewed>> /\ Goto(r, next)
  BY DEF MarkReviewed
<1>3. next \in {"list", "entry", "done"}
  OBVIOUS
<1>4. /\ req'[r] \in PaperRow /\ req'[r].pc = next /\ req'[r].op = req[r].op
      /\ req'[r].document = d /\ req'[r].row = req[r].row /\ req'[r].verdict = req[r].verdict
  <2> HIDE DEF next
  <2> QED
    BY <1>1, <1>2, <1>3, PaperGoes
<1>5. document[d] \in File
  BY <1>1 DEF PaperInv, DocumentsTypeOK, File
<1>6. document' = [document EXCEPT ![d] = [document[d] EXCEPT !.status = req[r].verdict,
                                                              !.passed = passed]]
  <2> DEFINE v == req[r].verdict
  <2>1. document' = [[document EXCEPT ![d].status = v]
                       EXCEPT ![d].passed = @ \/ v = "verified"]
    BY <1>2
  <2>2. [document EXCEPT ![d].status = v] =
          [document EXCEPT ![d] = [document[d] EXCEPT !.status = v]]
    OBVIOUS
  <2>3. \A m : [[document EXCEPT ![d] = [document[d] EXCEPT !.status = v]] EXCEPT ![d].passed = m]
          = [document EXCEPT ![d] = [document[d] EXCEPT !.status = v, !.passed = m]]
    BY <1>1, <1>5 DEF PaperInv, DocumentsTypeOK
  <2>4. [document EXCEPT ![d] = [document[d] EXCEPT !.status = v]][d].passed = document[d].passed
    BY <1>1, <1>5 DEF PaperInv, DocumentsTypeOK, File
  <2> HIDE DEF v
  <2> QED
    BY <2>1, <2>2, <2>3, <2>4 DEF v
<1>7. PaperPlaced(r)'
  <2> HIDE DEF passed
  <2>1. /\ document'[d].status # "absent" /\ document'[d].type = document[d].type
        /\ document'[d].own = document[d].own /\ document'[d].passed = passed
    BY <1>1, <1>5, <1>6 DEF PaperInv, DocumentsTypeOK, File
  <2>2. /\ req[r].row.type = document[d].type /\ req[r].row.own = document[d].own
    BY <1>1 DEF PaperPlaced, PaperRow
  <2>3. req[r].verdict = "verified" => Passed(req[r].row.type)'
    BY <1>1, <1>4, <2>1, <2>2 DEF Passed, passed
  <2> QED
    BY <1>1, <1>4, <2>1, <2>2, <2>3 DEF PaperPlaced
<1>8. /\ Inserted(r) => Inserted(r)'
      /\ document[d].passed \in BOOLEAN
      /\ req[r].verdict \in DocStatus \ {"absent"}
      /\ passed \in BOOLEAN /\ (document[d].passed => passed)
  BY <1>1, <1>4, <1>5 DEF Inserted, File, DocStatus
<1> HIDE DEF d, next, passed
<1> QED
  BY <1>1, <1>2, <1>3, <1>6, <1>7, <1>8, MarksKeep

\* The two statements that change an entry of the checklist.
LEMMA EntriesKeep ==
  ASSUME Tabled, PaperInv, NEW r \in Req, Handles(r, DocumentOps),
         req[r].pc \in {"list", "entry"}, Goto(r, "done"),
         NEW t \in DocType, NEW d \in Document \cup {None}, NEW s \in DocStatus,
         checklist' = [checklist EXCEPT ![t] = [document |-> d, status |-> s]],
         UNCHANGED <<document, viewed>>, Backed(t)'
  PROVE  PaperInv'
<1>1. req'[r] \in PaperRow /\ req'[r].pc = "done" /\ req'[r].op = req[r].op
      /\ \A q \in Req : q # r => req'[q] = req[q]
  BY PaperGoes
<1>2. \A x \in DocType : x # t => checklist'[x] = checklist[x]
  BY DEF PaperInv, DocumentsTypeOK
<1>3. DocumentsTypeOK'
  BY DEF PaperInv, DocumentsTypeOK
<1>4. FilesStay /\ FileRows'
  <2>1. req[r].op = "upload" => Inserted(r)'
    BY <1>1 DEF Inserted
  <2> QED
    BY <1>1, <2>1 DEF PaperInv, FileRows, FilesStay, Inserted
<1>5. PaperPlaced(r)'
  BY <1>1 DEF PaperPlaced
<1> QED
  BY <1>1, <1>2, <1>3, <1>4, <1>5, PapersStay, BackingStays

LEMMA ListDocumentKeeps ==
  ASSUME Tabled, PaperInv, NEW r \in Req, Handles(r, DocumentOps), ListDocument(r)
  PROVE  PaperInv'
<1>0. PICK d, t : d = req[r].document /\ t = req[r].row.type
  OBVIOUS
<1>1. /\ req[r] \in PaperRow /\ req[r].pc = "list" /\ req[r].op = "confirm"
      /\ d \in Document /\ document[d].status # "absent" /\ document[d].type = t
      /\ ~document[d].own
  <2>1. req[r] \in PaperRow /\ PaperPlaced(r) /\ req[r].pc = "list" /\ req[r].op \in DocumentOps
    BY PaperAtWork DEF ListDocument, At
  <2> QED
    BY <1>0, <2>1 DEF PaperPlaced, PaperRow
<1>2. t \in DocType
  BY <1>1 DEF PaperInv, FileRows
<1>3. /\ checklist' = [checklist EXCEPT ![t] = [document |-> d, status |-> "uploaded"]]
      /\ Goto(r, "done") /\ UNCHANGED <<document, viewed>>
  BY <1>0 DEF ListDocument
<1>4. Confirmed(r, d)'
  BY <1>0, <1>1, <1>3, PaperGoes DEF Confirmed
<1>5. Backed(t)'
  <2>1. checklist'[t] = [document |-> d, status |-> "uploaded"]
    BY <1>2, <1>3 DEF PaperInv, DocumentsTypeOK
  <2> QED
    BY <1>1, <1>3, <1>4, <2>1, DocumentsAssumption DEF Backed
<1>6. "uploaded" \in DocStatus
  BY DEF DocStatus
<1> QED
  BY <1>1, <1>2, <1>3, <1>5, <1>6, EntriesKeep

LEMMA MarkEntryKeeps ==
  ASSUME Tabled, PaperInv, NEW r \in Req, Handles(r, DocumentOps), MarkEntry(r)
  PROVE  PaperInv'
<1>0. PICK t, d : t = req[r].row.type /\ d = checklist[t].document
  OBVIOUS
<1>1. /\ req[r] \in PaperRow /\ req[r].pc = "entry" /\ t \in DocType
      /\ req[r].verdict \in {"verified", "rejected"}
      /\ req[r].verdict = "verified" => Passed(t)
  <2>1. req[r] \in PaperRow /\ PaperPlaced(r) /\ req[r].pc = "entry" /\ req[r].op \in DocumentOps
    BY PaperAtWork DEF MarkEntry, At
  <2>2. /\ req[r].document \in Document /\ t = document[req[r].document].type
        /\ document[req[r].document].status # "absent"
    BY <1>0, <2>1 DEF PaperPlaced, PaperRow
  <2>3. t \in DocType
    BY <2>2 DEF PaperInv, FileRows
  <2> QED
    BY <1>0, <2>1, <2>3 DEF PaperPlaced
<1>2. /\ checklist' = [checklist EXCEPT ![t] =
            IF d = None THEN checklist[t] ELSE [checklist[t] EXCEPT !.status = req[r].verdict]]
      /\ Goto(r, "done") /\ UNCHANGED <<document, viewed>>
  BY <1>0 DEF MarkEntry, EntryNow
<1>3. checklist[t] \in [document : Document \cup {None}, status : DocStatus]
  BY <1>1 DEF PaperInv, DocumentsTypeOK
<1>4. Backed(t)
  BY <1>1 DEF PaperInv
<1>5. \A q \in Req : Confirmed(q, d) => Confirmed(q, d)'
  BY <1>1, <1>2, PaperGoes DEF Confirmed
<1>6. ASSUME NEW s \in DocStatus,
             checklist' = [checklist EXCEPT ![t] = [document |-> d, status |-> s]],
             d = None <=> s = "absent", s = "verified" => Passed(t)
      PROVE  PaperInv'
  <2>1. Backed(t)'
    <3>1. checklist'[t] = [document |-> d, status |-> s]
      BY <1>1, <1>6 DEF PaperInv, DocumentsTypeOK
    <3>2. Passed(t) => Passed(t)'
      BY <1>2 DEF Passed
    <3>3. d # None => /\ document'[d].status # "absent"
                      /\ document'[d].type = t /\ ~document'[d].own
                      /\ \E q \in Req : Confirmed(q, d)'
      BY <1>0, <1>2, <1>4, <1>5 DEF Backed
    <3> QED
      BY <1>6, <3>1, <3>2, <3>3 DEF Backed
  <2>2. d \in Document \cup {None}
    BY <1>0, <1>3
  <2> QED
    BY <1>1, <1>2, <1>6, <2>1, <2>2, EntriesKeep
<1>7. CASE d = None
  <2>1. checklist[t] = [document |-> d, status |-> checklist[t].status]
    BY <1>0, <1>3
  <2>2. checklist' = [checklist EXCEPT ![t] = [document |-> d, status |-> checklist[t].status]]
    BY <1>2, <1>7, <2>1
  <2>3. /\ checklist[t].status \in DocStatus
        /\ d = None <=> checklist[t].status = "absent"
        /\ checklist[t].status = "verified" => Passed(t)
    BY <1>0, <1>3, <1>4 DEF Backed
  <2> QED
    BY <1>6, <2>2, <2>3
<1>8. CASE d # None
  <2>1. [checklist[t] EXCEPT !.status = req[r].verdict]
          = [document |-> d, status |-> req[r].verdict]
    BY <1>0, <1>3
  <2>2. req[r].verdict \in DocStatus /\ req[r].verdict # "absent"
    BY <1>1 DEF DocStatus
  <2> QED
    BY <1>1, <1>2, <1>6, <1>8, <2>1, <2>2
<1> QED
  BY <1>7, <1>8

LEMMA LogViewKeeps ==
  ASSUME Tabled, PaperInv, NEW r \in Req, Handles(r, DocumentOps), LogView(r)
  PROVE  PaperInv'
<1>1. /\ req[r] \in PaperRow /\ req[r].pc = "log" /\ req[r].document \in Document
      /\ viewed' = viewed \cup {req[r].document} /\ UNCHANGED <<document, checklist>>
  BY PaperAtWork DEF LogView, At, PaperRow
<1>2. /\ req'[r] \in PaperRow /\ req'[r].pc = "done" /\ req'[r].op = req[r].op
      /\ \A q \in Req : q # r => req'[q] = req[q]
  BY <1>1, PaperGoes DEF LogView, At
<1>3. DocumentsTypeOK' /\ PaperPlaced(r)' /\ (Inserted(r) => Inserted(r)')
  BY <1>1, <1>2 DEF PaperInv, DocumentsTypeOK, PaperPlaced, Inserted
<1> QED
  BY <1>1, <1>2, <1>3, QuietPapers

LEMMA AlwaysPapers == Spec => []PaperInv
<1>1. Tabled /\ Tabled' /\ PaperInv /\ [Next]_vars => PaperInv'
  <2> SUFFICES ASSUME Tabled, Tabled', PaperInv, [Next]_vars PROVE PaperInv'
    OBVIOUS
  <2>1. CASE UNCHANGED vars
    BY <2>1 DEF vars, server, files, papers, PaperInv, DocumentsTypeOK, PaperPlaced, FileRows,
                Backed, Passed, Confirmed, Inserted
  <2>2. ASSUME NEW r \in Req, DocumentsStep(r), Handles(r, DocumentOps)
        PROVE  PaperInv'
    BY <2>2, PaperStarts, InsertDocumentKeeps, MarkUploadedKeeps, ListDocumentKeeps,
       MarkReviewedKeeps, MarkEntryKeeps, LogViewKeeps DEF DocumentsStep
  <2>3. ASSUME NEW r \in Req, UNCHANGED papers, Away(r, DocumentOps)
        PROVE  PaperInv'
    <3>1. DocumentsTypeOK' /\ PaperPlaced(r)' /\ ~Inserted(r) /\ req[r].op # "confirm"
      BY <2>3 DEF Away, papers, PaperInv, DocumentsTypeOK, PaperPlaced, Inserted, DocumentOps
    <3> QED
      BY <2>3, <3>1, QuietPapers DEF Away, papers
  <2>4. ASSUME NEW r \in Req, Break(r)
        PROVE  PaperInv'
    <3>1. /\ UNCHANGED papers /\ r \in InFlight
          /\ \A q \in Req : q # r => req'[q] = req[q]
          /\ req'[r].op = req[r].op
          /\ \/ req'[r] = [req[r] EXCEPT !.pc = req[r].catch, !.catch = "failed"]
             \/ req'[r] = [req[r] EXCEPT !.pc = "died"]
      BY <2>4, BreakKeeps DEF Break, files, Keeps
    <3>2. DocumentsTypeOK' /\ req[r].pc # "done"
      BY <3>1 DEF papers, PaperInv, DocumentsTypeOK, InFlight, Ended
    <3>3. CASE req[r].op \notin DocumentOps
      BY <3>1, <3>2, <3>3, QuietPapers DEF papers, PaperPlaced, Inserted, DocumentOps
    <3>4. CASE req[r].op \in DocumentOps
      <4>1. req[r] \in PaperRow
        BY <3>4 DEF PaperInv, PaperPlaced
      <4>2. req'[r] \in PaperRow /\ req'[r].pc \in {"failed", "died"}
        BY <3>1, <4>1 DEF PaperRow
      <4>3. PaperPlaced(r)' /\ (Inserted(r) => Inserted(r)')
        BY <3>1, <4>2 DEF PaperPlaced, Inserted
      <4> QED
        BY <3>1, <3>2, <4>3, QuietPapers DEF papers
    <3> QED
      BY <3>3, <3>4
  <2> QED
    BY <2>1, <2>2, <2>3, <2>4, AtDocuments DEF Next
<1> QED
  BY <1>1, PaperBegins, AlwaysTabled, PTL DEF Spec

\* However confirmations and reviews cross, and wherever one of them fails: an
\* entry of the checklist names a document of its type whose upload was
\* confirmed, and is marked verified only after some document of that type was
\* (confirmUpload and reviewDocument).
THEOREM BackedChecklist == Spec => []ChecklistIsBacked
<1>1. PaperInv => ChecklistIsBacked
  BY DEF PaperInv, Backed, Confirmed, Passed, ChecklistIsBacked
<1> QED
  BY <1>1, AlwaysPapers, PTL

-------------------------------------------------------------------------------
(***************************************************************************)
(* Contracts and executions.                                                *)
(***************************************************************************)
LEMMA AtCore ==
  ASSUME Tabled, NEW r \in Req, Step(r)
  PROVE  \/ CoreStep(r) /\ Handles(r, CoreOps)
         \/ UNCHANGED core /\ Away(r, CoreOps)
<1>1. CoreOps \in Endpoints
  BY DEF Endpoints
<1>2. CASE CoreStep(r) /\ Handles(r, CoreOps)
  BY <1>2
<1>3. CASE ~(CoreStep(r) /\ Handles(r, CoreOps))
  <2>1. UNCHANGED core
    BY <1>3 DEF Step
  <2>2. "generate" \in CoreOps
        /\ "generate" \notin GuarantorOps \cup AccountOps \cup MembershipOps \cup MeetingOps
                             \cup PolicyOps \cup DocumentOps \cup UniversityOps \cup AssessmentOps
    BY DEF CoreOps, GuarantorOps, AccountOps, MembershipOps, MeetingOps,
           PolicyOps, DocumentOps, UniversityOps, AssessmentOps
  <2>3. \E ops \in Endpoints \ {CoreOps} : Handles(r, ops) /\ Keeps(r, ops)
    BY <1>3, <2>2, GuarantorKeeps, AccountKeeps, MembershipKeeps, MeetingKeeps, PolicyKeeps,
       DocumentKeeps, UniversityKeeps, AssessmentKeeps DEF Step, Endpoints
  <2> QED
    BY <2>1, <2>3, <1>1, ElsewhereIsAway
<1> QED
  BY <1>2, <1>3

EngineOps == {"generate", "send", "sign", "execute"}
ScoreOps  == {"recordEvent", "correct", "getScore", "reconcile"}

GeneratePc == {"version", "terms", "contract"}
SendPc     == {"draft", "sent"}
SignPc     == {"signature", "count", "signed"}
DisbursePc == {"disburse", "event"}
ExecutePc  == {"ledger", "executing", "transaction", "unknown", "end", "commit", "outbox",
               "drain", "retry", "mark_failed"}
ScorePc    == {"balance", "insert", "running", "sum", "score", "unique", "supersede",
               "corrective", "lift", "unlift", "start", "initialize", "report"}

EngineRow ==
  [op : EngineOps,
   pc : GeneratePc \cup SendPc \cup SignPc \cup DisbursePc \cup ExecutePc \cup Ended,
   catch : {"failed", "mark_failed", None}, back : {"done", "end"}, contract : Req \cup {None},
   decision : Decision \cup {None}, party : Party \cup {None}, version : Nat, count : Nat,
   result : Req \cup {None}]

\* What the ledger shows for a committed id is there.
Real(x, res) ==
  /\ res \in Req
  /\ ActionType[x] = "disbursement.record" => disbursed[res] = x /\ outbox[res].status # "absent"
  /\ ActionType[x] = "contract.generate" =>
       Submitted(res) = x /\ contract[res].status # "absent"
  /\ ActionType[x] = "contract.send_for_signature" => contract[res].status \notin {"absent", "draft"}

\* The statements of each endpoint, and of each action.
InOrder(h, action) ==
  /\ h.op = "generate" => h.pc \in GeneratePc \cup Ended
  /\ h.op = "send" => h.pc \in SendPc \cup Ended
  /\ h.op = "sign" => h.pc \in SignPc \cup Ended
  /\ h.op # "execute" => h.back = "done" /\ h.catch = "failed"
  /\ h.catch \in {"failed", "mark_failed"} \/ h.pc \in {"drain"} \cup Ended
  /\ h.op = "execute" =>
       /\ h.pc \notin SignPc
       /\ h.pc \in GeneratePc => action = "contract.generate"
       /\ h.pc \in SendPc => action = "contract.send_for_signature"
       /\ h.pc \in DisbursePc => action = "disbursement.record"
       /\ h.pc \in {"transaction", "unknown"} \cup GeneratePc \cup SendPc \cup DisbursePc =>
            h.back = "end"

\* Who works on a contract that exists.
Holds(h, action) == \/ h.op \in {"send", "sign"}
                    \/ h.op = "execute" /\ h.pc # "done" /\ action = "contract.send_for_signature"

Action(r) == ActionType[Submitted(r)]

EnginePlaced(r) ==
  req[r].op \in EngineOps =>
    /\ req[r] \in EngineRow
    /\ InOrder(req[r], Action(r))
    /\ Holds(req[r], Action(r)) =>
         req[r].contract \in Req /\ contract[req[r].contract].status # "absent"
    /\ req[r].pc = "signed" => req[r].count <= Cardinality(Signatures(req[r].contract))
    /\ req[r].op = "execute" =>
         /\ Submitted(r) \in ExecutionId
         /\ req[r].pc = "event" => disbursed[r] = Submitted(r)
         /\ req[r].pc \in {"end", "commit"} => Real(Submitted(r), req[r].result)

ScorePlaced(r) == req[r].op \in ScoreOps => /\ {"catch", "back"} \subseteq DOMAIN req[r]
                                            /\ req[r].pc \in ScorePc \cup Ended
                                            /\ req[r].catch = "failed"
                                            /\ req[r].back \in {"done", "lift"}

\* The rows named by r are there once r is past their insertion.
Unwritten == {"ledger", "executing", "transaction"} \cup GeneratePc
MadeBy(r) ==
  /\ contract[r].status # "absent" => req[r].op \in EngineOps /\ req[r].pc \notin Unwritten
  /\ disbursed[r] # None => req[r].op = "execute" /\ disbursed[r] = Submitted(r)
  /\ signature[r].contract # None => req[r].op = "sign" /\ req[r].pc # "signature"

EngineInv ==
  /\ ContractsTypeOK /\ ExecutionTypeOK
  /\ \A r \in Req : EnginePlaced(r) /\ ScorePlaced(r) /\ MadeBy(r)
  /\ \A x \in ExecutionId : exec[x].status = "committed" => Real(x, exec[x].result)
  /\ \A c \in Req : contract[c].status = "fully_signed" => Cardinality(Signatures(c)) >= Required

LEMMA EngineBegins == Init => EngineInv
<1> SUFFICES ASSUME Init PROVE EngineInv
  OBVIOUS
<1>1. \A r \in Req : req[r].op = "none"
  BY DEF Init, ServerInit
<1>2. ContractsTypeOK /\ ExecutionTypeOK
  BY DEF Init, ContractsInit, ExecutionInit, ContractsTypeOK, ExecutionTypeOK, ContractStatus,
         LedgerStatus, EventStatus
<1>3. \A r \in Req : EnginePlaced(r) /\ ScorePlaced(r)
  BY <1>1 DEF EnginePlaced, ScorePlaced, EngineOps, ScoreOps
<1>4. \A r \in Req : MadeBy(r) /\ contract[r].status = "absent"
  BY DEF Init, ContractsInit, ExecutionInit, MadeBy
<1>5. \A x \in ExecutionId : exec[x].status = "absent"
  BY DEF Init, ExecutionInit
<1> QED
  BY <1>2, <1>3, <1>4, <1>5 DEF EngineInv

-------------------------------------------------------------------------------
\* No row goes away, is taken back or changes hands.
Grows == /\ \A q \in Req : req[q].op \in EngineOps => task'[q].exec = task[q].exec
         /\ \A c \in Req :
              /\ contract[c].status # "absent" => contract'[c].status # "absent"
              /\ contract[c].status \notin {"absent", "draft"} =>
                   contract'[c].status \notin {"absent", "draft"}
              /\ disbursed[c] # None => disbursed'[c] = disbursed[c]
              /\ outbox[c].status # "absent" => outbox'[c].status # "absent"
              /\ signature[c].contract # None => signature'[c].contract = signature[c].contract

LEMMA RealStays ==
  ASSUME EngineInv, Grows, NEW x \in ExecutionId, NEW res, Real(x, res)
  PROVE  Real(x, res)'
<1>1. x # None /\ res \in Req
  BY ExecutionAssumption DEF Real
<1>2. contract[res].status # "absent" => Submitted(res)' = Submitted(res)
  BY <1>1 DEF EngineInv, MadeBy, Grows, Submitted
<1> QED
  BY <1>1, <1>2 DEF Real, Grows

LEMMA SignaturesGrow ==
  ASSUME EngineInv, Grows, NEW c \in Req
  PROVE  /\ Signatures(c) \subseteq Signatures(c)'
         /\ Cardinality(Signatures(c)) \in Nat /\ Cardinality(Signatures(c)') \in Nat
         /\ Cardinality(Signatures(c)) <= Cardinality(Signatures(c)')
<1>1. Signatures(c) \subseteq Signatures(c)'
  BY ServerAssumption DEF Signatures, Grows
<1>2. IsFiniteSet(Signatures(c)) /\ IsFiniteSet(Signatures(c)')
  BY ReqIsFinite, FS_Subset DEF Signatures
<1> QED
  BY <1>1, <1>2, FS_Subset, FS_CardinalityType

\* What a step of r has to see to.
LEMMA EngineStays ==
  ASSUME EngineInv, Grows, NEW r \in Req, \A q \in Req : q # r => req'[q] = req[q],
         ContractsTypeOK', ExecutionTypeOK', EnginePlaced(r)', ScorePlaced(r)', MadeBy(r)',
         \A q \in Req : q # r => /\ contract'[q].status # "absent" => contract[q].status # "absent"
                                 /\ disbursed'[q] = disbursed[q]
                                 /\ signature'[q] = signature[q]
                                 /\ task'[q].exec = task[q].exec,
         \A x \in ExecutionId : exec'[x].status = "committed" =>
           exec'[x] = exec[x] \/ Real(x, exec[x].result)',
         \A c \in Req : contract'[c].status = "fully_signed" =>
           contract[c].status = "fully_signed" \/ Cardinality(Signatures(c)) >= Required
  PROVE  EngineInv'
<1>1. ASSUME NEW q \in Req, q # r PROVE EnginePlaced(q)'
  <2> SUFFICES ASSUME req[q].op \in EngineOps PROVE EnginePlaced(q)'
    BY <1>1 DEF EnginePlaced
  <2>1. EnginePlaced(q) /\ req'[q] = req[q] /\ Submitted(q)' = Submitted(q) /\ Action(q)' = Action(q)
    BY <1>1 DEF EngineInv, Submitted, Action
  <2>2. req[q].pc = "signed" => req[q].count <= Cardinality(Signatures(req[q].contract))'
    <3> SUFFICES ASSUME req[q].pc = "signed"
                 PROVE  req[q].count <= Cardinality(Signatures(req[q].contract))'
      OBVIOUS
    <3>1. PICK c : c = req[q].contract
      OBVIOUS
    <3>2. /\ req[q].count \in Nat /\ req[q].op = "sign" /\ c \in Req
          /\ req[q].count <= Cardinality(Signatures(c))
      <4>1. req[q].op = "sign"
        BY <2>1 DEF EnginePlaced, EngineOps, InOrder, GeneratePc, SendPc, SignPc, Ended
      <4> QED
        BY <2>1, <3>1, <4>1 DEF EnginePlaced, EngineRow, Holds
    <3>3. /\ Cardinality(Signatures(c)) \in Nat /\ Cardinality(Signatures(c)') \in Nat
          /\ Cardinality(Signatures(c)) <= Cardinality(Signatures(c)')
      BY <3>2, SignaturesGrow
    <3>4. req[q].count <= Cardinality(Signatures(c)')
      BY <3>2, <3>3
    <3>5. Signatures(req[q].contract)' = Signatures(c)'
      BY <2>1, <3>1 DEF Signatures
    <3> QED
      BY <3>4, <3>5
  <2>3. Holds(req[q], Action(q)) => contract'[req[q].contract].status # "absent"
    BY <2>1 DEF EnginePlaced, Grows
  <2>4. req[q].op = "execute" /\ req[q].pc \in {"end", "commit"} => Real(Submitted(q), req[q].result)'
    <3> SUFFICES ASSUME req[q].op = "execute", req[q].pc \in {"end", "commit"}
                 PROVE  Real(Submitted(q), req[q].result)'
      OBVIOUS
    <3>1. PICK x, res : x = Submitted(q) /\ res = req[q].result
      OBVIOUS
    <3>2. x \in ExecutionId /\ Real(x, res)
      BY <2>1, <3>1 DEF EnginePlaced
    <3>3. Real(x, res)'
      BY <3>2, RealStays
    <3> QED
      BY <2>1, <3>1, <3>3 DEF Real
  <2> QED
    BY <1>1, <2>1, <2>2, <2>3, <2>4 DEF EnginePlaced
<1>2. ASSUME NEW q \in Req, q # r PROVE ScorePlaced(q)' /\ MadeBy(q)'
  BY <1>2 DEF EngineInv, ScorePlaced, MadeBy, Submitted
<1>3. \A x \in ExecutionId : exec'[x].status = "committed" => Real(x, exec[x].result)'
  <2> SUFFICES ASSUME NEW x \in ExecutionId, exec'[x] = exec[x], exec[x].status = "committed"
               PROVE  Real(x, exec[x].result)'
    OBVIOUS
  <2>1. PICK res : res = exec[x].result
    OBVIOUS
  <2>2. Real(x, res)'
    BY <2>1, RealStays DEF EngineInv
  <2> QED
    BY <2>1, <2>2 DEF Real
<1>4. \A c \in Req : contract'[c].status = "fully_signed" => Cardinality(Signatures(c)') >= Required
  <2> SUFFICES ASSUME NEW c \in Req, contract'[c].status = "fully_signed"
               PROVE  Cardinality(Signatures(c)') >= Required
    OBVIOUS
  <2>1. PICK n, m : n = Cardinality(Signatures(c)) /\ m = Cardinality(Signatures(c)')
    OBVIOUS
  <2>2. n \in Nat /\ m \in Nat /\ n <= m
    BY <2>1, SignaturesGrow
  <2>3. n >= Required
    BY <2>1 DEF EngineInv
  <2> QED
    BY <2>1, <2>2, <2>3 DEF Required
<1>5. \A c \in Req : contract'[c].status = "fully_signed" => (Cardinality(Signatures(c)) >= Required)'
  BY <1>4 DEF Required
<1> QED
  BY <1>1, <1>2, <1>3, <1>5 DEF EngineInv

\* A step of r that writes no row, or only rows of the ledger that are not committed.
LEMMA EngineMoves ==
  ASSUME EngineInv, NEW r \in Req, \A q \in Req : q # r => req'[q] = req[q],
         UNCHANGED <<contract, signature, disbursed, outbox>>, ContractsTypeOK', ExecutionTypeOK',
         EnginePlaced(r)', ScorePlaced(r)',
         \A q \in Req : q # r \/ req[q].op \in EngineOps => task'[q].exec = task[q].exec,
         req[r].op \in EngineOps =>
           /\ req'[r].op = req[r].op
           /\ req'[r].pc \in Unwritten => req[r].pc \in Unwritten
           /\ req'[r].pc = "signature" => req[r].pc = "signature",
         \A x \in ExecutionId : exec'[x].status = "committed" =>
           exec'[x] = exec[x] \/ Real(x, exec[x].result)'
  PROVE  EngineInv'
<1>1. Grows
  BY DEF Grows
<1>2. MadeBy(r)'
  <2>1. MadeBy(r)
    BY DEF EngineInv
  <2>2. CASE req[r].op \in EngineOps
    BY <2>1, <2>2 DEF MadeBy, Submitted
  <2>3. CASE req[r].op \notin EngineOps
    BY <2>1, <2>3 DEF MadeBy, EngineOps
  <2> QED
    BY <2>2, <2>3
<1>3. \A c \in Req : contract'[c].status = "fully_signed" =>
        contract[c].status = "fully_signed" \/ Cardinality(Signatures(c)) >= Required
  OBVIOUS
<1> QED
  BY <1>1, <1>2, <1>3, EngineStays

LEMMA IdleHasNone ==
  ASSUME EngineInv, NEW r \in Req, req[r].pc = "idle"
  PROVE  req[r].op \notin EngineOps \cup ScoreOps
BY DEF EngineInv, EnginePlaced, ScorePlaced, EngineRow, GeneratePc, SendPc, SignPc, DisbursePc,
       ExecutePc, ScorePc, Ended

EnginePc == GeneratePc \cup SendPc \cup SignPc \cup DisbursePc \cup ExecutePc

\* A statement says whose it is.
LEMMA EngineAtWork ==
  ASSUME Tabled, EngineInv, NEW r \in Req, Handles(r, CoreOps), req[r].pc \in EnginePc
  PROVE  /\ req[r].op \in EngineOps /\ req[r].op # "none" /\ req[r] \in EngineRow
         /\ EnginePlaced(r) /\ InOrder(req[r], Action(r))
         /\ req[r].pc \in GeneratePc => req[r].op \in {"generate", "execute"}
         /\ req[r].pc \in SendPc => req[r].op \in {"send", "execute"}
         /\ req[r].pc \in SignPc => req[r].op = "sign"
         /\ req[r].pc \in DisbursePc \cup ExecutePc => req[r].op = "execute"
         /\ req[r].op = "execute" => Submitted(r) \in ExecutionId
         /\ req[r].catch = "mark_failed" => req[r].op = "execute"
         /\ req[r].pc # "drain" => req[r].catch \in {"failed", "mark_failed"}
<1>1. EnginePlaced(r) /\ ScorePlaced(r)
  BY DEF EngineInv
<1>2. req[r].op \in EngineOps
  <2>1. req[r].op \notin ScoreOps
    BY <1>1 DEF ScorePlaced, EnginePc, GeneratePc, SendPc, SignPc, DisbursePc, ExecutePc, ScorePc,
                Ended
  <2>2. req[r].op # "none"
    BY DEF Tabled, EnginePc, GeneratePc, SendPc, SignPc, DisbursePc, ExecutePc
  <2> QED
    BY <2>1, <2>2 DEF Handles, CoreOps, EngineOps, ScoreOps
<1>3. req[r] \in EngineRow /\ InOrder(req[r], Action(r))
      /\ (req[r].op = "execute" => Submitted(r) \in ExecutionId)
  BY <1>1, <1>2 DEF EnginePlaced
<1> QED
  BY <1>1, <1>2, <1>3 DEF InOrder, EngineOps, EnginePc, GeneratePc, SendPc, SignPc, DisbursePc,
                          ExecutePc, Ended

\* The score works on tables of its own.
LEMMA ScoreMoves ==
  ASSUME Tabled, EngineInv, NEW r \in Req, Handles(r, CoreOps), ScoreStep(r)
  PROVE  /\ \A q \in Req : q # r => req'[q] = req[q]
         /\ req[r].op \notin EngineOps /\ req'[r].op \notin EngineOps /\ ScorePlaced(r)'
<1>0. \A q \in Req : q # r => req'[q] = req[q]
  BY ScoreKeeps DEF Keeps
<1>1. CASE RecordEvent(r) \/ GetScore(r) \/ Reconcile(r)
  <2>1. /\ req[r].pc = "idle"
        /\ \E op \in ScoreOps, pc \in ScorePc : \E s, d, k : Begin(r, ScoreCall(op, pc, s, d, k))
    BY <1>1 DEF RecordEvent, GetScore, Reconcile, CanStart, ScoreOps, ScorePc
  <2>2. PICK op \in ScoreOps, pc \in ScorePc : \E s, d, k : req'[r] = ScoreCall(op, pc, s, d, k)
    BY <2>1 DEF Begin, Tabled
  <2>3. /\ {"catch", "back"} \subseteq DOMAIN req'[r] /\ req'[r].op = op /\ req'[r].pc = pc
        /\ req'[r].catch = "failed" /\ req'[r].back = "done"
    BY <2>2 DEF ScoreCall
  <2> QED
    BY <1>0, <2>1, <2>3, IdleHasNone DEF ScorePlaced, EngineOps, ScoreOps
<1>2. CASE FindOriginal(r)
  <2>1. req[r].pc = "idle"
    BY <1>2 DEF FindOriginal, CanStart
  <2>2. PICK i, d, s, k :
          Begin(r, [ScoreCall("correct", "unique", s, d, k) EXCEPT !.event = i, !.back = "lift"])
    BY <1>2 DEF FindOriginal
  <2> DEFINE h == [ScoreCall("correct", "unique", s, d, k) EXCEPT !.event = i, !.back = "lift"]
  <2>3. /\ {"catch", "back"} \subseteq DOMAIN h /\ h.op = "correct" /\ h.pc = "unique"
        /\ h.catch = "failed" /\ h.back = "lift"
    BY DEF ScoreCall
  <2>4. Begin(r, h)
    BY <2>2
  <2> HIDE DEF h
  <2>5. req'[r] = h
    BY <2>4 DEF Begin, Tabled
  <2> QED
    BY <1>0, <2>1, <2>3, <2>5, IdleHasNone DEF ScorePlaced, EngineOps, ScoreOps, ScorePc
<1>3. CASE ~(RecordEvent(r) \/ GetScore(r) \/ Reconcile(r) \/ FindOriginal(r))
  <2>1. req[r].pc \in ScorePc
    BY <1>3 DEF ScoreStep, ReadBalance, InsertEvent, WriteBalance, SumDimension, ReadCeiling,
                WriteScore, CheckCorrective, Supersede, InsertCorrective, DuplicateCorrective,
                CheckCeiling, LiftCeiling, InsertScore, InitializeBalance, Compare, Report, Summed,
                At, ScorePc
  <2>2. req[r].op \in ScoreOps
    <3>1. req[r].op # "none"
      BY <2>1 DEF Tabled, ScorePc
    <3>2. req[r].op \notin EngineOps
      BY <2>1 DEF EngineInv, EnginePlaced, EngineRow, GeneratePc, SendPc, SignPc, DisbursePc,
                  ExecutePc, ScorePc, Ended
    <3> QED
      BY <3>1, <3>2 DEF Handles, CoreOps, EngineOps, ScoreOps
  <2>3. /\ {"op", "pc", "catch", "back"} \subseteq DOMAIN req[r]
        /\ req[r].catch = "failed" /\ req[r].back \in {"done", "lift"}
    BY <2>2 DEF Tabled, EngineInv, ScorePlaced
  <2>4. \/ \E pc \in ScorePc \cup {"done", req[r].back} : Goto(r, pc)
        \/ Raise(r)
        \/ \E v : req' = [req EXCEPT ![r].new = v, ![r].pc = "insert"]
        \/ \E v : req' = [req EXCEPT ![r].sums = v]
        \/ \E v : req' = [req EXCEPT ![r].capped = v, ![r].pc = "score"]
    <3>1. CASE ReadBalance(r) \/ SumDimension(r) \/ ReadCeiling(r)
      BY <3>1 DEF ReadBalance, SumDimension, ReadCeiling
    <3>2. CASE InsertEvent(r) \/ WriteBalance(r) \/ WriteScore(r) \/ CheckCorrective(r)
               \/ Supersede(r) \/ InsertCorrective(r)
      BY <3>2 DEF InsertEvent, WriteBalance, WriteScore, CheckCorrective, Supersede,
                  InsertCorrective, Return, ScorePc
    <3>3. CASE DuplicateCorrective(r) \/ CheckCeiling(r) \/ LiftCeiling(r)
      BY <3>3 DEF DuplicateCorrective, CheckCeiling, LiftCeiling, ScorePc
    <3>4. CASE InsertScore(r) \/ Compare(r) \/ Report(r)
      BY <3>4 DEF InsertScore, Compare, Report, ScorePc
    <3>5. CASE InitializeBalance(r)
      BY <3>5 DEF InitializeBalance
    <3> QED
      BY <1>3, <3>1, <3>2, <3>3, <3>4, <3>5 DEF ScoreStep
  <2>5. CASE \E pc \in ScorePc \cup {"done", req[r].back} : Goto(r, pc)
    <3>1. PICK pc \in ScorePc \cup {"done", req[r].back} : req'[r] = [req[r] EXCEPT !.pc = pc]
      BY <2>5 DEF Goto, Tabled
    <3>2. pc \in ScorePc \cup Ended
      BY <2>3 DEF ScorePc, Ended
    <3> QED
      BY <1>0, <2>2, <2>3, <3>1, <3>2 DEF ScorePlaced, EngineOps, ScoreOps
  <2>6. CASE Raise(r)
    <3>1. req'[r] = [req[r] EXCEPT !.pc = "failed", !.catch = "failed"]
      BY <2>3, <2>6 DEF Raise, Tabled
    <3> QED
      BY <1>0, <2>2, <2>3, <3>1 DEF ScorePlaced, EngineOps, ScoreOps, Ended
  <2>7. CASE \E v : req' = [req EXCEPT ![r].new = v, ![r].pc = "insert"]
    <3>1. PICK v : req'[r] = [req[r] EXCEPT !.new = v, !.pc = "insert"]
      BY <2>7 DEF Tabled
    <3> QED
      BY <1>0, <2>2, <2>3, <3>1 DEF ScorePlaced, EngineOps, ScoreOps, ScorePc
  <2>8. CASE \E v : req' = [req EXCEPT ![r].sums = v]
    <3>1. PICK v : req'[r] = [req[r] EXCEPT !.sums = v]
      BY <2>8 DEF Tabled
    <3> QED
      BY <1>0, <2>1, <2>2, <2>3, <3>1 DEF ScorePlaced, EngineOps, ScoreOps
  <2>9. CASE \E v : req' = [req EXCEPT ![r].capped = v, ![r].pc = "score"]
    <3>1. PICK v : req'[r] = [req[r] EXCEPT !.capped = v, !.pc = "score"]
      BY <2>9 DEF Tabled
    <3> QED
      BY <1>0, <2>2, <2>3, <3>1 DEF ScorePlaced, EngineOps, ScoreOps, ScorePc
  <2> QED
    BY <2>4, <2>5, <2>6, <2>7, <2>8, <2>9
<1> QED
  BY <1>1, <1>2, <1>3

LEMMA ScoreLeavesEngine ==
  ASSUME Tabled, EngineInv, NEW r \in Req, Handles(r, CoreOps), ScoreStep(r),
         UNCHANGED <<contracts, execution>>
  PROVE  EngineInv'
<1>1. UNCHANGED <<contract, terms, signature, exec, disbursed, outbox, task>>
  BY DEF contracts, execution
<1>2. ContractsTypeOK' /\ ExecutionTypeOK'
  BY <1>1 DEF EngineInv, ContractsTypeOK, ExecutionTypeOK
<1>3. EnginePlaced(r)'
  BY ScoreMoves DEF EnginePlaced
<1> QED
  BY <1>1, <1>2, <1>3, ScoreMoves, EngineMoves

\* A handler arrives.
LEMMA EngineArrives ==
  ASSUME Tabled, EngineInv, NEW r \in Req, req[r].pc = "idle",
         \A q \in Req : q # r => req'[q] = req[q] /\ task'[q].exec = task[q].exec,
         UNCHANGED <<contract, terms, signature, exec, disbursed, outbox>>, ExecutionTypeOK',
         req'[r].op \in EngineOps, EnginePlaced(r)'
  PROVE  EngineInv'
<1>1. ContractsTypeOK'
  BY DEF EngineInv, ContractsTypeOK
<1>2. req[r].op \notin EngineOps
  BY IdleHasNone
<1>3. ScorePlaced(r)'
  BY DEF ScorePlaced, EngineOps, ScoreOps
<1>4. \A x \in ExecutionId : exec'[x].status = "committed" =>
        exec'[x] = exec[x] \/ Real(x, exec[x].result)'
  OBVIOUS
<1> QED
  BY <1>1, <1>2, <1>3, <1>4, EngineMoves

LEMMA ContractBegins ==
  ASSUME Tabled, EngineInv, NEW r \in Req, GenerateRead(r) \/ Send(r) \/ SignRead(r),
         UNCHANGED execution
  PROVE  EngineInv'
<1>1. /\ req[r].pc = "idle"
      /\ UNCHANGED <<contract, terms, signature, exec, disbursed, outbox, task>>
  BY DEF GenerateRead, Send, SignRead, CanStart, contracts, execution
<1>2. ExecutionTypeOK'
  BY <1>1 DEF EngineInv, ExecutionTypeOK
<1>3. PICK op \in {"generate", "send", "sign"}, pc \in GeneratePc \cup SendPc \cup SignPc,
           c \in Req \cup {None}, d \in Decision \cup {None}, p \in Party \cup {None} :
        /\ Begin(r, ContractCall(op, pc, c, d, p))
        /\ op = "generate" => pc = "version"
        /\ op = "send" => pc = "draft"
        /\ op = "sign" => pc = "signature"
        /\ op # "generate" => c \in Generated
  <2>1. CASE GenerateRead(r)
    BY <2>1 DEF GenerateRead, GeneratePc
  <2>2. CASE Send(r)
    BY <2>2 DEF Send, SendPc, Generated
  <2>3. CASE SignRead(r)
    BY <2>3 DEF SignRead, SignPc, Generated
  <2> QED
    BY <2>1, <2>2, <2>3
<1>4. /\ req'[r] = ContractCall(op, pc, c, d, p)
      /\ \A q \in Req : q # r => req'[q] = req[q]
  BY <1>3 DEF Begin, Tabled
<1>5. req'[r] \in EngineRow
  BY <1>4 DEF ContractCall, EngineRow, EngineOps
<1>6. /\ req'[r].op = op /\ req'[r].pc = pc /\ req'[r].catch = "failed" /\ req'[r].back = "done"
      /\ req'[r].contract = c
  BY <1>4 DEF ContractCall
<1>7. InOrder(req'[r], Action(r)')
  BY <1>3, <1>6 DEF InOrder, GeneratePc, SendPc, SignPc
<1>8. op # "generate" => c \in Req /\ contract'[c].status # "absent"
  BY <1>1, <1>3 DEF Generated
<1>9. pc # "signed" /\ op # "execute"
  BY <1>3
<1>10. EnginePlaced(r)'
  BY <1>5, <1>6, <1>7, <1>8, <1>9 DEF EnginePlaced, Holds
<1> QED
  BY <1>1, <1>2, <1>4, <1>6, <1>10, EngineArrives DEF EngineOps

LEMMA LookupKeeps ==
  ASSUME Tabled, EngineInv, NEW r \in Req, Lookup(r) \/ Replay(r)
  PROVE  EngineInv'
<1>1. /\ req[r].pc = "idle"
      /\ UNCHANGED <<contract, terms, signature, exec, disbursed, outbox>>
  BY DEF Lookup, Replay, CanStart, contracts
<1>2. PICK x \in ExecutionId, pc \in {"ledger", "done"}, c \in Req \cup {None},
           d \in Decision \cup {None}, res \in Req \cup {None} :
        /\ task' = [task EXCEPT ![r].exec = x]
        /\ req'[r] = [ContractCall("execute", pc, c, d, None) EXCEPT !.result = res]
        /\ \A q \in Req : q # r => req'[q] = req[q]
        /\ pc = "ledger" /\ ActionType[x] = "contract.send_for_signature" => c \in Generated
  <2>1. CASE Lookup(r)
    <3>0. PICK x \in ExecutionId : \E p \in Payload(x) :
            /\ Begin(r, ContractCall("execute", "ledger", p[1], p[2], None))
            /\ task' = [task EXCEPT ![r].exec = x]
      BY <2>1 DEF Lookup
    <3>1. PICK p \in Payload(x) :
            /\ Begin(r, ContractCall("execute", "ledger", p[1], p[2], None))
            /\ task' = [task EXCEPT ![r].exec = x]
      BY <3>0
    <3>2. /\ p[1] \in Req \cup {None} /\ p[2] \in Decision \cup {None}
          /\ ActionType[x] = "contract.send_for_signature" => p[1] \in Generated
      BY DEF Payload, Generated
    <3>3. PICK c \in Req \cup {None}, d \in Decision \cup {None} : c = p[1] /\ d = p[2]
      BY <3>2
    <3>4. /\ req'[r] = ContractCall("execute", "ledger", c, d, None)
          /\ \A q \in Req : q # r => req'[q] = req[q]
      BY <3>1, <3>3 DEF Begin, Tabled
    <3>5. ContractCall("execute", "ledger", c, d, None)
            = [ContractCall("execute", "ledger", c, d, None) EXCEPT !.result = None]
      BY DEF ContractCall
    <3>6. /\ task' = [task EXCEPT ![r].exec = x]
          /\ req'[r] = [ContractCall("execute", "ledger", c, d, None) EXCEPT !.result = None]
          /\ \A q \in Req : q # r => req'[q] = req[q]
          /\ ActionType[x] = "contract.send_for_signature" => c \in Generated
      BY <3>1, <3>2, <3>3, <3>4, <3>5
    <3> QED
      BY <3>6
  <2>2. CASE Replay(r)
    <3>1. PICK x \in ExecutionId :
            /\ req' = [req EXCEPT ![r] = [ContractCall("execute", "done", None, None, None)
                                            EXCEPT !.result = exec[x].result]]
            /\ task' = [task EXCEPT ![r].exec = x]
      BY <2>2 DEF Replay
    <3>2. PICK res : res = exec[x].result
      OBVIOUS
    <3>3. res \in Req \cup {None}
      BY <3>2 DEF EngineInv, ExecutionTypeOK
    <3>4. /\ req'[r] = [ContractCall("execute", "done", None, None, None) EXCEPT !.result = res]
          /\ \A q \in Req : q # r => req'[q] = req[q]
      BY <3>1, <3>2 DEF Tabled
    <3> QED
      BY <3>1, <3>3, <3>4
  <2> QED
    BY <2>1, <2>2
<1>3. task \in [Req -> [exec : ExecutionId \cup {None}, batch : SUBSET Req, event : Req \cup {None}]]
  BY DEF EngineInv, ExecutionTypeOK
<1>4. /\ task' \in [Req -> [exec : ExecutionId \cup {None}, batch : SUBSET Req,
                            event : Req \cup {None}]]
      /\ task'[r].exec = x
      /\ \A q \in Req : q # r => task'[q].exec = task[q].exec
  BY <1>2, <1>3
<1>5. ExecutionTypeOK'
  BY <1>1, <1>4 DEF EngineInv, ExecutionTypeOK
<1>6. req'[r] = [op |-> "execute", pc |-> pc, catch |-> "failed", back |-> "done", contract |-> c,
                 decision |-> d, party |-> None, version |-> 0, count |-> 0, result |-> res]
  BY <1>2 DEF ContractCall
<1>7. req'[r] \in EngineRow
  BY <1>6 DEF EngineRow, EngineOps, ExecutePc, Ended
<1>8. InOrder(req'[r], Action(r)')
  BY <1>6 DEF InOrder, GeneratePc, SendPc, SignPc, DisbursePc
<1>9. Holds(req'[r], Action(r)') => c \in Req /\ contract'[c].status # "absent"
  BY <1>1, <1>2, <1>4, <1>6 DEF Holds, Action, Submitted, Generated
<1>10. EnginePlaced(r)'
  BY <1>4, <1>6, <1>7, <1>8, <1>9 DEF EnginePlaced, Submitted
<1> QED
  BY <1>1, <1>2, <1>4, <1>5, <1>6, <1>10, EngineArrives DEF EngineOps

-------------------------------------------------------------------------------
\* The handlers keep what makes them theirs.
LEMMA NextVersionIsNat ==
  ASSUME ContractsTypeOK
  PROVE  NextVersion \in Nat
<1> DEFINE number == [c \in Req |-> contract[c].version]
           numbers == {contract[c].version : c \in Generated} \cup {0}
<1>1. IsFiniteSet({number[c] : c \in Generated})
  <2>1. IsFiniteSet(Generated)
    BY ReqIsFinite, FS_Subset DEF Generated
  <2> HIDE DEF number
  <2> QED
    BY <2>1, ImageIsFinite
<1>2. numbers = {number[c] : c \in Generated} \cup {0}
  BY DEF Generated
<1>3. IsFiniteSet(numbers)
  <2> HIDE DEF number
  <2> QED
    BY <1>1, <1>2, FS_AddElement
<1>4. numbers \subseteq Nat /\ numbers # {} /\ NextVersion = Max(numbers) + 1
  BY DEF ContractsTypeOK, Generated, NextVersion
<1> HIDE DEF numbers
<1>5. Max(numbers) \in numbers
  <2>1. numbers \subseteq Int /\ numbers # {}
    BY <1>4
  <2> QED
    BY ONLY <1>3, <2>1, MaxIsIn
<1>6. PICK m : m = Max(numbers)
  OBVIOUS
<1>7. m \in Nat /\ NextVersion = m + 1
  BY <1>4, <1>5, <1>6
<1> QED
  BY <1>7

LEMMA EngineWorks ==
  ASSUME EngineInv, Grows, NEW r \in Req, req[r].op \in EngineOps, req[r].pc # "done",
         req'[r] \in EngineRow, req'[r].op = req[r].op, req'[r].contract = req[r].contract,
         InOrder(req'[r], Action(r)),
         req'[r].pc = "signed" => (req[r].count <= Cardinality(Signatures(req[r].contract)))',
         req'[r].pc = "event" => disbursed'[r] = Submitted(r),
         req[r].op = "execute" /\ req'[r].pc \in {"end", "commit"} =>
           Real(Submitted(r), req[r].result)'
  PROVE  EnginePlaced(r)'
<1>1. /\ EnginePlaced(r) /\ task'[r].exec = task[r].exec
      /\ Submitted(r)' = Submitted(r) /\ Action(r)' = Action(r)
  BY DEF EngineInv, Grows, Submitted, Action
<1>2. Holds(req'[r], Action(r)) => Holds(req[r], Action(r))
  BY DEF Holds
<1>3. Holds(req'[r], Action(r)) =>
        req'[r].contract \in Req /\ contract'[req'[r].contract].status # "absent"
  BY <1>1, <1>2 DEF EnginePlaced, Grows
<1>4. req[r].op = "execute" => Submitted(r) \in ExecutionId
  BY <1>1 DEF EnginePlaced
<1>5. InOrder(req[r], Action(r))' /\ (Holds(req[r], Action(r))' =>
        req'[r].contract \in Req /\ contract'[req'[r].contract].status # "absent")
  BY <1>1, <1>3 DEF InOrder, Holds
<1>6. req'[r].op = "execute" => /\ Submitted(r)' \in ExecutionId
                                /\ req'[r].pc = "event" => disbursed'[r] = Submitted(r)'
  BY <1>1, <1>4
<1>7. req'[r].op = "execute" /\ req'[r].pc \in {"end", "commit"} =>
        Real(Submitted(r), req[r].result)'
  BY <1>1 DEF Real
<1> QED
  BY <1>5, <1>6, <1>7 DEF EnginePlaced

\* A step of r that touches only the handler, the stored terms and what it remembers.
LEMMA EngineTurns ==
  ASSUME EngineInv, NEW r \in Req, \A q \in Req : q # r => req'[q] = req[q],
         UNCHANGED <<contract, signature, exec, disbursed, outbox>>,
         ContractsTypeOK', ExecutionTypeOK', \A q \in Req : task'[q].exec = task[q].exec,
         req[r].op \in EngineOps, req[r].pc # "done",
         req'[r] \in EngineRow, req'[r].op = req[r].op, req'[r].contract = req[r].contract,
         InOrder(req'[r], Action(r)),
         req'[r].pc \notin Unwritten \/ req[r].pc \in Unwritten,
         req'[r].pc # "signature",
         req'[r].pc = "signed" => (req[r].count <= Cardinality(Signatures(req[r].contract)))',
         req'[r].pc # "event",
         req[r].op = "execute" /\ req'[r].pc \in {"end", "commit"} =>
           Real(Submitted(r), req[r].result)'
  PROVE  EngineInv'
<1>1. Grows
  BY DEF Grows
<1>2. EnginePlaced(r)' /\ ScorePlaced(r)'
  BY <1>1, EngineWorks DEF ScorePlaced, ScoreOps, EngineOps
<1>3. \A x \in ExecutionId : exec'[x].status = "committed" =>
        exec'[x] = exec[x] \/ Real(x, exec[x].result)'
  OBVIOUS
<1> QED
  BY <1>2, <1>3, EngineMoves

-------------------------------------------------------------------------------
(***************************************************************************)
(* The statements on contracts, of their endpoints and of the engine.       *)
(***************************************************************************)
LEMMA ContractTurns ==
  ASSUME Tabled, EngineInv, NEW r \in Req, Handles(r, CoreOps), UNCHANGED execution,
         ReadVersion(r) \/ PutTerms(r) \/ FindDraft(r) \/ NoDraft(r) \/ CountSignatures(r)
  PROVE  EngineInv'
<1>1. req[r].pc \in {"version", "terms", "draft", "count"}
  BY DEF ReadVersion, PutTerms, FindDraft, NoDraft, CountSignatures, At
<1>2. req[r].pc \in EnginePc
  BY <1>1 DEF EnginePc, GeneratePc, SendPc, SignPc
<1>3. /\ req[r].op \in EngineOps /\ req[r] \in EngineRow /\ EnginePlaced(r)
      /\ InOrder(req[r], Action(r))
      /\ req[r].pc \in GeneratePc => req[r].op \in {"generate", "execute"}
      /\ req[r].pc \in SendPc => req[r].op \in {"send", "execute"}
      /\ req[r].pc \in SignPc => req[r].op = "sign"
      /\ req[r].catch = "mark_failed" => req[r].op = "execute"
      /\ req[r].catch \in {"failed", "mark_failed"}
  BY <1>1, <1>2, EngineAtWork
<1>4. UNCHANGED <<contract, signature, exec, disbursed, outbox, task>>
  BY DEF ReadVersion, PutTerms, FindDraft, NoDraft, CountSignatures, contracts, execution
<1>5. ExecutionTypeOK'
  BY <1>4 DEF EngineInv, ExecutionTypeOK
<1>6. ContractsTypeOK'
  <2>1. terms \in [Version -> Decision \cup {None}] /\ req[r].decision \in Decision \cup {None}
    BY <1>3 DEF EngineInv, ContractsTypeOK, EngineRow
  <2>2. terms' \in [Version -> Decision \cup {None}]
    BY <2>1 DEF ReadVersion, PutTerms, FindDraft, NoDraft, CountSignatures, contracts
  <2> QED
    BY <1>4, <2>2 DEF EngineInv, ContractsTypeOK
<1>7. \A q \in Req : q # r => req'[q] = req[q]
  BY DEF ReadVersion, PutTerms, FindDraft, NoDraft, CountSignatures, Goto, Raise, Tabled
<1>8. CASE ReadVersion(r)
  <2>1. PICK n : n = NextVersion
    OBVIOUS
  <2>2. n \in Nat
    BY <2>1, NextVersionIsNat DEF EngineInv
  <2>3. req[r].pc = "version" /\ req'[r] = [req[r] EXCEPT !.version = n, !.pc = "terms"]
    BY <1>8, <2>1 DEF ReadVersion, At, Tabled
  <2>4. req'[r] \in EngineRow /\ req'[r].op = req[r].op /\ req'[r].contract = req[r].contract
    BY <1>3, <2>2, <2>3 DEF EngineRow, GeneratePc
  <2>5. InOrder(req'[r], Action(r)) /\ req'[r].pc = "terms"
    BY <1>3, <2>3 DEF EngineRow, InOrder, GeneratePc, SendPc, SignPc, DisbursePc, Ended
  <2> QED
    BY <1>3, <1>4, <1>5, <1>6, <1>7, <2>3, <2>4, <2>5, EngineTurns DEF Unwritten, GeneratePc
<1>9. CASE PutTerms(r)
  <2>1. req[r].pc = "terms" /\ req'[r] = [req[r] EXCEPT !.pc = "contract"]
    BY <1>9 DEF PutTerms, Goto, Tabled
  <2>2. req'[r] \in EngineRow /\ req'[r].op = req[r].op /\ req'[r].contract = req[r].contract
    BY <1>3, <2>1 DEF EngineRow, GeneratePc
  <2>3. InOrder(req'[r], Action(r)) /\ req'[r].pc = "contract"
    BY <1>3, <2>1 DEF EngineRow, InOrder, GeneratePc, SendPc, SignPc, DisbursePc, Ended
  <2> QED
    BY <1>3, <1>4, <1>5, <1>6, <1>7, <2>1, <2>2, <2>3, EngineTurns DEF Unwritten, GeneratePc
<1>10. CASE FindDraft(r)
  <2>1. req[r].pc = "draft" /\ req'[r] = [req[r] EXCEPT !.pc = "sent"]
    BY <1>10 DEF FindDraft, At, Goto, Tabled
  <2>2. req'[r] \in EngineRow /\ req'[r].op = req[r].op /\ req'[r].contract = req[r].contract
    BY <1>3, <2>1 DEF EngineRow, SendPc
  <2>3. InOrder(req'[r], Action(r)) /\ req'[r].pc = "sent"
    BY <1>3, <2>1 DEF EngineRow, InOrder, GeneratePc, SendPc, SignPc, DisbursePc, Ended
  <2> QED
    BY <1>3, <1>4, <1>5, <1>6, <1>7, <2>1, <2>2, <2>3, EngineTurns DEF Unwritten, GeneratePc
<1>11. CASE NoDraft(r)
  <2>1. req[r].pc = "draft" /\ req'[r] = [req[r] EXCEPT !.pc = req[r].catch, !.catch = "failed"]
    BY <1>11 DEF NoDraft, At, Raise, Tabled
  <2>2. req'[r] \in EngineRow /\ req'[r].op = req[r].op /\ req'[r].contract = req[r].contract
        /\ req'[r].pc = req[r].catch /\ req'[r].catch = "failed" /\ req'[r].back = req[r].back
    BY <1>3, <2>1 DEF EngineRow, ExecutePc, Ended
  <2>3. InOrder(req'[r], Action(r)) /\ req'[r].pc \in {"failed", "mark_failed"}
    BY <1>3, <2>1, <2>2 DEF InOrder, GeneratePc, SendPc, SignPc, DisbursePc, ExecutePc, Ended
  <2> QED
    BY <1>3, <1>4, <1>5, <1>6, <1>7, <2>1, <2>2, <2>3, EngineTurns DEF Unwritten, GeneratePc
<1>12. CASE CountSignatures(r)
  <2>1. req[r].pc = "count" /\ req[r].op = "sign"
    BY <1>3, <1>12 DEF CountSignatures, At, SignPc
  <2>2. PICK c, n : c = req[r].contract /\ n = Cardinality(Signatures(c))
    OBVIOUS
  <2>3. c \in Req /\ n \in Nat
    <3>1. c \in Req
      BY <1>3, <2>1, <2>2 DEF EnginePlaced, Holds
    <3>2. IsFiniteSet(Signatures(c))
      BY ReqIsFinite, FS_Subset DEF Signatures
    <3> QED
      BY <2>2, <3>1, <3>2, FS_CardinalityType
  <2>4. req'[r] = [req[r] EXCEPT !.count = n, !.pc = "signed"]
    BY <1>12, <2>2 DEF CountSignatures, Tabled
  <2>5. /\ req'[r] \in EngineRow /\ req'[r].op = req[r].op /\ req'[r].contract = c
        /\ req'[r].count = n /\ req'[r].pc = "signed"
    BY <1>3, <2>2, <2>3, <2>4 DEF EngineRow, SignPc
  <2>6. InOrder(req'[r], Action(r))
    BY <1>3, <2>1, <2>4 DEF EngineRow, InOrder, GeneratePc, SendPc, SignPc, DisbursePc, Ended
  <2>7. Signatures(c)' = Signatures(c)
    BY <1>4 DEF Signatures
  <2>8. (req[r].count <= Cardinality(Signatures(req[r].contract)))'
    <3>1. Signatures(req[r].contract)' = Signatures(c)
      BY <2>5, <2>7 DEF Signatures
    <3> QED
      BY <2>2, <2>3, <2>5, <3>1
  <2> QED
    BY <1>3, <1>4, <1>5, <1>6, <1>7, <2>1, <2>2, <2>5, <2>6, <2>8, EngineTurns DEF Unwritten, GeneratePc
<1> QED
  BY <1>8, <1>9, <1>10, <1>11, <1>12

LEMMA InsertContractKeeps ==
  ASSUME Tabled, EngineInv, NEW r \in Req, Handles(r, CoreOps), UNCHANGED execution,
         InsertContract(r)
  PROVE  EngineInv'
<1>1. req[r].pc = "contract"
  BY DEF InsertContract, At
<1>2. /\ req[r].op \in {"generate", "execute"} /\ req[r] \in EngineRow /\ EnginePlaced(r)
      /\ InOrder(req[r], Action(r)) /\ MadeBy(r)
      /\ req[r].op = "execute" => Submitted(r) \in ExecutionId
  BY <1>1, EngineAtWork DEF EnginePc, GeneratePc, EngineInv
<1>3. PICK row : row = [status |-> "draft", version |-> req[r].version, decision |-> req[r].decision]
  OBVIOUS
<1>4. contract \in [Req -> [status : ContractStatus, version : Nat, decision : Decision \cup {None}]]
  BY DEF EngineInv, ContractsTypeOK
<1>5. /\ contract' = [contract EXCEPT ![r] = row] /\ contract'[r] = row
      /\ \A c \in Req : c # r => contract'[c] = contract[c]
  BY <1>3, <1>4 DEF InsertContract
<1>6. row.status = "draft"
      /\ row \in [status : ContractStatus, version : Nat, decision : Decision \cup {None}]
  BY <1>2, <1>3 DEF EngineRow, ContractStatus
<1>7. /\ req'[r] = [req[r] EXCEPT !.result = r, !.pc = req[r].back]
      /\ \A q \in Req : q # r => req'[q] = req[q]
      /\ UNCHANGED <<terms, signature, exec, disbursed, outbox, task>>
  BY DEF InsertContract, Tabled, execution
<1>8. ContractsTypeOK' /\ ExecutionTypeOK'
  <2>1. contract' \in [Req -> [status : ContractStatus, version : Nat,
                               decision : Decision \cup {None}]]
    BY <1>4, <1>5, <1>6
  <2> QED
    BY <1>7, <2>1 DEF EngineInv, ContractsTypeOK, ExecutionTypeOK
<1>9. contract[r].status = "absent"
  BY <1>1, <1>2 DEF MadeBy, Unwritten, GeneratePc
<1>10. Grows
  BY <1>5, <1>7, <1>9 DEF Grows
<1>11. /\ req'[r] \in EngineRow /\ req'[r].op = req[r].op /\ req'[r].contract = req[r].contract
       /\ req'[r].pc = req[r].back /\ req'[r].result = r /\ req'[r].catch = req[r].catch
       /\ req'[r].back = req[r].back /\ req[r].back \in {"done", "end"}
  BY <1>2, <1>7 DEF EngineRow, ExecutePc, Ended
<1>12. InOrder(req'[r], Action(r))
  BY <1>1, <1>2, <1>11 DEF EngineRow, InOrder, GeneratePc, SendPc, SignPc, DisbursePc, Ended
<1>13. req[r].op = "execute" => Real(Submitted(r), req[r].result)'
  <2> SUFFICES ASSUME req[r].op = "execute" PROVE Real(Submitted(r), req[r].result)'
    OBVIOUS
  <2>1. PICK x : x = Submitted(r)
    OBVIOUS
  <2>2. ActionType[x] = "contract.generate"
    BY <1>1, <1>2, <2>1 DEF InOrder, GeneratePc, Action
  <2>3. Submitted(r)' = x
    BY <1>7, <2>1 DEF Submitted
  <2> QED
    BY <1>5, <1>6, <1>11, <2>2, <2>3 DEF Real
<1>14. EnginePlaced(r)'
  BY <1>1, <1>2, <1>10, <1>11, <1>12, <1>13, EngineWorks DEF EngineOps
<1>15. MadeBy(r)' /\ ScorePlaced(r)'
  BY <1>2, <1>7, <1>11 DEF MadeBy, ScorePlaced, ScoreOps, EngineOps, Unwritten, GeneratePc, Submitted
<1>16. \A x \in ExecutionId : exec'[x].status = "committed" =>
         exec'[x] = exec[x] \/ Real(x, exec[x].result)'
  BY <1>7
<1>17. \A c \in Req : contract'[c].status = "fully_signed" =>
         contract[c].status = "fully_signed" \/ Cardinality(Signatures(c)) >= Required
  BY <1>5, <1>6
<1> QED
  BY <1>5, <1>7, <1>8, <1>10, <1>14, <1>15, <1>16, <1>17, EngineStays

LEMMA InsertSignatureKeeps ==
  ASSUME Tabled, EngineInv, NEW r \in Req, Handles(r, CoreOps), UNCHANGED execution,
         InsertSignature(r)
  PROVE  EngineInv'
<1>1. req[r].pc = "signature"
  BY DEF InsertSignature, At
<1>2. /\ req[r].op = "sign" /\ req[r] \in EngineRow /\ EnginePlaced(r)
      /\ InOrder(req[r], Action(r)) /\ MadeBy(r)
  BY <1>1, EngineAtWork DEF EnginePc, SignPc, EngineInv
<1>3. signature \in [Req -> [contract : Req \cup {None}, party : Party \cup {None}]]
  BY DEF EngineInv, ContractsTypeOK
<1>4. PICK row : row = [contract |-> req[r].contract, party |-> req[r].party]
  OBVIOUS
<1>5. row \in [contract : Req \cup {None}, party : Party \cup {None}]
  BY <1>2, <1>4 DEF EngineRow
<1>6. /\ signature' = [signature EXCEPT ![r] = row]
      /\ req'[r] = [req[r] EXCEPT !.pc = "count"]
      /\ \A q \in Req : q # r => req'[q] = req[q]
      /\ UNCHANGED <<contract, terms, exec, disbursed, outbox, task>>
  BY <1>4 DEF InsertSignature, Goto, Tabled, execution
<1>7. ContractsTypeOK' /\ ExecutionTypeOK'
  <2>1. signature' \in [Req -> [contract : Req \cup {None}, party : Party \cup {None}]]
    BY <1>3, <1>5, <1>6
  <2> QED
    BY <1>6, <2>1 DEF EngineInv, ContractsTypeOK, ExecutionTypeOK
<1>8. signature[r].contract = None
  BY <1>1, <1>2 DEF MadeBy
<1>9. Grows
  BY <1>3, <1>6, <1>8 DEF Grows
<1>10. /\ req'[r] \in EngineRow /\ req'[r].op = req[r].op /\ req'[r].contract = req[r].contract
       /\ req'[r].pc = "count" /\ req'[r].catch = req[r].catch /\ req'[r].back = req[r].back
  BY <1>2, <1>6 DEF EngineRow, SignPc
<1>11. InOrder(req'[r], Action(r))
  BY <1>2, <1>10 DEF InOrder, SignPc
<1>12. EnginePlaced(r)'
  BY <1>1, <1>2, <1>9, <1>10, <1>11, EngineWorks DEF EngineOps
<1>13. MadeBy(r)' /\ ScorePlaced(r)'
  BY <1>2, <1>6, <1>10 DEF MadeBy, ScorePlaced, ScoreOps, EngineOps, Unwritten, GeneratePc, Submitted
<1>14. /\ \A x \in ExecutionId : exec'[x].status = "committed" =>
            exec'[x] = exec[x] \/ Real(x, exec[x].result)'
       /\ \A c \in Req : contract'[c].status = "fully_signed" =>
            contract[c].status = "fully_signed" \/ Cardinality(Signatures(c)) >= Required
       /\ \A q \in Req : q # r => signature'[q] = signature[q]
  BY <1>3, <1>6
<1> QED
  BY <1>6, <1>7, <1>9, <1>12, <1>13, <1>14, EngineStays

\* An UPDATE of the contract r works on.
LEMMA MarkContractKeeps ==
  ASSUME Tabled, EngineInv, NEW r \in Req, Handles(r, CoreOps), UNCHANGED execution,
         MarkSent(r) \/ MarkSigned(r)
  PROVE  EngineInv'
<1>1. req[r].pc \in {"sent", "signed"}
  BY DEF MarkSent, MarkSigned, At
<1>2. /\ req[r].op \in {"send", "sign", "execute"} /\ req[r] \in EngineRow /\ EnginePlaced(r)
      /\ InOrder(req[r], Action(r)) /\ MadeBy(r)
      /\ req[r].op = "execute" => Submitted(r) \in ExecutionId
      /\ req[r].pc = "signed" => req[r].op = "sign"
  BY <1>1, EngineAtWork DEF EnginePc, SendPc, SignPc, EngineInv
<1>3. PICK c : c = req[r].contract
  OBVIOUS
<1>4. c \in Req /\ contract[c].status # "absent"
  <2>1. Holds(req[r], Action(r))
    BY <1>1, <1>2 DEF Holds, InOrder, SendPc
  <2> QED
    BY <1>2, <1>3, <2>1 DEF EnginePlaced, EngineOps
<1>5. contract \in [Req -> [status : ContractStatus, version : Nat, decision : Decision \cup {None}]]
  BY DEF EngineInv, ContractsTypeOK
<1>6. PICK status \in ContractStatus \ {"absent", "draft"} :
        /\ contract' = [contract EXCEPT ![c].status = status]
        /\ status = "fully_signed" => req[r].pc = "signed" /\ req[r].count >= Required
  <2>1. CASE MarkSent(r)
    <3>1. PICK status : status = "sent_for_signature"
      OBVIOUS
    <3>2. contract' = [contract EXCEPT ![c].status = status]
      BY <1>3, <2>1, <3>1 DEF MarkSent
    <3>3. status \in ContractStatus \ {"absent", "draft"} /\ status # "fully_signed"
      BY <3>1 DEF ContractStatus
    <3> QED
      BY <3>2, <3>3
  <2>2. CASE MarkSigned(r)
    <3>1. PICK status : status = IF req[r].count >= Required THEN "fully_signed"
                                                            ELSE "partially_signed"
      OBVIOUS
    <3>2. req[r].pc = "signed" /\ contract' = [contract EXCEPT ![c].status = status]
      BY <1>3, <2>2, <3>1 DEF MarkSigned, At
    <3>3. /\ status \in ContractStatus \ {"absent", "draft"}
          /\ status = "fully_signed" => req[r].count >= Required
      BY <3>1 DEF ContractStatus
    <3> QED
      BY <3>2, <3>3
  <2> QED
    BY <2>1, <2>2
<1>7. /\ contract' \in [Req -> [status : ContractStatus, version : Nat,
                                decision : Decision \cup {None}]]
      /\ contract'[c].status = status
      /\ \A d \in Req : d # c => contract'[d] = contract[d]
  BY <1>4, <1>5, <1>6
<1>8. /\ \A q \in Req : q # r => req'[q] = req[q]
      /\ UNCHANGED <<terms, signature, exec, disbursed, outbox, task>>
  BY DEF MarkSent, MarkSigned, Return, Goto, Tabled, execution
<1>9. PICK res \in Req \cup {None} :
        /\ req'[r] = [req[r] EXCEPT !.result = res, !.pc = req[r].back]
        /\ req[r].pc = "sent" => res = c
  <2>1. CASE MarkSent(r)
    BY <1>3, <1>4, <2>1 DEF MarkSent, Tabled
  <2>2. CASE MarkSigned(r)
    <3>1. PICK res : res = req[r].result
      OBVIOUS
    <3>2. req'[r] = [req[r] EXCEPT !.pc = req[r].back]
      BY <2>2 DEF MarkSigned, Return, Goto, Tabled
    <3>3. req'[r] = [req[r] EXCEPT !.result = res, !.pc = req[r].back] /\ res \in Req \cup {None}
      BY <1>2, <3>1, <3>2 DEF EngineRow
    <3> QED
      BY <2>2, <3>3 DEF MarkSigned, At
  <2> QED
    BY <2>1, <2>2
<1>10. ContractsTypeOK' /\ ExecutionTypeOK'
  BY <1>7, <1>8 DEF EngineInv, ContractsTypeOK, ExecutionTypeOK
<1>11. Grows
  BY <1>6, <1>7, <1>8 DEF Grows
<1>12. /\ req'[r] \in EngineRow /\ req'[r].op = req[r].op /\ req'[r].contract = req[r].contract
       /\ req'[r].pc = req[r].back /\ req'[r].result = res /\ req'[r].catch = req[r].catch
       /\ req'[r].back = req[r].back /\ req[r].back \in {"done", "end"}
  BY <1>2, <1>9 DEF EngineRow, ExecutePc, Ended
<1>13. InOrder(req'[r], Action(r))
  BY <1>1, <1>2, <1>12 DEF EngineRow, InOrder, GeneratePc, SendPc, SignPc, DisbursePc, Ended
<1>14. req[r].op = "execute" => Real(Submitted(r), req[r].result)'
  <2> SUFFICES ASSUME req[r].op = "execute" PROVE Real(Submitted(r), req[r].result)'
    OBVIOUS
  <2>1. PICK x : x = Submitted(r)
    OBVIOUS
  <2>2. ActionType[x] = "contract.send_for_signature" /\ res = c
    BY <1>1, <1>2, <1>9, <2>1 DEF InOrder, SendPc, Action
  <2>3. Submitted(r)' = x
    BY <1>8, <2>1 DEF Submitted
  <2> QED
    BY <1>4, <1>6, <1>7, <1>12, <2>2, <2>3 DEF Real
<1>15. EnginePlaced(r)'
  BY <1>1, <1>2, <1>11, <1>12, <1>13, <1>14, EngineWorks DEF EngineOps
<1>16. MadeBy(r)' /\ ScorePlaced(r)'
  <2>1. contract'[r].status # "absent" => req'[r].op \in EngineOps /\ req'[r].pc \notin Unwritten
    BY <1>2, <1>12 DEF EngineOps, Unwritten, GeneratePc
  <2> QED
    BY <1>1, <1>2, <1>8, <1>12, <2>1 DEF MadeBy, ScorePlaced, ScoreOps, Submitted
<1>17. \A x \in ExecutionId : exec'[x].status = "committed" =>
         exec'[x] = exec[x] \/ Real(x, exec[x].result)'
  BY <1>8
<1>18. ASSUME NEW d \in Req, contract'[d].status = "fully_signed"
       PROVE  contract[d].status = "fully_signed" \/ Cardinality(Signatures(d)) >= Required
  <2>1. CASE d # c
    BY <1>7, <1>18, <2>1
  <2>2. CASE d = c
    <3>1. req[r].pc = "signed" /\ req[r].count >= Required /\ req[r].op = "sign"
      BY <1>2, <1>6, <1>7, <1>18, <2>2
    <3>2. PICK n : n = Cardinality(Signatures(c))
      OBVIOUS
    <3>3. req[r].count <= n /\ req[r].count \in Nat
      BY <1>2, <1>3, <3>1, <3>2 DEF EnginePlaced, EngineRow, EngineOps
    <3>4. n \in Nat
      <4>1. IsFiniteSet(Signatures(c))
        BY ReqIsFinite, FS_Subset DEF Signatures
      <4> QED
        BY <3>2, <4>1, FS_CardinalityType
    <3>5. n >= Required
      BY <3>1, <3>3, <3>4 DEF Required
    <3> QED
      BY <2>2, <3>2, <3>5
  <2> QED
    BY <2>1, <2>2
<1>19. \A q \in Req : q # r =>
         /\ contract'[q].status # "absent" => contract[q].status # "absent"
         /\ disbursed'[q] = disbursed[q] /\ signature'[q] = signature[q]
         /\ task'[q].exec = task[q].exec
  BY <1>4, <1>7, <1>8
<1> QED
  BY <1>8, <1>10, <1>11, <1>15, <1>16, <1>17, <1>18, <1>19, EngineStays

-------------------------------------------------------------------------------
(***************************************************************************)
(* The statements of the engine itself.                                     *)
(***************************************************************************)
LedgerRow == [status : LedgerStatus, result : Req \cup {None}]
TaskRow   == [exec : ExecutionId \cup {None}, batch : SUBSET Req, event : Req \cup {None}]
EventRow  == [status : EventStatus, retry : Nat]

\* The handler of an execution goes on; what it writes is in the ledger, or it remembers it.
LEMMA EngineGoesOn ==
  ASSUME EngineInv, NEW r \in Req, \A q \in Req : q # r => req'[q] = req[q],
         UNCHANGED <<contract, terms, signature, disbursed, outbox>>,
         exec' \in [ExecutionId -> LedgerRow], task' \in [Req -> TaskRow],
         \A q \in Req : task'[q].exec = task[q].exec,
         req[r].op = "execute", req[r].pc # "done", InOrder(req[r], Action(r)),
         NEW pc \in ExecutePc \cup SendPc \cup GeneratePc \cup {"disburse"} \cup Ended,
         NEW catch \in {"failed", "mark_failed", None}, NEW back \in {"done", "end"},
         req[r] \in EngineRow,
         req'[r] = [req[r] EXCEPT !.pc = pc, !.catch = catch, !.back = back],
         pc \in Unwritten => req[r].pc \in Unwritten,
         InOrder(req'[r], Action(r)),
         pc # "end", pc = "commit" => req[r].pc = "end",
         \A x \in ExecutionId : exec'[x].status = "committed" =>
           exec'[x] = exec[x] \/ Real(x, exec[x].result)'
  PROVE  EngineInv'
<1>1. Grows
  BY DEF Grows
<1>2. ContractsTypeOK' /\ ExecutionTypeOK'
  BY DEF EngineInv, ContractsTypeOK, ExecutionTypeOK, LedgerRow, TaskRow
<1>3. /\ req'[r] \in EngineRow /\ req'[r].op = req[r].op /\ req'[r].contract = req[r].contract
      /\ req'[r].pc = pc /\ req'[r].result = req[r].result
  <2>1. pc \in GeneratePc \cup SendPc \cup SignPc \cup DisbursePc \cup ExecutePc \cup Ended
    BY DEF DisbursePc
  <2> QED
    BY <2>1 DEF EngineRow
<1>4. pc \notin {"signed", "event", "signature"}
  BY DEF ExecutePc, SendPc, GeneratePc, Ended
<1>5. pc = "commit" => Real(Submitted(r), req[r].result)'
  <2> SUFFICES ASSUME pc = "commit" PROVE Real(Submitted(r), req[r].result)'
    OBVIOUS
  <2>1. PICK x, res : x = Submitted(r) /\ res = req[r].result
    OBVIOUS
  <2>2. x \in ExecutionId /\ Real(x, res)
    BY <2>1 DEF EngineInv, EnginePlaced, EngineOps
  <2>3. Real(x, res)' /\ Submitted(r)' = x
    BY <1>1, <2>1, <2>2, RealStays DEF Submitted
  <2> QED
    BY <1>3, <2>1, <2>3 DEF Real
<1>6. EnginePlaced(r)'
  BY <1>1, <1>3, <1>4, <1>5, EngineWorks DEF EngineOps
<1>7. ScorePlaced(r)'
  BY <1>3 DEF ScorePlaced, ScoreOps
<1> QED
  BY <1>2, <1>3, <1>4, <1>6, <1>7, EngineMoves

LEMMA LedgerOf ==
  ASSUME Tabled, EngineInv, NEW r \in Req, Handles(r, CoreOps), req[r].pc \in ExecutePc
  PROVE  /\ req[r].op = "execute" /\ req[r] \in EngineRow /\ EnginePlaced(r)
         /\ InOrder(req[r], Action(r)) /\ Submitted(r) \in ExecutionId
         /\ exec \in [ExecutionId -> LedgerRow] /\ task \in [Req -> TaskRow]
         /\ outbox \in [Req -> EventRow]
         /\ req[r].pc # "drain" => req[r].catch \in {"failed", "mark_failed"}
         /\ req[r].pc # "done" /\ Action(r) \in Actions
<1>1. req[r].pc # "done"
  BY DEF ExecutePc
<1>2. /\ req[r].op = "execute" /\ req[r] \in EngineRow /\ EnginePlaced(r)
      /\ InOrder(req[r], Action(r)) /\ Submitted(r) \in ExecutionId
      /\ req[r].pc # "drain" => req[r].catch \in {"failed", "mark_failed"}
  BY EngineAtWork DEF EnginePc
<1>3. Action(r) \in Actions
  BY <1>2, ExecutionAssumption DEF Action
<1>4. /\ exec \in [ExecutionId -> LedgerRow] /\ task \in [Req -> TaskRow]
      /\ outbox \in [Req -> EventRow]
  BY DEF EngineInv, ExecutionTypeOK, LedgerRow, TaskRow, EventRow
<1> QED
  BY <1>1, <1>2, <1>3, <1>4

LEMMA LedgerTurns ==
  ASSUME Tabled, EngineInv, NEW r \in Req, Handles(r, CoreOps),
         InsertLedger(r) \/ MarkExecuting(r) \/ Commit(r) \/ MarkFailed(r)
  PROVE  EngineInv'
<1>1. req[r].pc \in {"ledger", "executing", "commit", "mark_failed"}
  BY DEF InsertLedger, MarkExecuting, Commit, MarkFailed, At
<1>2. /\ req[r].op = "execute" /\ req[r] \in EngineRow /\ EnginePlaced(r)
      /\ InOrder(req[r], Action(r)) /\ Submitted(r) \in ExecutionId
      /\ exec \in [ExecutionId -> LedgerRow] /\ task \in [Req -> TaskRow]
      /\ req[r].catch \in {"failed", "mark_failed"} /\ req[r].pc # "done"
  BY <1>1, LedgerOf DEF ExecutePc
<1>3. PICK x, res : x = Submitted(r) /\ res = req[r].result
  OBVIOUS
<1>4. x \in ExecutionId /\ res \in Req \cup {None}
  BY <1>2, <1>3 DEF EngineRow
<1>5. UNCHANGED <<contract, terms, signature, disbursed, outbox>>
      /\ \A q \in Req : q # r => req'[q] = req[q]
  BY DEF InsertLedger, MarkExecuting, Commit, MarkFailed, Goto, Tabled, contracts
<1>6. task' \in [Req -> TaskRow] /\ \A q \in Req : task'[q].exec = task[q].exec
  <2>1. CASE MarkFailed(r)
    <3>1. task' = [task EXCEPT ![r].batch = {}, ![r].event = None]
      BY <2>1 DEF MarkFailed
    <3>2. ASSUME NEW q \in Req PROVE task'[q] \in TaskRow /\ task'[q].exec = task[q].exec
      <4>1. task[q] \in TaskRow
        BY <1>2
      <4>2. task'[q] = IF q = r THEN [task[q] EXCEPT !.batch = {}, !.event = None] ELSE task[q]
        BY <1>2, <3>1
      <4> QED
        BY <4>1, <4>2 DEF TaskRow
    <3> QED
      BY <1>2, <3>1, <3>2
  <2>2. CASE ~MarkFailed(r)
    BY <1>2, <2>2 DEF InsertLedger, MarkExecuting, Commit
  <2> QED
    BY <2>1, <2>2
<1>7. PICK status \in LedgerStatus, out \in Req \cup {None} :
        /\ exec' = [exec EXCEPT ![x].status = status, ![x].result = out]
        /\ status = "committed" => \/ exec[x].status = "committed" /\ out = exec[x].result
                                   \/ req[r].pc = "commit" /\ out = res
  <2>1. PICK old, was : old = exec[x].result /\ was = exec[x].status
    OBVIOUS
  <2>2. old \in Req \cup {None} /\ was \in LedgerStatus /\ exec[x] = [status |-> was, result |-> old]
    BY <1>2, <1>4, <2>1 DEF LedgerRow
  <2>3. exec = [exec EXCEPT ![x].status = was, ![x].result = old]
    BY <1>2, <1>4, <2>1, <2>2 DEF LedgerRow
  <2>4. CASE InsertLedger(r) \/ MarkExecuting(r)
    <3>1. PICK to \in {"pending", "executing", was} :
            exec' = [exec EXCEPT ![x].status = to]
      <4>1. CASE exec' = exec
        <5>1. exec = [exec EXCEPT ![x].status = was]
          BY <1>2, <1>4, <2>1 DEF LedgerRow
        <5> QED
          BY <4>1, <5>1
      <4>2. CASE exec' # exec
        BY <1>3, <2>4, <4>2 DEF InsertLedger, MarkExecuting
      <4> QED
        BY <4>1, <4>2
    <3>2. exec' = [exec EXCEPT ![x].status = to, ![x].result = old]
      BY <1>2, <1>4, <2>1, <3>1 DEF LedgerRow
    <3>3. to \in LedgerStatus
      BY <2>2, <3>1 DEF LedgerStatus
    <3>4. to = "committed" => was = "committed"
      BY <3>1
    <3> QED
      BY <2>1, <2>2, <3>2, <3>3, <3>4
  <2>5. CASE Commit(r)
    <3>1. PICK to : to = "committed"
      OBVIOUS
    <3>2. exec' = [exec EXCEPT ![x] = [status |-> to, result |-> res]]
      BY <1>3, <2>5, <3>1 DEF Commit
    <3>3. exec' = [exec EXCEPT ![x].status = to, ![x].result = res]
      BY <1>2, <1>4, <3>2 DEF LedgerRow
    <3>4. to \in LedgerStatus /\ req[r].pc = "commit"
      BY <2>5, <3>1 DEF LedgerStatus, Commit, At
    <3> QED
      BY <1>4, <3>3, <3>4
  <2>6. CASE MarkFailed(r)
    <3>1. PICK to : to = "failed"
      OBVIOUS
    <3>2. exec' = [exec EXCEPT ![x].status = to]
      BY <1>3, <2>6, <3>1 DEF MarkFailed
    <3>3. exec' = [exec EXCEPT ![x].status = to, ![x].result = old]
      BY <1>2, <1>4, <2>1, <3>2 DEF LedgerRow
    <3>4. to \in LedgerStatus /\ to # "committed"
      BY <3>1 DEF LedgerStatus
    <3> QED
      BY <2>2, <3>3, <3>4
  <2> QED
    BY <2>4, <2>5, <2>6
<1>8. /\ exec' \in [ExecutionId -> LedgerRow]
      /\ exec'[x].status = status /\ exec'[x].result = out
      /\ \A y \in ExecutionId : y # x => exec'[y] = exec[y]
  <2>1. \A y \in ExecutionId : exec'[y] \in LedgerRow
    BY <1>2, <1>7 DEF LedgerRow
  <2> QED
    BY <1>2, <1>4, <1>7, <2>1 DEF LedgerRow
<1>9. ASSUME NEW y \in ExecutionId, exec'[y].status = "committed"
      PROVE  exec'[y] = exec[y] \/ Real(y, exec[y].result)'
  <2>1. CASE y # x
    BY <1>8, <2>1
  <2>2. CASE y = x /\ exec[x].status = "committed" /\ out = exec[x].result
    <3>1. exec'[x] \in LedgerRow /\ exec[x] \in LedgerRow
      BY <1>2, <1>4, <1>8
    <3> QED
      BY <1>8, <1>9, <2>2, <3>1 DEF LedgerRow
  <2>3. CASE y = x /\ req[r].pc = "commit" /\ out = res
    <3>1. Real(x, res)
      BY <1>2, <1>3, <2>3 DEF EnginePlaced, EngineOps
    <3>2. Grows
      BY <1>5, <1>6 DEF Grows
    <3>3. Real(x, res)'
      BY <1>4, <3>1, <3>2, RealStays
    <3> QED
      BY <1>8, <2>3, <3>3 DEF Real
  <2> QED
    BY <1>7, <1>8, <1>9, <2>1, <2>2, <2>3
<1>10. PICK pc, catch, back :
         /\ req'[r] = [req[r] EXCEPT !.pc = pc, !.catch = catch, !.back = back]
         /\ \/ pc = "executing" /\ catch = req[r].catch /\ back = req[r].back /\ req[r].pc = "ledger"
            \/ pc = "transaction" /\ catch = "mark_failed" /\ back = "end" /\ req[r].pc = "executing"
            \/ pc \in {"outbox", "failed"} /\ catch = req[r].catch /\ back = req[r].back
  <2>1. PICK c, b : c = req[r].catch /\ b = req[r].back
    OBVIOUS
  <2>2. \A h : h = [req[r] EXCEPT !.catch = c, !.back = b] => h = req[r]
    BY <1>2, <2>1 DEF EngineRow
  <2>3. CASE InsertLedger(r) \/ Commit(r) \/ MarkFailed(r)
    <3>1. PICK pc \in {"executing", "outbox", "failed"} :
            /\ req'[r] = [req[r] EXCEPT !.pc = pc]
            /\ pc = "executing" => req[r].pc = "ledger"
      BY <2>3 DEF InsertLedger, Commit, MarkFailed, At, Goto, Tabled
    <3>2. req'[r] = [req[r] EXCEPT !.pc = pc, !.catch = c, !.back = b]
      BY <1>2, <2>1, <3>1 DEF EngineRow
    <3> QED
      BY <2>1, <3>1, <3>2
  <2>4. CASE MarkExecuting(r)
    <3>1. PICK pc, catch, back : pc = "transaction" /\ catch = "mark_failed" /\ back = "end"
      OBVIOUS
    <3>2. req'[r] = [req[r] EXCEPT !.pc = pc, !.catch = catch, !.back = back]
          /\ req[r].pc = "executing"
      BY <2>4, <3>1 DEF MarkExecuting, At, Tabled
    <3> QED
      BY <3>1, <3>2
  <2> QED
    BY <2>3, <2>4
<1>11. /\ pc \in ExecutePc \cup Ended /\ catch \in {"failed", "mark_failed"}
       /\ back \in {"done", "end"} /\ pc \notin {"end", "commit"}
  BY <1>2, <1>10 DEF EngineRow, ExecutePc, Ended
<1>12. pc \in Unwritten => req[r].pc \in Unwritten
  BY <1>10 DEF Unwritten, GeneratePc
<1>13. /\ req'[r].op = "execute" /\ req'[r].pc = pc /\ req'[r].catch = catch /\ req'[r].back = back
  BY <1>2, <1>10 DEF EngineRow
<1>14. InOrder(req'[r], Action(r))
  BY <1>10, <1>11, <1>13 DEF InOrder, GeneratePc, SendPc, SignPc, DisbursePc
<1> QED
  BY <1>2, <1>5, <1>6, <1>8, <1>9, <1>10, <1>11, <1>12, <1>14, EngineGoesOn

LEMMA EngineTurnsOn ==
  ASSUME Tabled, EngineInv, NEW r \in Req, Handles(r, CoreOps),
         BeginTransaction(r) \/ UnknownAction(r) \/ EndTransaction(r) \/ ReadOutbox(r)
         \/ EventFails(r) \/ Drained(r)
  PROVE  EngineInv'
<1>1. req[r].pc \in {"transaction", "unknown", "end", "outbox", "drain"}
  BY DEF BeginTransaction, UnknownAction, EndTransaction, ReadOutbox, EventFails, Drained, At
<1>2. /\ req[r].op = "execute" /\ req[r] \in EngineRow
      /\ InOrder(req[r], Action(r)) /\ Action(r) \in Actions
      /\ exec \in [ExecutionId -> LedgerRow] /\ task \in [Req -> TaskRow]
      /\ req[r].pc # "drain" => req[r].catch \in {"failed", "mark_failed"}
      /\ req[r].pc # "done"
  BY <1>1, LedgerOf DEF ExecutePc
<1>3. /\ UNCHANGED <<contract, terms, signature, exec, disbursed, outbox>>
      /\ \A q \in Req : q # r => req'[q] = req[q]
  BY DEF BeginTransaction, UnknownAction, EndTransaction, ReadOutbox, EventFails, Drained, Goto,
         Raise, Tabled, contracts, execution
<1>4. task' \in [Req -> TaskRow] /\ \A q \in Req : task'[q].exec = task[q].exec
  <2>1. PICK batch \in SUBSET Req, e \in Req \cup {None} :
          task' = task \/ task' = [task EXCEPT ![r].batch = batch, ![r].event = e]
    <3>1. task[r] \in TaskRow
      BY <1>2
    <3>2. CASE ReadOutbox(r)
      <4>1. PICK b, e : b = {x \in Req : outbox[x].status = "pending"} /\ e = task[r].event
        OBVIOUS
      <4>2. task' = [task EXCEPT ![r].batch = b]
        BY <3>2, <4>1 DEF ReadOutbox
      <4>3. b \in SUBSET Req /\ e \in Req \cup {None}
        BY <3>1, <4>1 DEF TaskRow
      <4>4. task' = [task EXCEPT ![r].batch = b, ![r].event = e]
        BY <1>2, <3>1, <4>1, <4>2 DEF TaskRow
      <4> QED
        BY <4>3, <4>4
    <3>3. CASE EventFails(r)
      <4>1. PICK e \in task[r].batch : task' = [task EXCEPT ![r].batch = @ \ {e}, ![r].event = e]
        BY <3>3 DEF EventFails
      <4>2. PICK b : b = task[r].batch \ {e}
        OBVIOUS
      <4>3. b \in SUBSET Req /\ e \in Req
        BY <3>1, <4>1, <4>2 DEF TaskRow
      <4>4. task' = [task EXCEPT ![r].batch = b, ![r].event = e]
        BY <4>1, <4>2
      <4> QED
        BY <4>3, <4>4
    <3>4. CASE ~(ReadOutbox(r) \/ EventFails(r))
      BY <3>4 DEF BeginTransaction, UnknownAction, EndTransaction, Drained, execution
    <3> QED
      BY <3>2, <3>3, <3>4
  <2>2. ASSUME NEW q \in Req PROVE task'[q] \in TaskRow /\ task'[q].exec = task[q].exec
    <3>1. task[q] \in TaskRow
      BY <1>2
    <3>2. \/ task'[q] = task[q]
          \/ task'[q] = [task[q] EXCEPT !.batch = batch, !.event = e]
      BY <1>2, <2>1
    <3> QED
      BY <3>1, <3>2 DEF TaskRow
  <2>3. task' = [q \in Req |-> task'[q]]
    BY <1>2, <2>1
  <2> QED
    BY <2>2, <2>3
<1>5. PICK pc, catch :
        /\ req'[r] = [req[r] EXCEPT !.pc = pc, !.catch = catch]
        /\ \/ pc = Dispatch(Submitted(r)) /\ catch = req[r].catch /\ req[r].pc = "transaction"
           \/ pc = req[r].catch /\ catch = "failed" /\ req[r].pc = "unknown"
           \/ pc = "commit" /\ catch = req[r].catch /\ req[r].pc = "end"
           \/ pc = "drain" /\ catch = None /\ req[r].pc = "outbox"
           \/ pc = "retry" /\ catch = "mark_failed" /\ req[r].pc = "drain"
           \/ pc = "done" /\ catch = req[r].catch /\ req[r].pc = "drain"
  <2>1. PICK c : c = req[r].catch
    OBVIOUS
  <2>2. CASE BeginTransaction(r) \/ EndTransaction(r) \/ Drained(r)
    <3>1. PICK pc : /\ req'[r] = [req[r] EXCEPT !.pc = pc]
                    /\ \/ pc = Dispatch(Submitted(r)) /\ req[r].pc = "transaction"
                       \/ pc = "commit" /\ req[r].pc = "end"
                       \/ pc = "done" /\ req[r].pc = "drain"
      BY <2>2 DEF BeginTransaction, EndTransaction, Drained, At, Goto, Tabled
    <3>2. req'[r] = [req[r] EXCEPT !.pc = pc, !.catch = c]
      BY <1>2, <2>1, <3>1 DEF EngineRow
    <3> QED
      BY <2>1, <3>1, <3>2
  <2>3. CASE UnknownAction(r)
    <3>1. PICK f : f = "failed"
      OBVIOUS
    <3>2. req'[r] = [req[r] EXCEPT !.pc = c, !.catch = f] /\ req[r].pc = "unknown"
      BY <2>1, <2>3, <3>1 DEF UnknownAction, Raise, Tabled
    <3> QED
      BY <2>1, <3>1, <3>2
  <2>4. CASE ReadOutbox(r) \/ EventFails(r)
    <3>1. PICK pc, catch :
            /\ req' = [req EXCEPT ![r].pc = pc, ![r].catch = catch]
            /\ \/ pc = "drain" /\ catch = None /\ req[r].pc = "outbox"
               \/ pc = "retry" /\ catch = "mark_failed" /\ req[r].pc = "drain"
      BY <2>4 DEF ReadOutbox, EventFails, At
    <3>2. req'[r] = [req[r] EXCEPT !.pc = pc, !.catch = catch]
      BY <3>1 DEF Tabled
    <3> QED
      BY <3>1, <3>2
  <2> QED
    BY <2>2, <2>3, <2>4
<1>6. PICK back : back = req[r].back
  OBVIOUS
<1>7. req'[r] = [req[r] EXCEPT !.pc = pc, !.catch = catch, !.back = back]
  BY <1>2, <1>5, <1>6 DEF EngineRow
<1>8. req[r].pc = "transaction" /\ pc = Dispatch(Submitted(r)) =>
        /\ pc \in {"disburse", "version", "draft", "unknown"}
        /\ pc = "disburse" => Action(r) = "disbursement.record"
        /\ pc = "version" => Action(r) = "contract.generate"
        /\ pc = "draft" => Action(r) = "contract.send_for_signature"
  <2>1. Action(r) = ActionType[Submitted(r)]
    BY DEF Action
  <2> QED
    BY <1>2, <2>1 DEF Dispatch, Actions
<1>9. /\ catch \in {"failed", "mark_failed", None} /\ back \in {"done", "end"} /\ pc # "end"
      /\ pc \in ExecutePc \cup SendPc \cup GeneratePc \cup {"disburse"} \cup Ended
  <2>1. req[r].catch \in {"failed", "mark_failed", None} /\ back \in {"done", "end"}
    BY <1>2, <1>6 DEF EngineRow
  <2> QED
    BY <1>2, <1>5, <1>8, <2>1 DEF ExecutePc, SendPc, GeneratePc, Ended
<1>10. /\ pc \in Unwritten => req[r].pc \in Unwritten
       /\ pc = "commit" => req[r].pc = "end"
  BY <1>2, <1>5, <1>8 DEF Unwritten, GeneratePc
<1>11. /\ req'[r].op = "execute" /\ req'[r].pc = pc /\ req'[r].catch = catch /\ req'[r].back = back
  BY <1>2, <1>7 DEF EngineRow
<1>12. InOrder(req'[r], Action(r))
  <2>1. req[r].pc \in {"transaction", "unknown"} => back = "end"
    BY <1>2, <1>6 DEF InOrder
  <2>2. catch \in {"failed", "mark_failed"} \/ pc \in {"drain", "done"}
    BY <1>2, <1>5
  <2> QED
    BY <1>2, <1>5, <1>8, <1>11, <2>1, <2>2 DEF InOrder, GeneratePc, SendPc, SignPc, DisbursePc, Ended
<1>13. \A x \in ExecutionId : exec'[x].status = "committed" =>
         exec'[x] = exec[x] \/ Real(x, exec[x].result)'
  BY <1>3
<1>14. exec' \in [ExecutionId -> LedgerRow]
  BY <1>2, <1>3
<1>15. /\ req[r].op = "execute" /\ req[r].pc # "done" /\ InOrder(req[r], Action(r))
       /\ req[r] \in EngineRow
  BY <1>2
<1> QED
  BY <1>3, <1>4, <1>7, <1>9, <1>10, <1>12, <1>13, <1>14, <1>15, EngineGoesOn

LEMMA DisburseKeeps ==
  ASSUME Tabled, EngineInv, NEW r \in Req, Handles(r, CoreOps), Disburse(r) \/ QueueEvent(r)
  PROVE  EngineInv'
<1>1. req[r].pc \in DisbursePc
  BY DEF Disburse, QueueEvent, At, DisbursePc
<1>2. /\ req[r].op = "execute" /\ req[r] \in EngineRow /\ EnginePlaced(r)
      /\ InOrder(req[r], Action(r)) /\ MadeBy(r) /\ Submitted(r) \in ExecutionId
  BY <1>1, EngineAtWork DEF EnginePc, EngineInv
<1>3. PICK x : x = Submitted(r)
  OBVIOUS
<1>4. /\ disbursed \in [Req -> ExecutionId \cup {None}] /\ outbox \in [Req -> EventRow]
      /\ disbursed[r] \in {None, x} /\ x \in ExecutionId /\ x # None
      /\ ActionType[x] = "disbursement.record" /\ req[r].back = "end"
  <2>1. disbursed \in [Req -> ExecutionId \cup {None}] /\ outbox \in [Req -> EventRow]
    BY DEF EngineInv, ExecutionTypeOK, EventRow
  <2>2. disbursed[r] \in {None, x} /\ x \in ExecutionId /\ x # None
    BY <1>2, <1>3, ExecutionAssumption DEF MadeBy
  <2>3. ActionType[x] = "disbursement.record" /\ req[r].back = "end"
    BY <1>1, <1>2, <1>3 DEF InOrder, Action
  <2> QED
    BY <2>1, <2>2, <2>3
<1>5. /\ \A q \in Req : q # r => req'[q] = req[q]
      /\ UNCHANGED <<contract, terms, signature, exec, task>>
  BY DEF Disburse, QueueEvent, Goto, Tabled, contracts
<1>6. /\ disbursed' \in [Req -> ExecutionId \cup {None}]
      /\ \A q \in Req : q # r => disbursed'[q] = disbursed[q] /\ outbox'[q] = outbox[q]
      /\ disbursed'[r] = x
      /\ outbox[r].status # "absent" => outbox'[r].status # "absent"
  <2>1. CASE Disburse(r)
    BY <1>3, <1>4, <2>1 DEF Disburse
  <2>2. CASE QueueEvent(r)
    <3>1. disbursed[r] = x
      BY <1>2, <1>3, <2>2 DEF QueueEvent, At, EnginePlaced, EngineOps
    <3> QED
      BY <1>4, <2>2, <3>1 DEF QueueEvent, EventRow
  <2> QED
    BY <2>1, <2>2
<1>7. outbox' \in [Req -> EventRow]
  <2>1. PICK status : status = "pending"
    OBVIOUS
  <2>2. status \in EventStatus
    BY <2>1 DEF EventStatus
  <2>3. outbox' = outbox \/ outbox' = [outbox EXCEPT ![r].status = status]
    BY <2>1 DEF Disburse, QueueEvent
  <2>4. \A q \in Req : outbox'[q] \in EventRow
    BY <1>4, <2>2, <2>3 DEF EventRow
  <2> QED
    BY <1>4, <2>3, <2>4
<1>8. ContractsTypeOK' /\ ExecutionTypeOK'
  BY <1>5, <1>6, <1>7 DEF EngineInv, ContractsTypeOK, ExecutionTypeOK, EventRow
<1>9. Grows
  BY <1>4, <1>5, <1>6 DEF Grows
<1>10. /\ \/ req[r].pc = "disburse" /\ req'[r] = [req[r] EXCEPT !.pc = "event"]
          \/ req[r].pc = "event" /\ req'[r] = [req[r] EXCEPT !.result = r, !.pc = req[r].back]
  BY DEF Disburse, QueueEvent, At, Goto, Tabled
<1>11. /\ req'[r] \in EngineRow /\ req'[r].op = req[r].op /\ req'[r].contract = req[r].contract
       /\ req'[r].catch = req[r].catch /\ req'[r].back = "end"
       /\ \/ req[r].pc = "disburse" /\ req'[r].pc = "event"
          \/ req[r].pc = "event" /\ req'[r].pc = "end" /\ req'[r].result = r
  BY <1>2, <1>4, <1>10 DEF EngineRow, DisbursePc, ExecutePc
<1>12. InOrder(req'[r], Action(r))
  BY <1>1, <1>2, <1>11 DEF InOrder, GeneratePc, SendPc, SignPc, DisbursePc, Ended
<1>13. req'[r].pc \in {"end", "commit"} => Real(Submitted(r), req[r].result)'
  <2> SUFFICES ASSUME req'[r].pc \in {"end", "commit"} PROVE Real(Submitted(r), req[r].result)'
    OBVIOUS
  <2>1. QueueEvent(r) /\ req'[r].result = r
    BY <1>11 DEF Disburse, At, DisbursePc
  <2>2. outbox'[r].status # "absent"
    BY <1>4, <2>1 DEF QueueEvent, EventRow
  <2>3. Submitted(r)' = x
    BY <1>3, <1>5 DEF Submitted
  <2> QED
    BY <1>4, <1>6, <2>1, <2>2, <2>3 DEF Real
<1>14. EnginePlaced(r)'
  BY <1>1, <1>2, <1>3, <1>6, <1>9, <1>11, <1>12, <1>13, EngineWorks DEF EngineOps, DisbursePc
<1>15. MadeBy(r)' /\ ScorePlaced(r)'
  BY <1>2, <1>3, <1>5, <1>6, <1>11
     DEF MadeBy, ScorePlaced, ScoreOps, EngineOps, Unwritten, GeneratePc, Submitted
<1>16. /\ \A y \in ExecutionId : exec'[y].status = "committed" =>
            exec'[y] = exec[y] \/ Real(y, exec[y].result)'
       /\ \A c \in Req : contract'[c].status = "fully_signed" =>
            contract[c].status = "fully_signed" \/ Cardinality(Signatures(c)) >= Required
  BY <1>5
<1> QED
  BY <1>5, <1>6, <1>8, <1>9, <1>14, <1>15, <1>16, EngineStays

\* An event is handled, or put back.
LEMMA EventKeeps ==
  ASSUME Tabled, EngineInv, NEW r \in Req, Handles(r, CoreOps), HandleEvent(r) \/ RetryEvent(r)
  PROVE  EngineInv'
<1>1. req[r].pc \in {"drain", "retry"}
  BY DEF HandleEvent, RetryEvent, At
<1>2. /\ req[r].op = "execute" /\ req[r] \in EngineRow /\ EnginePlaced(r)
      /\ InOrder(req[r], Action(r)) /\ MadeBy(r)
      /\ task \in [Req -> TaskRow] /\ outbox \in [Req -> EventRow]
  BY <1>1, LedgerOf DEF ExecutePc, EngineInv
<1>3. UNCHANGED <<contract, terms, signature, exec, disbursed>>
      /\ \A q \in Req : q # r => req'[q] = req[q]
  BY DEF HandleEvent, RetryEvent, Tabled, contracts, server
<1>4. PICK e \in Req \cup {None}, row \in EventRow :
        row.status # "absent" /\ outbox' = [outbox EXCEPT ![e] = row]
  <2>1. CASE HandleEvent(r)
    <3>1. PICK e \in task[r].batch : outbox' = [outbox EXCEPT ![e].status = "processed"]
      BY <2>1 DEF HandleEvent
    <3>2. e \in Req
      BY <1>2, <3>1 DEF TaskRow
    <3>3. PICK row : row = [outbox[e] EXCEPT !.status = "processed"]
      OBVIOUS
    <3>4. row \in EventRow /\ row.status # "absent"
      BY <1>2, <3>2, <3>3 DEF EventRow, EventStatus
    <3>5. outbox' = [outbox EXCEPT ![e] = row]
      BY <1>2, <3>1, <3>2, <3>3
    <3> QED
      BY <3>2, <3>4, <3>5
  <2>2. CASE RetryEvent(r)
    <3>1. PICK e, row :
            /\ e = task[r].event
            /\ row = [status |-> IF outbox[e].retry >= RetryLimit THEN "dead_letter" ELSE "pending",
                      retry  |-> outbox[e].retry + 1]
      OBVIOUS
    <3>2. outbox' = [outbox EXCEPT ![e] = row] /\ e \in Req \cup {None}
      BY <1>2, <2>2, <3>1 DEF RetryEvent, TaskRow
    <3>3. CASE e \in Req
      <4>1. row \in EventRow /\ row.status # "absent"
        BY <1>2, <3>1, <3>3 DEF EventRow, EventStatus
      <4> QED
        BY <3>2, <4>1
    <3>4. CASE e \notin Req
      <4>1. PICK any : any = [status |-> "pending", retry |-> 0]
        OBVIOUS
      <4>2. any \in EventRow /\ any.status # "absent"
        BY <4>1 DEF EventRow, EventStatus
      <4>3. outbox' = [outbox EXCEPT ![e] = any]
        BY <1>2, <3>2, <3>4
      <4> QED
        BY <3>2, <4>2, <4>3
    <3> QED
      BY <3>3, <3>4
  <2> QED
    BY <2>1, <2>2
<1>5. /\ outbox' \in [Req -> EventRow]
      /\ \A q \in Req : outbox[q].status # "absent" => outbox'[q].status # "absent"
  <2>1. ASSUME NEW q \in Req
        PROVE  /\ outbox'[q] \in EventRow
               /\ outbox[q].status # "absent" => outbox'[q].status # "absent"
    <3>1. outbox[q] \in EventRow
      BY <1>2
    <3>2. outbox'[q] = outbox[q] \/ outbox'[q] = row
      BY <1>2, <1>4
    <3> QED
      BY <1>4, <3>1, <3>2
  <2>2. outbox' = [q \in Req |-> outbox'[q]]
    BY <1>2, <1>4
  <2> QED
    BY <2>1, <2>2
<1>6. task' \in [Req -> TaskRow] /\ \A q \in Req : task'[q].exec = task[q].exec
  <2>1. PICK b \in SUBSET Req, e0 \in Req \cup {None} :
          task' = [task EXCEPT ![r].batch = b, ![r].event = e0]
    <3>1. task[r] \in TaskRow
      BY <1>2
    <3>2. CASE HandleEvent(r)
      <4>1. PICK d : task' = [task EXCEPT ![r].batch = @ \ {d}]
        BY <3>2 DEF HandleEvent
      <4>2. PICK b, e0 : b = task[r].batch \ {d} /\ e0 = task[r].event
        OBVIOUS
      <4>3. b \in SUBSET Req /\ e0 \in Req \cup {None}
        BY <3>1, <4>2 DEF TaskRow
      <4>4. task' = [task EXCEPT ![r].batch = b, ![r].event = e0]
        BY <1>2, <3>1, <4>1, <4>2 DEF TaskRow
      <4> QED
        BY <4>3, <4>4
    <3>3. CASE RetryEvent(r)
      <4>1. PICK b, e0 : b = task[r].batch /\ e0 = None
        OBVIOUS
      <4>2. b \in SUBSET Req /\ e0 \in Req \cup {None}
        BY <3>1, <4>1 DEF TaskRow
      <4>3. task' = [task EXCEPT ![r].event = e0]
        BY <3>3, <4>1 DEF RetryEvent
      <4>4. task' = [task EXCEPT ![r].batch = b, ![r].event = e0]
        BY <1>2, <3>1, <4>1, <4>3 DEF TaskRow
      <4> QED
        BY <4>2, <4>4
    <3> QED
      BY <3>2, <3>3
  <2>2. ASSUME NEW q \in Req PROVE task'[q] \in TaskRow /\ task'[q].exec = task[q].exec
    <3>1. task[q] \in TaskRow
      BY <1>2
    <3>2. \/ task'[q] = task[q]
          \/ task'[q] = [task[q] EXCEPT !.batch = b, !.event = e0]
      BY <1>2, <2>1
    <3> QED
      BY <3>1, <3>2 DEF TaskRow
  <2>3. task' = [q \in Req |-> task'[q]]
    BY <1>2, <2>1
  <2> QED
    BY <2>2, <2>3
<1>7. ContractsTypeOK' /\ ExecutionTypeOK'
  BY <1>3, <1>5, <1>6 DEF EngineInv, ContractsTypeOK, ExecutionTypeOK, EventRow, TaskRow
<1>8. Grows
  BY <1>3, <1>5, <1>6 DEF Grows
<1>9. /\ req'[r] \in EngineRow /\ req'[r].op = req[r].op /\ req'[r].contract = req[r].contract
      /\ req'[r].pc = "drain" /\ req'[r].back = req[r].back
  <2>1. CASE HandleEvent(r)
    BY <1>2, <2>1 DEF HandleEvent, At, server
  <2>2. CASE RetryEvent(r)
    <3>1. req'[r] = [req[r] EXCEPT !.pc = "drain", !.catch = None]
      BY <2>2 DEF RetryEvent, Tabled
    <3> QED
      BY <1>2, <3>1 DEF EngineRow, ExecutePc
  <2> QED
    BY <2>1, <2>2
<1>10. InOrder(req'[r], Action(r))
  BY <1>2, <1>9 DEF InOrder, GeneratePc, SendPc, SignPc, DisbursePc, Ended
<1>11. EnginePlaced(r)'
  BY <1>1, <1>2, <1>8, <1>9, <1>10, EngineWorks DEF EngineOps
<1>12. MadeBy(r)' /\ ScorePlaced(r)'
  BY <1>1, <1>2, <1>3, <1>6, <1>9
     DEF MadeBy, ScorePlaced, ScoreOps, EngineOps, Unwritten, GeneratePc, Submitted
<1>13. /\ \A x \in ExecutionId : exec'[x].status = "committed" =>
            exec'[x] = exec[x] \/ Real(x, exec[x].result)'
       /\ \A c \in Req : contract'[c].status = "fully_signed" =>
            contract[c].status = "fully_signed" \/ Cardinality(Signatures(c)) >= Required
  BY <1>3
<1> QED
  BY <1>3, <1>6, <1>7, <1>8, <1>11, <1>12, <1>13, EngineStays

-------------------------------------------------------------------------------
LEMMA CoreStepKeeps ==
  ASSUME Tabled, EngineInv, NEW r \in Req, Handles(r, CoreOps), CoreStep(r)
  PROVE  EngineInv'
<1>1. CASE ContractsStep(r) /\ UNCHANGED execution
  BY <1>1, ContractBegins, ContractTurns, InsertContractKeeps, InsertSignatureKeeps,
     MarkContractKeeps DEF ContractsStep
<1>2. CASE ExecutionStep(r)
  BY <1>2, LookupKeeps, LedgerTurns, EngineTurnsOn, DisburseKeeps, EventKeeps DEF ExecutionStep
<1>3. CASE ScoreStep(r) /\ UNCHANGED <<contracts, execution>>
  BY <1>3, ScoreLeavesEngine
<1> QED
  BY <1>1, <1>2, <1>3 DEF CoreStep

LEMMA CoreAwayKeeps ==
  ASSUME Tabled, EngineInv, NEW r \in Req, Away(r, CoreOps), UNCHANGED core
  PROVE  EngineInv'
<1>1. UNCHANGED <<contract, terms, signature, exec, disbursed, outbox, task>>
  BY DEF core, contracts, execution
<1>2. ContractsTypeOK' /\ ExecutionTypeOK'
  BY <1>1 DEF EngineInv, ContractsTypeOK, ExecutionTypeOK
<1>3. req[r].op \notin EngineOps /\ EnginePlaced(r)' /\ ScorePlaced(r)'
  BY DEF Away, CoreOps, EngineOps, ScoreOps, EnginePlaced, ScorePlaced
<1>4. \A q \in Req : q # r => req'[q] = req[q]
  BY DEF Away
<1> QED
  BY <1>1, <1>2, <1>3, <1>4, EngineMoves

\* A statement that fails, or the end of the process.
LEMMA EngineBreaks ==
  ASSUME Tabled, EngineInv, NEW r \in Req, Break(r)
  PROVE  EngineInv'
<1>1. /\ UNCHANGED <<contract, terms, signature, exec, disbursed, outbox, task>>
      /\ \A q \in Req : q # r => req'[q] = req[q]
  BY BreakKeeps DEF Break, core, contracts, execution, Keeps
<1>2. ContractsTypeOK' /\ ExecutionTypeOK'
  BY <1>1 DEF EngineInv, ContractsTypeOK, ExecutionTypeOK
<1>3. /\ req[r].pc \notin Ended
      /\ \/ req[r].catch # None
            /\ req'[r] = [req[r] EXCEPT !.pc = req[r].catch, !.catch = "failed"]
         \/ req'[r] = [req[r] EXCEPT !.pc = "died"]
      /\ req'[r].op = req[r].op
  <2>1. r \in InFlight /\ req'[r].op = req[r].op
    BY BreakKeeps DEF Keeps
  <2>2. CASE Throw(r)
    BY <2>1, <2>2 DEF Throw, Raise, Tabled, InFlight
  <2>3. CASE Crash(r)
    BY <2>1, <2>3 DEF Crash, Tabled, InFlight
  <2> QED
    BY <2>2, <2>3 DEF Break
<1>4. CASE req[r].op \in EngineOps
  <2>1. /\ req[r] \in EngineRow /\ InOrder(req[r], Action(r))
    BY <1>4 DEF EngineInv, EnginePlaced
  <2>2. /\ req'[r] \in EngineRow /\ req'[r].contract = req[r].contract
        /\ req'[r].back = req[r].back /\ req'[r].pc \in {"failed", "mark_failed", "died"}
        /\ \/ req'[r].catch = "failed"
           \/ req'[r].catch = req[r].catch /\ req'[r].pc = "died"
        /\ req'[r].pc = "mark_failed" => req[r].catch = "mark_failed"
    BY <1>3, <2>1 DEF EngineRow, ExecutePc, Ended
  <2>3. InOrder(req'[r], Action(r))
    BY <1>3, <2>1, <2>2 DEF InOrder, GeneratePc, SendPc, SignPc, DisbursePc, Ended
  <2>4. req'[r].pc \notin Unwritten
    BY <2>2 DEF Unwritten, GeneratePc
  <2> QED
    BY <1>1, <1>2, <1>3, <1>4, <2>2, <2>3, <2>4, EngineTurns DEF Ended
<1>5. CASE req[r].op \notin EngineOps
  <2>1. EnginePlaced(r)'
    BY <1>3, <1>5 DEF EnginePlaced
  <2>2. ScorePlaced(r)'
    <3>1. CASE req[r].op \in ScoreOps
      <4>1. /\ {"op", "pc", "catch", "back"} \subseteq DOMAIN req[r]
            /\ req[r].catch = "failed" /\ req[r].back \in {"done", "lift"}
        BY <3>1 DEF Tabled, EngineInv, ScorePlaced
      <4> QED
        BY <1>3, <3>1, <4>1 DEF ScorePlaced, Ended
    <3>2. CASE req[r].op \notin ScoreOps
      BY <1>3, <3>2 DEF ScorePlaced
    <3> QED
      BY <3>1, <3>2
  <2> QED
    BY <1>1, <1>2, <1>5, <2>1, <2>2, EngineMoves
<1> QED
  BY <1>4, <1>5

LEMMA EngineInvariant == Spec => []EngineInv
<1>1. Tabled /\ Tabled' /\ EngineInv /\ [Next]_vars => EngineInv'
  <2> SUFFICES ASSUME Tabled, EngineInv, [Next]_vars PROVE EngineInv'
    OBVIOUS
  <2>1. CASE UNCHANGED vars
    <3>1. UNCHANGED <<req, contract, terms, signature, exec, disbursed, outbox, task>>
      BY <2>1 DEF vars, server, core, contracts, execution
    <3>2. ContractsTypeOK' /\ ExecutionTypeOK'
      BY <3>1 DEF EngineInv, ContractsTypeOK, ExecutionTypeOK
    <3>3. \A r \in Req : EnginePlaced(r)' /\ ScorePlaced(r)' /\ MadeBy(r)'
      <4> SUFFICES ASSUME NEW r \in Req PROVE EnginePlaced(r)' /\ ScorePlaced(r)' /\ MadeBy(r)'
        OBVIOUS
      <4>1. EnginePlaced(r) /\ ScorePlaced(r) /\ MadeBy(r)
        BY DEF EngineInv
      <4>2. /\ Action(r)' = Action(r) /\ Submitted(r)' = Submitted(r)
            /\ Signatures(req[r].contract)' = Signatures(req[r].contract)
            /\ Real(Submitted(r), req[r].result)' = Real(Submitted(r), req[r].result)
        BY <3>1 DEF Action, Submitted, Signatures, Real
      <4> QED
        BY <3>1, <4>1, <4>2 DEF EnginePlaced, ScorePlaced, MadeBy
    <3>4. \A x \in ExecutionId : exec'[x].status = "committed" => Real(x, exec[x].result)'
      BY <3>1 DEF EngineInv, Real, Submitted
    <3>5. \A c \in Req : contract'[c].status = "fully_signed" =>
            (Cardinality(Signatures(c)) >= Required)'
      BY <3>1 DEF EngineInv, Signatures, Required
    <3> QED
      BY <3>2, <3>3, <3>4, <3>5 DEF EngineInv
  <2>2. ASSUME NEW r \in Req, Step(r) PROVE EngineInv'
    BY <2>2, AtCore, CoreStepKeeps, CoreAwayKeeps
  <2>3. ASSUME NEW r \in Req, Break(r) PROVE EngineInv'
    BY <2>3, EngineBreaks
  <2> QED
    BY <2>1, <2>2, <2>3 DEF Next
<1> QED
  BY <1>1, EngineBegins, AlwaysTabled, PTL DEF Spec

\* What the ledger answers is there (Execution's ResultIsReal): an execution id
\* that is committed shows the disbursement made for it together with its
\* event, the contract generated for it, or the contract it sent, although the
\* transaction around the dispatch protects none of these statements, whatever
\* interleaves and wherever a handler fails or the process ends.
THEOREM ResultsAreReal == Spec => []ResultIsReal
<1>1. EngineInv => ResultIsReal
  BY ServerAssumption DEF EngineInv, Real, ResultIsReal
<1> QED
  BY <1>1, EngineInvariant, PTL

\* A contract is shown as fully signed only with the signatures it requires on
\* record (Contracts' SignedHasSignatures): a count read before other
\* signatures were inserted can only be too low, and no signature goes away.
THEOREM SignedAreSigned == Spec => []SignedHasSignatures
<1>1. EngineInv => SignedHasSignatures
  BY DEF EngineInv, SignedHasSignatures
<1> QED
  BY <1>1, EngineInvariant, PTL
===============================================================================
