-------------------------------- MODULE Policy ---------------------------------
(***************************************************************************)
(* policy.service.ts for one policy key: versions proposed, approved and    *)
(* resolved through a cache in the memory of the server.  A version is      *)
(* named by the handler that inserts it; 0 was approved and Proposal        *)
(* proposed before the first request.  No caller passes asOfDate, so        *)
(* everything is resolved as of now.                                        *)
(***************************************************************************)
EXTENDS Handlers, FiniteSetsExt

VARIABLES
  policy,     \* table policy_versions
  conflict,   \* table policy_conflicts: the pairs
  cache       \* the answers in memory, by context

policies == <<policy, conflict, cache>>

Proposal == Requests + 1
PolicyOps == {"propose", "activate", "resolve"}
PolicyVersion == {0, Proposal} \cup Req

\* Scope types, from the most to the least specific, and who is asked about.
Scope   == {"student", "global"}
Context == {"student", "anyone"}
Applies(s, ctx) == s = "global" \/ ctx = "student"

PolicyStatus == {"absent", "draft", "active", "superseded"}

PolicyInit ==
  /\ \E s \in Varying(PolicyOps, Scope) : policy =
       [v \in PolicyVersion |->
          CASE v = 0 -> [scope |-> "global", number |-> 1, begun |-> TRUE, status |-> "active"]
            [] v = Proposal -> [scope |-> s, number |-> IF s = "global" THEN 2 ELSE 1,
                                begun |-> TRUE, status |-> "draft"]
            [] OTHER -> [scope |-> "global", number |-> 0, begun |-> FALSE, status |-> "absent"]]
  /\ conflict = {}
  /\ cache = [ctx \in Context |-> None]

PolicyCall(op, pc, v, ctx) ==
  [op |-> op, pc |-> pc, catch |-> "failed", back |-> "done", version |-> v,
   context |-> ctx, draft |-> None, doubled |-> {}, seen |-> {}]

ActiveIn(s) == {v \in PolicyVersion : policy[v].scope = s /\ policy[v].status = "active"}

(***************************************************************************)
(* createVersion: the number is read, then the draft inserted.              *)
(***************************************************************************)
Propose(r) ==
  /\ CanStart(r, "propose")
  /\ \E s \in Scope, begun \in BOOLEAN :
       LET same == {v \in PolicyVersion : policy[v].scope = s} IN
       Begin(r, [PolicyCall("propose", "proposal", r, None) EXCEPT !.draft =
         [scope |-> s, number |-> Max({policy[v].number : v \in same} \cup {0}) + 1,
          begun |-> begun, status |-> "draft"]])
  /\ UNCHANGED policies

InsertProposal(r) ==
  /\ At(r, "proposal")
  /\ policy' = [policy EXCEPT ![r] = req[r].draft]
  /\ Goto(r, "invalidate")
  /\ UNCHANGED <<conflict, cache>>

(***************************************************************************)
(* approveVersion: the draft is looked up, the other active versions of     *)
(* its scope are superseded, and it is activated, whatever it is by then.   *)
(***************************************************************************)
FindProposal(r) ==
  /\ CanStart(r, "activate")
  /\ \E v \in PolicyVersion :
        /\ policy[v].status = "draft"
        /\ Begin(r, PolicyCall("activate", "supersede", v, None))
  /\ UNCHANGED policies

Superseded(w) == [v \in PolicyVersion |->
  IF v # w /\ v \in ActiveIn(policy[w].scope)
  THEN [policy[v] EXCEPT !.status = "superseded"] ELSE policy[v]]
Activated(w) == [policy EXCEPT ![w].status = "active"]

Approve_Reversed(r) ==
  /\ \/ At(r, "supersede") /\ policy' = Activated(req[r].version) /\ Goto(r, "activate")
     \/ At(r, "activate") /\ policy' = Superseded(req[r].version) /\ Goto(r, "invalidate")
  /\ UNCHANGED <<conflict, cache>>
Approve(r) ==
  /\ \/ At(r, "supersede") /\ policy' = Superseded(req[r].version) /\ Goto(r, "activate")
     \/ At(r, "activate") /\ policy' = Activated(req[r].version) /\ Goto(r, "invalidate")
  /\ UNCHANGED <<conflict, cache>>

Invalidate(r) ==   \* invalidateCacheForKey, when the answer of the UPDATE is in
  /\ req[r].pc = "invalidate"
  /\ cache' = [ctx \in Context |-> None]
  /\ Goto(r, "done")
  /\ UNCHANGED <<policy, conflict>>

(***************************************************************************)
(* resolve: answered from the cache, unless the entry has expired; else the *)
(* active versions in force are read, versions of one scope are reported    *)
(* as conflicts, and the first in the order of precedence is cached.        *)
(***************************************************************************)
InForce(ctx) == {v \in PolicyVersion : /\ policy[v].status = "active"
                                       /\ policy[v].begun
                                       /\ Applies(policy[v].scope, ctx)}

Foremost(vs) ==   \* ORDER BY leaves the order within a scope open
  LET own == {v \in vs : policy[v].scope = "student"} IN IF own # {} THEN own ELSE vs

Doubled(vs) == {s \in Scope : Cardinality({v \in vs : policy[v].scope = s}) > 1}

CacheHit(r) ==
  /\ CanStart(r, "resolve")
  /\ \E ctx \in Context :
        /\ cache[ctx] # None
        /\ Begin(r, PolicyCall("resolve", "done", cache[ctx], ctx))
  /\ UNCHANGED policies

ReadPolicies(r) ==
  /\ CanStart(r, "resolve")
  /\ \E ctx \in Context :
       LET found == InForce(ctx) IN
       IF found = {} THEN Begin(r, PolicyCall("resolve", "done", None, ctx))
       ELSE \E v \in Foremost(found) :
              Begin(r, [PolicyCall("resolve", "conflict", v, ctx) EXCEPT
                          !.seen = found, !.doubled = Doubled(found), !.catch = "fill"])
  /\ UNCHANGED policies

RecordConflict(r) ==   \* its failure is ignored
  /\ At(r, "conflict")
  /\ \E s \in req[r].doubled :
       \E a, b \in {v \in req[r].seen : policy[v].scope = s} :
         /\ a # b
         /\ conflict' = conflict \cup {<<a, b>>}
         /\ req' = [req EXCEPT ![r].doubled = @ \ {s}]
  /\ UNCHANGED <<desk, holding, policy, cache>>

NoConflict(r) ==
  /\ req[r].pc = "conflict"
  /\ req[r].doubled = {}
  /\ Goto(r, "fill")
  /\ UNCHANGED policies

\* The key names the context: what holds for a student is no one else's.
Key_Policy(ctx) == Context
Key(ctx) == {ctx}

FillCache(r) ==
  /\ req[r].pc = "fill"
  /\ cache' = [ctx \in Context |->
       IF ctx \in Key(req[r].context) THEN req[r].version ELSE cache[ctx]]
  /\ Goto(r, "done")
  /\ UNCHANGED <<policy, conflict>>

PolicyStep(r) ==
  \/ Propose(r) \/ InsertProposal(r)
  \/ FindProposal(r) \/ Approve(r) \/ Invalidate(r)
  \/ CacheHit(r) \/ ReadPolicies(r) \/ RecordConflict(r) \/ NoConflict(r) \/ FillCache(r)

-------------------------------------------------------------------------------
PolicyTypeOK ==
  /\ policy \in [PolicyVersion -> [scope : Scope, number : Nat, begun : BOOLEAN,
                                   status : PolicyStatus]]
  /\ conflict \subseteq PolicyVersion \X PolicyVersion
  /\ cache \in [Context -> PolicyVersion \cup {None}]

\* With one request at a time, what the cache answers is what the database
\* would, for every context, after any sequence of proposals, approvals and
\* resolutions; and one scope never has two active versions.
CacheIsCurrent ==
  AllServed =>
    /\ \A ctx \in Context : cache[ctx] # None => cache[ctx] \in Foremost(InForce(ctx))
    /\ \A s \in Scope : Cardinality(ActiveIn(s)) <= 1

\* However approvals interleave, each superseding what the other activated, a
\* scope that had an active version still has one when all have been served.
ScopeKeepsPolicy ==
  AllServed => \A s \in Scope :
    (\E v \in PolicyVersion : policy[v].scope = s /\ policy[v].status = "superseded")
      => ActiveIn(s) # {}
===============================================================================
