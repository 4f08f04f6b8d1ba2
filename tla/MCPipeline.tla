------------------------------ MODULE MCPipeline ------------------------------
(***************************************************************************)
(* Instances of CaseFile for TLC.                                           *)
(***************************************************************************)
EXTENDS CaseFile, TLC

CONSTANTS a1, a2, s1, v1, v2, r1, r2, r3, r4

OneApp == {a1}
TwoApp == {a1, a2}
OneStudent == {s1}
OwnerOfOne == [a \in {a1} |-> s1]
OwnerOfTwo == [a \in {a1, a2} |-> s1]

SmallAmount  == [a \in App |-> "auto"]
SingleAmount == [a \in App |-> "single"]
LargeAmount  == [a \in App |-> "dual"]

TwoReq   == {r1, r2}
ThreeReq == {r1, r2, r3}
FourReq  == {r1, r2, r3, r4}
TwoReviewers == {v1, v2}

Fresh       == [a \in App |-> "new_lead"]
UnderReview == [a \in App |-> "under_review"]
NotYet      == [a \in App |-> "absent"]
OneOfTwo    == [a \in App |-> IF a = a1 THEN "absent" ELSE "under_review"]

NoBallots  == {}
Approval   == {<<"approved", "gold">>}
Rejection  == {<<"rejected", None>>}
YesOrWait  == {<<"approved", "gold">>, <<"waiting_list", None>>}

\* Handlers and reviewers are interchangeable.
Symmetry == Permutations(Req) \cup Permutations(Reviewer)
===============================================================================
