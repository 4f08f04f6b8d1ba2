------------------------------ MODULE MCPayments ------------------------------
(***************************************************************************)
(* Instances of PaymentBooks for TLC.                                       *)
(***************************************************************************)
EXTENDS PaymentBooks, TLC

CONSTANTS i1, i2, r1, r2, r3, r4, r5

OneInst  == {i1}
TwoInst  == {i1, i2}
DueOfOne == [i \in {i1} |-> 3]
DueOfTwo == [i \in {i1, i2} |-> IF i = i1 THEN 3 ELSE 2]
ThreeReq == {r1, r2, r3}
FourReq  == {r1, r2, r3, r4}
FiveReq  == {r1, r2, r3, r4, r5}

TwoReq   == {r1, r2}

ReceiptOps  == {"record", "submit", "verify", "reject", "reverse"}
RecordOps   == {"record"}
GatewayOps  == {"record", "initiate", "webhook"}
ReviewOps   == {"submit", "verify", "reject"}
RejectOps   == {"record", "reject"}
CalendarOps == {"record", "reverse"}

\* Handlers are interchangeable.
ReqSymmetry == Permutations(Req)
===============================================================================
