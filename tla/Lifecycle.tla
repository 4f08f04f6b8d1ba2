------------------------------- MODULE Lifecycle -------------------------------
(***************************************************************************)
(* What the status of a financing request promises whoever reads it: it is  *)
(* submitted once, then moves only along the published transitions, and     *)
(* confirmed fraud ends it from anywhere.                                   *)
(***************************************************************************)
CONSTANTS Case, Step,
          Known   \* the statuses cases have when one starts to look

VARIABLE status

Submit(c) == /\ status[c] = "absent"
             /\ status' = [status EXCEPT ![c] = "new_lead"]

Move(c) == \E to \in {edge[2] : edge \in Step} :
             /\ <<status[c], to>> \in Step
             /\ status' = [status EXCEPT ![c] = to]

Condemn(c) == /\ status[c] # "absent"
              /\ status' = [status EXCEPT ![c] = "fraud_flagged"]

Next == \E c \in Case : Submit(c) \/ Move(c) \/ Condemn(c)

Init == status \in [Case -> Known]

Spec == Init /\ [][Next]_status
================================================================================
