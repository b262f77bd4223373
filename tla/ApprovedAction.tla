--------------------------- MODULE ApprovedAction ---------------------------
(***************************************************************************)
(* What the product promises about an approved version, with no queue, no  *)
(* lease, no attempts and no provider protocol: the action is carried out  *)
(* at most once, only while it is open, and it ends in one outcome, which  *)
(* says "completed" only of an action that was carried out.                *)
(***************************************************************************)
EXTENDS Integers

CONSTANT Executions

VARIABLES
  outcome,      \* "none", "open" or the outcome shown to the caregiver
  deliveries    \* how often the action has been carried out

Init ==
  /\ outcome = [e \in Executions |-> "none"]
  /\ deliveries = [e \in Executions |-> 0]

Approve(e) ==
  /\ outcome[e] = "none"
  /\ outcome' = [outcome EXCEPT ![e] = "open"]
  /\ UNCHANGED deliveries

Deliver(e) ==
  /\ outcome[e] = "open"
  /\ deliveries[e] = 0
  /\ deliveries' = [deliveries EXCEPT ![e] = 1]
  /\ UNCHANGED outcome

Conclude(e, result) ==
  /\ outcome[e] = "open"
  /\ result = "completed" => deliveries[e] = 1
  /\ outcome' = [outcome EXCEPT ![e] = result]
  /\ UNCHANGED deliveries

Next ==
  \E e \in Executions :
    \/ Approve(e)
    \/ Deliver(e)
    \/ \E result \in {"completed", "failed", "delivery_uncertain"} : Conclude(e, result)

Spec == Init /\ [][Next]_<<outcome, deliveries>>

=============================================================================
