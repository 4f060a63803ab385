------------------------------ MODULE Provisioning ------------------------------
(***************************************************************************)
(* What registration promises, with no outbox, broker or consumer: an      *)
(* accepted registration owns its email address from then on, and its      *)
(* profile may appear once, after it.                                      *)
(***************************************************************************)
CONSTANTS Requests,  \* registrations, each with a user ID of its own
          EmailOf    \* the (normalised) address each of them asks for

VARIABLE stage

Stages == {"none", "registered", "provisioned"}

Init == stage = [r \in Requests |-> "none"]

Register(r) ==
    /\ stage[r] = "none"
    /\ \A s \in Requests : stage[s] # "none" => EmailOf[s] # EmailOf[r]
    /\ stage' = [stage EXCEPT ![r] = "registered"]

Provision(r) ==
    /\ stage[r] = "registered"
    /\ stage' = [stage EXCEPT ![r] = "provisioned"]

Next == \E r \in Requests : Register(r) \/ Provision(r)

Spec == Init /\ [][Next]_stage

================================================================================
